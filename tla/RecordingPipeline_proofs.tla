---------------------- MODULE RecordingPipeline_proofs ----------------------
EXTENDS RecordingPipeline, FiniteSetTheorems, TLAPS

(* What the two counters know.  Every packet in the queue and the one that  *)
(* is being sent is counted, and so is every buffer, also one that is being *)
(* refused; a counter may stay too high, never too low.                     *)
VideoIsCounted == Len(videoQ) + (IF loop.step = "sending" THEN 1 ELSE 0) <= depth

Counting == {s \in Sources : audio[s].step \in {"sending", "refused"}}
Sending == {s \in Sources : audio[s].step = "sending"}
AudioIsCounted == audioQ + Cardinality(Counting) <= audioDepth

(* Audio is within its share, and what a submission still produces is       *)
(* within the headroom above the mark it passed.                            *)
AudioKeepsShare == audioQ + Cardinality(Sending) <= AudioShare
FrameFits == loop.why = "frame" /\ loop.step \in {"draining", "sending"}
               => depth < HighWater + loop.moved /\ loop.moved <= Burst

(* A writer that ends before it is told to has failed, and a failed send    *)
(* means such a writer; the result is given when all is over.               *)
LostHasFailed ==
  /\ writer.step \in {"closing", "gone", "panicked"} /\ loop.step \notin {"finishing", "ended"}
       => writer.failed
  /\ failure = "writerLost" => writer.failed
  /\ result # "running" <=> loop.step = "ended"
  /\ loop.step = "ended" => Lost
  /\ FailureIsTold

IInv == /\ PipelineTypeOK /\ VideoIsCounted /\ AudioIsCounted /\ AudioKeepsShare
        /\ FrameFits /\ LostHasFailed

(* The types, thread by thread.                                             *)
LoopTyped ==
  loop \in [step : {"head", "acquire", "draining", "sending", "recovering", "stopping",
                    "joining", "finishing", "ended"},
            why : {"frame", "seam", "end"},
            reason : {"stopped", "diskSpaceLow", "outputUnavailable", "targetResized",
                      "targetLost"},
            packet : Nat, moved : Nat]
EncoderTyped == submitted \in Nat /\ held \in Seq(Nat)
VideoTyped == videoQ \in Seq(Nat) /\ depth \in Nat
SoundTyped == audioQ \in Nat /\ audioDepth \in Nat
AudioTyped ==
  audio \in [Sources -> [step : {"closed", "reading", "refused", "sending", "ended"},
                         draining : BOOLEAN, left : Nat]]
WriterTyped ==
  /\ writer \in [step : {"waiting", "video", "audio", "closing", "gone", "panicked"},
                 picture : Nat, failed : BOOLEAN]
  /\ file \in Seq(Nat)
SpaceTyped == space \in {"ample", "exhausted", "unreadable"}
OutcomeTyped ==
  /\ failure \in {"none", "encoder", "capture", "writerLost", "panic"}
  /\ result \in {"running", "recorded", "noFrames", "writer", "encoder", "capture",
                 "writerLost", "panic"}
FaultsTyped == faults \in Nat
FlagsTyped == stop \in BOOLEAN /\ audioStop \in BOOLEAN

LEMMA TypeParts ==
  PipelineTypeOK <=> /\ LoopTyped /\ EncoderTyped /\ VideoTyped /\ SoundTyped /\ AudioTyped
                     /\ WriterTyped /\ SpaceTyped /\ OutcomeTyped /\ FaultsTyped /\ FlagsTyped
BY DEF PipelineTypeOK, LoopTyped, EncoderTyped, VideoTyped, SoundTyped, AudioTyped,
   WriterTyped, SpaceTyped, OutcomeTyped, FaultsTyped, FlagsTyped

(* The constants, as numbers.                                               *)
LEMMA Sizes ==
  /\ VideoCapacity \in Nat /\ Headroom \in Nat /\ Burst \in Nat /\ AudioShare \in Nat
  /\ HighWater \in Int /\ Backlog \in Nat
  /\ HighWater + Burst <= VideoCapacity
BY CapacityAssumption, AudioAssumption, EncoderAssumption, BoundAssumption DEF HighWater

(* The sources that are counted are finitely many.                          *)
LEMMA SourcesAreFew ==
  /\ IsFiniteSet(Counting) /\ Cardinality(Counting) \in Nat
  /\ IsFiniteSet(Sending) /\ Cardinality(Sending) \in Nat
  /\ Cardinality(Sending) <= Cardinality(Counting)
<1>1. Sending \subseteq Counting /\ Counting \subseteq Sources
  BY DEF Sending, Counting
<1>2. IsFiniteSet(Counting) /\ IsFiniteSet(Sending)
  BY <1>1, AudioAssumption, FS_Subset
<1> QED BY <1>1, <1>2, FS_Subset, FS_CardinalityType

(* A stop is asked for.                                                     *)
LEMMA RequestStopKeeps ==
  ASSUME IInv, RequestStop
  PROVE  IInv'
<1>0. LoopTyped /\ EncoderTyped /\ VideoTyped /\ SoundTyped /\ AudioTyped
      /\ WriterTyped /\ SpaceTyped /\ OutcomeTyped /\ FaultsTyped /\ FlagsTyped
  BY TypeParts DEF IInv
<1>1. PipelineTypeOK'
  <2>1. FlagsTyped'
    BY <1>0, Sizes DEF RequestStop, FlagsTyped, drive, video, sound, encoder,
      outcome
  <2>2. LoopTyped' /\ EncoderTyped' /\ VideoTyped' /\ SoundTyped' /\ AudioTyped' /\
    WriterTyped' /\ SpaceTyped' /\ OutcomeTyped' /\ FaultsTyped'
    BY <1>0 DEF RequestStop, LoopTyped, EncoderTyped, VideoTyped, SoundTyped,
      AudioTyped, WriterTyped, SpaceTyped, OutcomeTyped, FaultsTyped, drive, video,
      sound, encoder, outcome
  <2> QED BY <2>1, <2>2 DEF LoopTyped, EncoderTyped, VideoTyped, SoundTyped,
    AudioTyped, WriterTyped, SpaceTyped, OutcomeTyped, FaultsTyped, FlagsTyped,
    PipelineTypeOK
<1>2. VideoIsCounted' /\ AudioIsCounted' /\ AudioKeepsShare' /\ FrameFits' /\ LostHasFailed'
  BY DEF RequestStop, IInv, encoder, video, sound, drive, outcome, VideoIsCounted,
    AudioIsCounted, Counting, AudioKeepsShare, Sending, FrameFits, LostHasFailed,
    Lost, FailureIsTold
<1> QED BY <1>1, <1>2 DEF IInv

(* The loop looks at the stop and at the drive.                             *)
LEMMA LoopTopKeeps ==
  ASSUME IInv, LoopTop
  PROVE  IInv'
<1>0. LoopTyped /\ EncoderTyped /\ VideoTyped /\ SoundTyped /\ AudioTyped
      /\ WriterTyped /\ SpaceTyped /\ OutcomeTyped /\ FaultsTyped /\ FlagsTyped
  BY TypeParts DEF IInv
<1>1. PipelineTypeOK'
  <2>1. LoopTyped'
    BY <1>0, Sizes DEF LoopTop, Ends, LoopTyped, drive, video, sound, encoder,
      outcome
  <2>2. EncoderTyped' /\ VideoTyped' /\ SoundTyped' /\ AudioTyped' /\ WriterTyped'
    /\ SpaceTyped' /\ OutcomeTyped' /\ FaultsTyped' /\ FlagsTyped'
    BY <1>0 DEF LoopTop, EncoderTyped, VideoTyped, SoundTyped, AudioTyped,
      WriterTyped, SpaceTyped, OutcomeTyped, FaultsTyped, FlagsTyped, drive, video,
      sound, encoder, outcome
  <2> QED BY <2>1, <2>2 DEF LoopTyped, EncoderTyped, VideoTyped, SoundTyped,
    AudioTyped, WriterTyped, SpaceTyped, OutcomeTyped, FaultsTyped, FlagsTyped,
    PipelineTypeOK
<1>2. AudioIsCounted' /\ AudioKeepsShare'
  BY DEF LoopTop, IInv, encoder, video, sound, drive, outcome, AudioIsCounted,
    Counting, AudioKeepsShare, Sending
<1>3. VideoIsCounted'
  BY <1>0, Sizes, SourcesAreFew DEF LoopTop, IInv, VideoTyped, LoopTyped,
    VideoIsCounted, Ends, encoder, video, sound, drive, outcome
<1>4. FrameFits'
  BY <1>0, Sizes, SourcesAreFew DEF LoopTop, IInv, VideoTyped, LoopTyped,
    FrameFits, Ends, encoder, video, sound, drive, outcome
<1>5. LostHasFailed'
  BY <1>0, Sizes, SourcesAreFew DEF LoopTop, IInv, LoopTyped, WriterTyped,
    OutcomeTyped, LostHasFailed, Ends, Lost, FailureIsTold, encoder, video, sound,
    drive, outcome
<1> QED BY <1>1, <1>2, <1>3, <1>4, <1>5 DEF IInv

(* A frame is submitted below the mark, and nothing of it has moved yet.    *)
LEMMA FrameSubmittedKeeps ==
  ASSUME IInv, FrameSubmitted
  PROVE  IInv'
<1>0. LoopTyped /\ EncoderTyped /\ VideoTyped /\ SoundTyped /\ AudioTyped
      /\ WriterTyped /\ SpaceTyped /\ OutcomeTyped /\ FaultsTyped /\ FlagsTyped
  BY TypeParts DEF IInv
<1>1. PipelineTypeOK'
  <2>1. LoopTyped'
    BY <1>0, Sizes DEF FrameSubmitted, IsBehind, AudioStarted, LoopTyped, drive,
      video, sound, encoder, outcome
  <2>2. EncoderTyped'
    BY <1>0, Sizes DEF FrameSubmitted, IsBehind, AudioStarted, EncoderTyped, drive,
      video, sound, encoder, outcome
  <2>3. AudioTyped'
    BY <1>0, Sizes DEF FrameSubmitted, IsBehind, AudioStarted, AudioTyped, drive,
      video, sound, encoder, outcome
  <2>4. VideoTyped' /\ SoundTyped' /\ WriterTyped' /\ SpaceTyped' /\ OutcomeTyped'
    /\ FaultsTyped' /\ FlagsTyped'
    BY <1>0 DEF FrameSubmitted, VideoTyped, SoundTyped, WriterTyped, SpaceTyped,
      OutcomeTyped, FaultsTyped, FlagsTyped, drive, video, sound, encoder, outcome
  <2> QED BY <2>1, <2>2, <2>3, <2>4 DEF LoopTyped, EncoderTyped, VideoTyped,
    SoundTyped, AudioTyped, WriterTyped, SpaceTyped, OutcomeTyped, FaultsTyped,
    FlagsTyped, PipelineTypeOK
<1>2. VideoIsCounted'
  BY <1>0, Sizes, SourcesAreFew DEF FrameSubmitted, IInv, VideoTyped, LoopTyped,
    VideoIsCounted, IsBehind, AudioStarted, encoder, video, sound, drive, outcome
<1>3. AudioIsCounted'
  BY <1>0, Sizes, SourcesAreFew DEF FrameSubmitted, IInv, SoundTyped, AudioTyped,
    AudioIsCounted, IsBehind, AudioStarted, Counting, encoder, video, sound, drive,
    outcome
<1>4. AudioKeepsShare'
  BY <1>0, Sizes, SourcesAreFew DEF FrameSubmitted, IInv, SoundTyped, AudioTyped,
    AudioKeepsShare, IsBehind, AudioStarted, Sending, encoder, video, sound, drive,
    outcome
<1>5. FrameFits'
  BY <1>0, Sizes, SourcesAreFew DEF FrameSubmitted, IInv, VideoTyped, LoopTyped,
    FrameFits, IsBehind, AudioStarted, encoder, video, sound, drive, outcome
<1>6. LostHasFailed'
  BY <1>0, Sizes, SourcesAreFew DEF FrameSubmitted, IInv, LoopTyped, WriterTyped,
    OutcomeTyped, LostHasFailed, IsBehind, AudioStarted, Lost, FailureIsTold,
    encoder, video, sound, drive, outcome
<1> QED BY <1>1, <1>2, <1>3, <1>4, <1>5, <1>6 DEF IInv

(* A frame is dropped.                                                      *)
LEMMA FrameDroppedKeeps ==
  ASSUME IInv, FrameDropped
  PROVE  IInv'
<1>0. LoopTyped /\ EncoderTyped /\ VideoTyped /\ SoundTyped /\ AudioTyped
      /\ WriterTyped /\ SpaceTyped /\ OutcomeTyped /\ FaultsTyped /\ FlagsTyped
  BY TypeParts DEF IInv
<1>1. PipelineTypeOK'
  <2>1. LoopTyped'
    BY <1>0, Sizes DEF FrameDropped, AudioStarted, LoopTyped, drive, video, sound,
      encoder, outcome
  <2>2. AudioTyped'
    BY <1>0, Sizes DEF FrameDropped, AudioStarted, AudioTyped, drive, video, sound,
      encoder, outcome
  <2>3. EncoderTyped' /\ VideoTyped' /\ SoundTyped' /\ WriterTyped' /\ SpaceTyped'
    /\ OutcomeTyped' /\ FaultsTyped' /\ FlagsTyped'
    BY <1>0 DEF FrameDropped, EncoderTyped, VideoTyped, SoundTyped, WriterTyped,
      SpaceTyped, OutcomeTyped, FaultsTyped, FlagsTyped, drive, video, sound,
      encoder, outcome
  <2> QED BY <2>1, <2>2, <2>3 DEF LoopTyped, EncoderTyped, VideoTyped, SoundTyped,
    AudioTyped, WriterTyped, SpaceTyped, OutcomeTyped, FaultsTyped, FlagsTyped,
    PipelineTypeOK
<1>2. VideoIsCounted'
  BY <1>0, Sizes, SourcesAreFew DEF FrameDropped, IInv, VideoTyped, LoopTyped,
    VideoIsCounted, AudioStarted, encoder, video, sound, drive, outcome
<1>3. AudioIsCounted'
  BY <1>0, Sizes, SourcesAreFew DEF FrameDropped, IInv, SoundTyped, AudioTyped,
    AudioIsCounted, AudioStarted, Counting, encoder, video, sound, drive, outcome
<1>4. AudioKeepsShare'
  BY <1>0, Sizes, SourcesAreFew DEF FrameDropped, IInv, SoundTyped, AudioTyped,
    AudioKeepsShare, AudioStarted, Sending, encoder, video, sound, drive, outcome
<1>5. FrameFits'
  BY <1>0, Sizes, SourcesAreFew DEF FrameDropped, IInv, VideoTyped, LoopTyped,
    FrameFits, AudioStarted, encoder, video, sound, drive, outcome
<1>6. LostHasFailed'
  BY <1>0, Sizes, SourcesAreFew DEF FrameDropped, IInv, LoopTyped, WriterTyped,
    OutcomeTyped, LostHasFailed, AudioStarted, Lost, FailureIsTold, encoder, video,
    sound, drive, outcome
<1> QED BY <1>1, <1>2, <1>3, <1>4, <1>5, <1>6 DEF IInv

(* The encoder refuses a frame.                                             *)
LEMMA FrameRefusedKeeps ==
  ASSUME IInv, FrameRefused
  PROVE  IInv'
<1>0. LoopTyped /\ EncoderTyped /\ VideoTyped /\ SoundTyped /\ AudioTyped
      /\ WriterTyped /\ SpaceTyped /\ OutcomeTyped /\ FaultsTyped /\ FlagsTyped
  BY TypeParts DEF IInv
<1>1. PipelineTypeOK'
  <2>1. LoopTyped'
    BY <1>0, Sizes DEF FrameRefused, AudioStarted, Ends, Fault, Fails, LoopTyped,
      drive, video, sound, encoder, outcome
  <2>2. AudioTyped'
    BY <1>0, Sizes DEF FrameRefused, AudioStarted, Ends, Fault, Fails, AudioTyped,
      drive, video, sound, encoder, outcome
  <2>3. OutcomeTyped'
    BY <1>0, Sizes DEF FrameRefused, AudioStarted, Ends, Fault, Fails,
      OutcomeTyped, drive, video, sound, encoder, outcome
  <2>4. FaultsTyped'
    BY <1>0, Sizes DEF FrameRefused, AudioStarted, Ends, Fault, Fails, FaultsTyped,
      drive, video, sound, encoder, outcome
  <2>5. EncoderTyped' /\ VideoTyped' /\ SoundTyped' /\ WriterTyped' /\ SpaceTyped'
    /\ FlagsTyped'
    BY <1>0 DEF FrameRefused, EncoderTyped, VideoTyped, SoundTyped, WriterTyped,
      SpaceTyped, FlagsTyped, drive, video, sound, encoder, outcome, Fails
  <2> QED BY <2>1, <2>2, <2>3, <2>4, <2>5 DEF LoopTyped, EncoderTyped, VideoTyped,
    SoundTyped, AudioTyped, WriterTyped, SpaceTyped, OutcomeTyped, FaultsTyped,
    FlagsTyped, PipelineTypeOK
<1>2. VideoIsCounted'
  BY <1>0, Sizes, SourcesAreFew DEF FrameRefused, IInv, VideoTyped, LoopTyped,
    VideoIsCounted, AudioStarted, Ends, Fault, Fails, encoder, video, sound, drive,
    outcome
<1>3. AudioIsCounted'
  BY <1>0, Sizes, SourcesAreFew DEF FrameRefused, IInv, SoundTyped, AudioTyped,
    AudioIsCounted, AudioStarted, Ends, Fault, Fails, Counting, encoder, video,
    sound, drive, outcome
<1>4. AudioKeepsShare'
  BY <1>0, Sizes, SourcesAreFew DEF FrameRefused, IInv, SoundTyped, AudioTyped,
    AudioKeepsShare, AudioStarted, Ends, Fault, Fails, Sending, encoder, video,
    sound, drive, outcome
<1>5. FrameFits'
  BY <1>0, Sizes, SourcesAreFew DEF FrameRefused, IInv, VideoTyped, LoopTyped,
    FrameFits, AudioStarted, Ends, Fault, Fails, encoder, video, sound, drive,
    outcome
<1>6. LostHasFailed'
  BY <1>0, Sizes, SourcesAreFew DEF FrameRefused, IInv, LoopTyped, WriterTyped,
    OutcomeTyped, LostHasFailed, AudioStarted, Ends, Fault, Fails, Lost,
    FailureIsTold, encoder, video, sound, drive, outcome
<1> QED BY <1>1, <1>2, <1>3, <1>4, <1>5, <1>6 DEF IInv

(* No frame comes.                                                          *)
LEMMA NoFrameKeeps ==
  ASSUME IInv, NoFrame
  PROVE  IInv'
<1>0. LoopTyped /\ EncoderTyped /\ VideoTyped /\ SoundTyped /\ AudioTyped
      /\ WriterTyped /\ SpaceTyped /\ OutcomeTyped /\ FaultsTyped /\ FlagsTyped
  BY TypeParts DEF IInv
<1>1. PipelineTypeOK'
  <2>1. LoopTyped'
    BY <1>0, Sizes DEF NoFrame, LoopTyped, drive, video, sound, encoder, outcome
  <2>2. EncoderTyped' /\ VideoTyped' /\ SoundTyped' /\ AudioTyped' /\ WriterTyped'
    /\ SpaceTyped' /\ OutcomeTyped' /\ FaultsTyped' /\ FlagsTyped'
    BY <1>0 DEF NoFrame, EncoderTyped, VideoTyped, SoundTyped, AudioTyped,
      WriterTyped, SpaceTyped, OutcomeTyped, FaultsTyped, FlagsTyped, drive, video,
      sound, encoder, outcome
  <2> QED BY <2>1, <2>2 DEF LoopTyped, EncoderTyped, VideoTyped, SoundTyped,
    AudioTyped, WriterTyped, SpaceTyped, OutcomeTyped, FaultsTyped, FlagsTyped,
    PipelineTypeOK
<1>2. AudioIsCounted' /\ AudioKeepsShare'
  BY DEF NoFrame, IInv, encoder, video, sound, drive, outcome, AudioIsCounted,
    Counting, AudioKeepsShare, Sending
<1>3. VideoIsCounted'
  BY <1>0, Sizes, SourcesAreFew DEF NoFrame, IInv, VideoTyped, LoopTyped,
    VideoIsCounted, encoder, video, sound, drive, outcome
<1>4. FrameFits'
  BY <1>0, Sizes, SourcesAreFew DEF NoFrame, IInv, VideoTyped, LoopTyped,
    FrameFits, encoder, video, sound, drive, outcome
<1>5. LostHasFailed'
  BY <1>0, Sizes, SourcesAreFew DEF NoFrame, IInv, LoopTyped, WriterTyped,
    OutcomeTyped, LostHasFailed, Lost, FailureIsTold, encoder, video, sound, drive,
    outcome
<1> QED BY <1>1, <1>2, <1>3, <1>4, <1>5 DEF IInv

(* The window is gone, or has another size.                                 *)
LEMMA SourceEndsKeeps ==
  ASSUME IInv, SourceEnds
  PROVE  IInv'
<1>0. LoopTyped /\ EncoderTyped /\ VideoTyped /\ SoundTyped /\ AudioTyped
      /\ WriterTyped /\ SpaceTyped /\ OutcomeTyped /\ FaultsTyped /\ FlagsTyped
  BY TypeParts DEF IInv
<1>1. PipelineTypeOK'
  <2>1. LoopTyped'
    <3>1. PICK reason \in {"targetResized", "targetLost"} :
            loop' = Ends(reason)
      BY DEF SourceEnds
    <3>2. reason \in {"targetResized", "targetLost", "stopped"}
      BY <3>1
    <3> QED BY <1>0, <3>1, <3>2 DEF Ends, LoopTyped
  <2>2. FaultsTyped'
    BY <1>0, Sizes DEF SourceEnds, Ends, Fault, FaultsTyped, drive, video, sound,
      encoder, outcome
  <2>3. EncoderTyped' /\ VideoTyped' /\ SoundTyped' /\ AudioTyped' /\ WriterTyped'
    /\ SpaceTyped' /\ OutcomeTyped' /\ FlagsTyped'
    BY <1>0 DEF SourceEnds, EncoderTyped, VideoTyped, SoundTyped, AudioTyped,
      WriterTyped, SpaceTyped, OutcomeTyped, FlagsTyped, drive, video, sound,
      encoder, outcome
  <2> QED BY <2>1, <2>2, <2>3 DEF LoopTyped, EncoderTyped, VideoTyped, SoundTyped,
    AudioTyped, WriterTyped, SpaceTyped, OutcomeTyped, FaultsTyped, FlagsTyped,
    PipelineTypeOK
<1>2. AudioIsCounted' /\ AudioKeepsShare'
  BY DEF SourceEnds, IInv, encoder, video, sound, drive, outcome, AudioIsCounted,
    Counting, AudioKeepsShare, Sending
<1>3. VideoIsCounted'
  BY <1>0, Sizes, SourcesAreFew DEF SourceEnds, IInv, VideoTyped, LoopTyped,
    VideoIsCounted, Ends, Fault, encoder, video, sound, drive, outcome
<1>4. FrameFits'
  BY <1>0, Sizes, SourcesAreFew DEF SourceEnds, IInv, VideoTyped, LoopTyped,
    FrameFits, Ends, Fault, encoder, video, sound, drive, outcome
<1>5. LostHasFailed'
  BY <1>0, Sizes, SourcesAreFew DEF SourceEnds, IInv, LoopTyped, WriterTyped,
    OutcomeTyped, LostHasFailed, Ends, Fault, Lost, FailureIsTold, encoder, video,
    sound, drive, outcome
<1> QED BY <1>1, <1>2, <1>3, <1>4, <1>5 DEF IInv

(* The capture fails.                                                       *)
LEMMA CaptureFailsKeeps ==
  ASSUME IInv, CaptureFails
  PROVE  IInv'
<1>0. LoopTyped /\ EncoderTyped /\ VideoTyped /\ SoundTyped /\ AudioTyped
      /\ WriterTyped /\ SpaceTyped /\ OutcomeTyped /\ FaultsTyped /\ FlagsTyped
  BY TypeParts DEF IInv
<1>1. PipelineTypeOK'
  <2>1. LoopTyped'
    BY <1>0, Sizes DEF CaptureFails, Fault, LoopTyped, drive, video, sound,
      encoder, outcome
  <2>2. FaultsTyped'
    BY <1>0, Sizes DEF CaptureFails, Fault, FaultsTyped, drive, video, sound,
      encoder, outcome
  <2>3. EncoderTyped' /\ VideoTyped' /\ SoundTyped' /\ AudioTyped' /\ WriterTyped'
    /\ SpaceTyped' /\ OutcomeTyped' /\ FlagsTyped'
    BY <1>0 DEF CaptureFails, EncoderTyped, VideoTyped, SoundTyped, AudioTyped,
      WriterTyped, SpaceTyped, OutcomeTyped, FlagsTyped, drive, video, sound,
      encoder, outcome
  <2> QED BY <2>1, <2>2, <2>3 DEF LoopTyped, EncoderTyped, VideoTyped, SoundTyped,
    AudioTyped, WriterTyped, SpaceTyped, OutcomeTyped, FaultsTyped, FlagsTyped,
    PipelineTypeOK
<1>2. AudioIsCounted' /\ AudioKeepsShare'
  BY DEF CaptureFails, IInv, encoder, video, sound, drive, outcome, AudioIsCounted,
    Counting, AudioKeepsShare, Sending
<1>3. VideoIsCounted'
  BY <1>0, Sizes, SourcesAreFew DEF CaptureFails, IInv, VideoTyped, LoopTyped,
    VideoIsCounted, Fault, encoder, video, sound, drive, outcome
<1>4. FrameFits'
  BY <1>0, Sizes, SourcesAreFew DEF CaptureFails, IInv, VideoTyped, LoopTyped,
    FrameFits, Fault, encoder, video, sound, drive, outcome
<1>5. LostHasFailed'
  BY <1>0, Sizes, SourcesAreFew DEF CaptureFails, IInv, LoopTyped, WriterTyped,
    OutcomeTyped, LostHasFailed, Fault, Lost, FailureIsTold, encoder, video, sound,
    drive, outcome
<1> QED BY <1>1, <1>2, <1>3, <1>4, <1>5 DEF IInv

(* A packet is counted before it is sent.                                   *)
LEMMA YieldsKeeps ==
  ASSUME IInv, Yields
  PROVE  IInv'
<1>0. LoopTyped /\ EncoderTyped /\ VideoTyped /\ SoundTyped /\ AudioTyped
      /\ WriterTyped /\ SpaceTyped /\ OutcomeTyped /\ FaultsTyped /\ FlagsTyped
  BY TypeParts DEF IInv
<1>1. PipelineTypeOK'
  <2>1. LoopTyped'
    <3> DEFINE n == IF loop.why = "frame" THEN loop.moved + 1 ELSE loop.moved
    <3>1. Head(held) \in Nat /\ n \in Nat
      BY <1>0 DEF Yields, EncoderTyped, LoopTyped
    <3>2. loop' = [loop EXCEPT !.step = "sending", !.packet = Head(held), !.moved = n]
      BY DEF Yields
    <3> HIDE DEF n
    <3> QED BY <1>0, <3>1, <3>2 DEF LoopTyped
  <2>2. EncoderTyped'
    BY <1>0, Sizes DEF Yields, EncoderTyped, drive, video, sound, encoder, outcome
  <2>3. VideoTyped'
    BY <1>0, Sizes DEF Yields, VideoTyped, drive, video, sound, encoder, outcome
  <2>4. SoundTyped' /\ AudioTyped' /\ WriterTyped' /\ SpaceTyped' /\ OutcomeTyped'
    /\ FaultsTyped' /\ FlagsTyped'
    BY <1>0 DEF Yields, SoundTyped, AudioTyped, WriterTyped, SpaceTyped,
      OutcomeTyped, FaultsTyped, FlagsTyped, drive, video, sound, encoder, outcome
  <2> QED BY <2>1, <2>2, <2>3, <2>4 DEF LoopTyped, EncoderTyped, VideoTyped,
    SoundTyped, AudioTyped, WriterTyped, SpaceTyped, OutcomeTyped, FaultsTyped,
    FlagsTyped, PipelineTypeOK
<1>2. AudioIsCounted' /\ AudioKeepsShare'
  BY DEF Yields, IInv, encoder, video, sound, drive, outcome, AudioIsCounted,
    Counting, AudioKeepsShare, Sending
<1>3. VideoIsCounted'
  BY <1>0, Sizes, SourcesAreFew DEF Yields, IInv, VideoTyped, LoopTyped,
    VideoIsCounted, encoder, video, sound, drive, outcome
<1>4. FrameFits'
  BY <1>0, Sizes, SourcesAreFew DEF Yields, IInv, VideoTyped, LoopTyped, FrameFits,
    encoder, video, sound, drive, outcome
<1>5. LostHasFailed'
  BY <1>0, Sizes, SourcesAreFew DEF Yields, IInv, LoopTyped, WriterTyped,
    OutcomeTyped, LostHasFailed, Lost, FailureIsTold, encoder, video, sound, drive,
    outcome
<1> QED BY <1>1, <1>2, <1>3, <1>4, <1>5 DEF IInv

(* What was being sent is in the queue.                                     *)
LEMMA SentKeeps ==
  ASSUME IInv, Sent
  PROVE  IInv'
<1>0. LoopTyped /\ EncoderTyped /\ VideoTyped /\ SoundTyped /\ AudioTyped
      /\ WriterTyped /\ SpaceTyped /\ OutcomeTyped /\ FaultsTyped /\ FlagsTyped
  BY TypeParts DEF IInv
<1>1. PipelineTypeOK'
  <2>1. LoopTyped'
    BY <1>0, Sizes DEF Sent, Lost, LoopTyped, drive, video, sound, encoder, outcome
  <2>2. VideoTyped'
    <3>1. loop.packet \in Nat
      BY <1>0 DEF LoopTyped
    <3> QED BY <1>0, <3>1 DEF Sent, VideoTyped
  <2>3. EncoderTyped' /\ SoundTyped' /\ AudioTyped' /\ WriterTyped' /\ SpaceTyped'
    /\ OutcomeTyped' /\ FaultsTyped' /\ FlagsTyped'
    BY <1>0 DEF Sent, EncoderTyped, SoundTyped, AudioTyped, WriterTyped,
      SpaceTyped, OutcomeTyped, FaultsTyped, FlagsTyped, drive, video, sound,
      encoder, outcome
  <2> QED BY <2>1, <2>2, <2>3 DEF LoopTyped, EncoderTyped, VideoTyped, SoundTyped,
    AudioTyped, WriterTyped, SpaceTyped, OutcomeTyped, FaultsTyped, FlagsTyped,
    PipelineTypeOK
<1>2. AudioIsCounted' /\ AudioKeepsShare'
  BY DEF Sent, IInv, encoder, video, sound, drive, outcome, AudioIsCounted,
    Counting, AudioKeepsShare, Sending
<1>3. VideoIsCounted'
  BY <1>0, Sizes, SourcesAreFew DEF Sent, IInv, VideoTyped, LoopTyped,
    VideoIsCounted, Lost, encoder, video, sound, drive, outcome
<1>4. FrameFits'
  BY <1>0, Sizes, SourcesAreFew DEF Sent, IInv, VideoTyped, LoopTyped, FrameFits,
    Lost, encoder, video, sound, drive, outcome
<1>5. LostHasFailed'
  BY <1>0, Sizes, SourcesAreFew DEF Sent, IInv, LoopTyped, WriterTyped,
    OutcomeTyped, LostHasFailed, Lost, FailureIsTold, encoder, video, sound, drive,
    outcome
<1> QED BY <1>1, <1>2, <1>3, <1>4, <1>5 DEF IInv

(* Only a writer that has failed is gone while the loop still sends.        *)
LEMMA SendFailsKeeps ==
  ASSUME IInv, SendFails
  PROVE  IInv'
<1>0. LoopTyped /\ EncoderTyped /\ VideoTyped /\ SoundTyped /\ AudioTyped
      /\ WriterTyped /\ SpaceTyped /\ OutcomeTyped /\ FaultsTyped /\ FlagsTyped
  BY TypeParts DEF IInv
<1>1. PipelineTypeOK'
  <2>1. LoopTyped'
    BY <1>0, Sizes DEF SendFails, Lost, Fails, AfterFailure, Ends, LoopTyped,
      drive, video, sound, encoder, outcome
  <2>2. VideoTyped'
    BY <1>0, Sizes DEF SendFails, Lost, Fails, AfterFailure, Ends, VideoTyped,
      IInv, VideoIsCounted, LoopTyped, drive, video, sound, encoder, outcome
  <2>3. OutcomeTyped'
    BY <1>0, Sizes DEF SendFails, Lost, Fails, AfterFailure, Ends, OutcomeTyped,
      drive, video, sound, encoder, outcome
  <2>4. EncoderTyped' /\ SoundTyped' /\ AudioTyped' /\ WriterTyped' /\ SpaceTyped'
    /\ FaultsTyped' /\ FlagsTyped'
    BY <1>0 DEF SendFails, EncoderTyped, SoundTyped, AudioTyped, WriterTyped,
      SpaceTyped, FaultsTyped, FlagsTyped, drive, video, sound, encoder, outcome,
      Fails
  <2> QED BY <2>1, <2>2, <2>3, <2>4 DEF LoopTyped, EncoderTyped, VideoTyped,
    SoundTyped, AudioTyped, WriterTyped, SpaceTyped, OutcomeTyped, FaultsTyped,
    FlagsTyped, PipelineTypeOK
<1>2. AudioIsCounted' /\ AudioKeepsShare'
  BY DEF SendFails, IInv, encoder, video, sound, drive, outcome, AudioIsCounted,
    Counting, AudioKeepsShare, Sending
<1>3. VideoIsCounted'
  BY <1>0, Sizes, SourcesAreFew DEF SendFails, IInv, VideoTyped, LoopTyped,
    VideoIsCounted, Lost, Fails, AfterFailure, Ends, encoder, video, sound, drive,
    outcome
<1>4. FrameFits'
  BY <1>0, Sizes, SourcesAreFew DEF SendFails, IInv, VideoTyped, LoopTyped,
    FrameFits, Lost, Fails, AfterFailure, Ends, encoder, video, sound, drive,
    outcome
<1>5. LostHasFailed'
  BY <1>0, Sizes, SourcesAreFew DEF SendFails, IInv, LoopTyped, WriterTyped,
    OutcomeTyped, LostHasFailed, Lost, Fails, AfterFailure, Ends, FailureIsTold,
    encoder, video, sound, drive, outcome
<1> QED BY <1>1, <1>2, <1>3, <1>4, <1>5 DEF IInv

(* The encoder fails.                                                       *)
LEMMA EncoderFailsKeeps ==
  ASSUME IInv, EncoderFails
  PROVE  IInv'
<1>0. LoopTyped /\ EncoderTyped /\ VideoTyped /\ SoundTyped /\ AudioTyped
      /\ WriterTyped /\ SpaceTyped /\ OutcomeTyped /\ FaultsTyped /\ FlagsTyped
  BY TypeParts DEF IInv
<1>1. PipelineTypeOK'
  <2>1. LoopTyped'
    BY <1>0, Sizes DEF EncoderFails, Fault, Fails, AfterFailure, Ends, LoopTyped,
      drive, video, sound, encoder, outcome
  <2>2. OutcomeTyped'
    BY <1>0, Sizes DEF EncoderFails, Fault, Fails, AfterFailure, Ends,
      OutcomeTyped, drive, video, sound, encoder, outcome
  <2>3. FaultsTyped'
    BY <1>0, Sizes DEF EncoderFails, Fault, Fails, AfterFailure, Ends, FaultsTyped,
      drive, video, sound, encoder, outcome
  <2>4. EncoderTyped' /\ VideoTyped' /\ SoundTyped' /\ AudioTyped' /\ WriterTyped'
    /\ SpaceTyped' /\ FlagsTyped'
    BY <1>0 DEF EncoderFails, EncoderTyped, VideoTyped, SoundTyped, AudioTyped,
      WriterTyped, SpaceTyped, FlagsTyped, drive, video, sound, encoder, outcome,
      Fails
  <2> QED BY <2>1, <2>2, <2>3, <2>4 DEF LoopTyped, EncoderTyped, VideoTyped,
    SoundTyped, AudioTyped, WriterTyped, SpaceTyped, OutcomeTyped, FaultsTyped,
    FlagsTyped, PipelineTypeOK
<1>2. AudioIsCounted' /\ AudioKeepsShare'
  BY DEF EncoderFails, IInv, encoder, video, sound, drive, outcome, AudioIsCounted,
    Counting, AudioKeepsShare, Sending
<1>3. VideoIsCounted'
  BY <1>0, Sizes, SourcesAreFew DEF EncoderFails, IInv, VideoTyped, LoopTyped,
    VideoIsCounted, Fault, Fails, AfterFailure, Ends, encoder, video, sound, drive,
    outcome
<1>4. FrameFits'
  BY <1>0, Sizes, SourcesAreFew DEF EncoderFails, IInv, VideoTyped, LoopTyped,
    FrameFits, Fault, Fails, AfterFailure, Ends, encoder, video, sound, drive,
    outcome
<1>5. LostHasFailed'
  BY <1>0, Sizes, SourcesAreFew DEF EncoderFails, IInv, LoopTyped, WriterTyped,
    OutcomeTyped, LostHasFailed, Fault, Fails, AfterFailure, Ends, Lost,
    FailureIsTold, encoder, video, sound, drive, outcome
<1> QED BY <1>1, <1>2, <1>3, <1>4, <1>5 DEF IInv

(* A frame's packets are through.                                           *)
LEMMA FrameDoneKeeps ==
  ASSUME IInv, FrameDone
  PROVE  IInv'
<1>0. LoopTyped /\ EncoderTyped /\ VideoTyped /\ SoundTyped /\ AudioTyped
      /\ WriterTyped /\ SpaceTyped /\ OutcomeTyped /\ FaultsTyped /\ FlagsTyped
  BY TypeParts DEF IInv
<1>1. PipelineTypeOK'
  <2>1. LoopTyped'
    BY <1>0, Sizes DEF FrameDone, Fault, LoopTyped, drive, video, sound, encoder,
      outcome
  <2>2. FaultsTyped'
    BY <1>0, Sizes DEF FrameDone, Fault, FaultsTyped, drive, video, sound, encoder,
      outcome
  <2>3. EncoderTyped' /\ VideoTyped' /\ SoundTyped' /\ AudioTyped' /\ WriterTyped'
    /\ SpaceTyped' /\ OutcomeTyped' /\ FlagsTyped'
    BY <1>0 DEF FrameDone, EncoderTyped, VideoTyped, SoundTyped, AudioTyped,
      WriterTyped, SpaceTyped, OutcomeTyped, FlagsTyped, drive, video, sound,
      encoder, outcome
  <2> QED BY <2>1, <2>2, <2>3 DEF LoopTyped, EncoderTyped, VideoTyped, SoundTyped,
    AudioTyped, WriterTyped, SpaceTyped, OutcomeTyped, FaultsTyped, FlagsTyped,
    PipelineTypeOK
<1>2. AudioIsCounted' /\ AudioKeepsShare'
  BY DEF FrameDone, IInv, encoder, video, sound, drive, outcome, AudioIsCounted,
    Counting, AudioKeepsShare, Sending
<1>3. VideoIsCounted'
  BY <1>0, Sizes, SourcesAreFew DEF FrameDone, IInv, VideoTyped, LoopTyped,
    VideoIsCounted, Fault, encoder, video, sound, drive, outcome
<1>4. FrameFits'
  BY <1>0, Sizes, SourcesAreFew DEF FrameDone, IInv, VideoTyped, LoopTyped,
    FrameFits, Fault, encoder, video, sound, drive, outcome
<1>5. LostHasFailed'
  BY <1>0, Sizes, SourcesAreFew DEF FrameDone, IInv, LoopTyped, WriterTyped,
    OutcomeTyped, LostHasFailed, Fault, Lost, FailureIsTold, encoder, video, sound,
    drive, outcome
<1> QED BY <1>1, <1>2, <1>3, <1>4, <1>5 DEF IInv

(* Nothing takes over.                                                      *)
LEMMA RecoveryFailsKeeps ==
  ASSUME IInv, RecoveryFails
  PROVE  IInv'
<1>0. LoopTyped /\ EncoderTyped /\ VideoTyped /\ SoundTyped /\ AudioTyped
      /\ WriterTyped /\ SpaceTyped /\ OutcomeTyped /\ FaultsTyped /\ FlagsTyped
  BY TypeParts DEF IInv
<1>1. PipelineTypeOK'
  <2>1. LoopTyped'
    BY <1>0, Sizes DEF RecoveryFails, Fails, Ends, LoopTyped, drive, video, sound,
      encoder, outcome
  <2>2. OutcomeTyped'
    BY <1>0, Sizes DEF RecoveryFails, Fails, Ends, OutcomeTyped, drive, video,
      sound, encoder, outcome
  <2>3. EncoderTyped' /\ VideoTyped' /\ SoundTyped' /\ AudioTyped' /\ WriterTyped'
    /\ SpaceTyped' /\ FaultsTyped' /\ FlagsTyped'
    BY <1>0 DEF RecoveryFails, EncoderTyped, VideoTyped, SoundTyped, AudioTyped,
      WriterTyped, SpaceTyped, FaultsTyped, FlagsTyped, drive, video, sound,
      encoder, outcome, Fails
  <2> QED BY <2>1, <2>2, <2>3 DEF LoopTyped, EncoderTyped, VideoTyped, SoundTyped,
    AudioTyped, WriterTyped, SpaceTyped, OutcomeTyped, FaultsTyped, FlagsTyped,
    PipelineTypeOK
<1>2. AudioIsCounted' /\ AudioKeepsShare'
  BY DEF RecoveryFails, IInv, encoder, video, sound, drive, outcome,
    AudioIsCounted, Counting, AudioKeepsShare, Sending
<1>3. VideoIsCounted'
  BY <1>0, Sizes, SourcesAreFew DEF RecoveryFails, IInv, VideoTyped, LoopTyped,
    VideoIsCounted, Fails, Ends, encoder, video, sound, drive, outcome
<1>4. FrameFits'
  BY <1>0, Sizes, SourcesAreFew DEF RecoveryFails, IInv, VideoTyped, LoopTyped,
    FrameFits, Fails, Ends, encoder, video, sound, drive, outcome
<1>5. LostHasFailed'
  BY <1>0, Sizes, SourcesAreFew DEF RecoveryFails, IInv, LoopTyped, WriterTyped,
    OutcomeTyped, LostHasFailed, Fails, Ends, Lost, FailureIsTold, encoder, video,
    sound, drive, outcome
<1> QED BY <1>1, <1>2, <1>3, <1>4, <1>5 DEF IInv

(* The recording ends where it is.                                          *)
LEMMA RecoveryEndsKeeps ==
  ASSUME IInv, RecoveryEnds
  PROVE  IInv'
<1>0. LoopTyped /\ EncoderTyped /\ VideoTyped /\ SoundTyped /\ AudioTyped
      /\ WriterTyped /\ SpaceTyped /\ OutcomeTyped /\ FaultsTyped /\ FlagsTyped
  BY TypeParts DEF IInv
<1>1. PipelineTypeOK'
  <2>1. LoopTyped'
    <3>1. PICK reason \in {"targetResized"} \cup (IF stop THEN {"stopped"} ELSE {}) :
            loop' = Ends(reason)
      BY DEF RecoveryEnds
    <3>2. reason \in {"targetResized", "targetLost", "stopped"}
      BY <3>1
    <3> QED BY <1>0, <3>1, <3>2 DEF Ends, LoopTyped
  <2>2. EncoderTyped' /\ VideoTyped' /\ SoundTyped' /\ AudioTyped' /\ WriterTyped'
    /\ SpaceTyped' /\ OutcomeTyped' /\ FaultsTyped' /\ FlagsTyped'
    BY <1>0 DEF RecoveryEnds, EncoderTyped, VideoTyped, SoundTyped, AudioTyped,
      WriterTyped, SpaceTyped, OutcomeTyped, FaultsTyped, FlagsTyped, drive, video,
      sound, encoder, outcome
  <2> QED BY <2>1, <2>2 DEF LoopTyped, EncoderTyped, VideoTyped, SoundTyped,
    AudioTyped, WriterTyped, SpaceTyped, OutcomeTyped, FaultsTyped, FlagsTyped,
    PipelineTypeOK
<1>2. AudioIsCounted' /\ AudioKeepsShare'
  BY DEF RecoveryEnds, IInv, encoder, video, sound, drive, outcome, AudioIsCounted,
    Counting, AudioKeepsShare, Sending
<1>3. VideoIsCounted'
  BY <1>0, Sizes, SourcesAreFew DEF RecoveryEnds, IInv, VideoTyped, LoopTyped,
    VideoIsCounted, Ends, encoder, video, sound, drive, outcome
<1>4. FrameFits'
  BY <1>0, Sizes, SourcesAreFew DEF RecoveryEnds, IInv, VideoTyped, LoopTyped,
    FrameFits, Ends, encoder, video, sound, drive, outcome
<1>5. LostHasFailed'
  BY <1>0, Sizes, SourcesAreFew DEF RecoveryEnds, IInv, LoopTyped, WriterTyped,
    OutcomeTyped, LostHasFailed, Ends, Lost, FailureIsTold, encoder, video, sound,
    drive, outcome
<1> QED BY <1>1, <1>2, <1>3, <1>4, <1>5 DEF IInv

(* The old encoder is to be flushed.                                        *)
LEMMA RecoveredKeeps ==
  ASSUME IInv, Recovered
  PROVE  IInv'
<1>0. LoopTyped /\ EncoderTyped /\ VideoTyped /\ SoundTyped /\ AudioTyped
      /\ WriterTyped /\ SpaceTyped /\ OutcomeTyped /\ FaultsTyped /\ FlagsTyped
  BY TypeParts DEF IInv
<1>1. PipelineTypeOK'
  <2>1. LoopTyped'
    BY <1>0, Sizes DEF Recovered, LoopTyped, drive, video, sound, encoder, outcome
  <2>2. EncoderTyped' /\ VideoTyped' /\ SoundTyped' /\ AudioTyped' /\ WriterTyped'
    /\ SpaceTyped' /\ OutcomeTyped' /\ FaultsTyped' /\ FlagsTyped'
    BY <1>0 DEF Recovered, EncoderTyped, VideoTyped, SoundTyped, AudioTyped,
      WriterTyped, SpaceTyped, OutcomeTyped, FaultsTyped, FlagsTyped, drive, video,
      sound, encoder, outcome
  <2> QED BY <2>1, <2>2 DEF LoopTyped, EncoderTyped, VideoTyped, SoundTyped,
    AudioTyped, WriterTyped, SpaceTyped, OutcomeTyped, FaultsTyped, FlagsTyped,
    PipelineTypeOK
<1>2. AudioIsCounted' /\ AudioKeepsShare'
  BY DEF Recovered, IInv, encoder, video, sound, drive, outcome, AudioIsCounted,
    Counting, AudioKeepsShare, Sending
<1>3. VideoIsCounted'
  BY <1>0, Sizes, SourcesAreFew DEF Recovered, IInv, VideoTyped, LoopTyped,
    VideoIsCounted, encoder, video, sound, drive, outcome
<1>4. FrameFits'
  BY <1>0, Sizes, SourcesAreFew DEF Recovered, IInv, VideoTyped, LoopTyped,
    FrameFits, encoder, video, sound, drive, outcome
<1>5. LostHasFailed'
  BY <1>0, Sizes, SourcesAreFew DEF Recovered, IInv, LoopTyped, WriterTyped,
    OutcomeTyped, LostHasFailed, Lost, FailureIsTold, encoder, video, sound, drive,
    outcome
<1> QED BY <1>1, <1>2, <1>3, <1>4, <1>5 DEF IInv

(* The replacement takes over.                                              *)
LEMMA SeamDoneKeeps ==
  ASSUME IInv, SeamDone
  PROVE  IInv'
<1>0. LoopTyped /\ EncoderTyped /\ VideoTyped /\ SoundTyped /\ AudioTyped
      /\ WriterTyped /\ SpaceTyped /\ OutcomeTyped /\ FaultsTyped /\ FlagsTyped
  BY TypeParts DEF IInv
<1>1. PipelineTypeOK'
  <2>1. LoopTyped'
    BY <1>0, Sizes DEF SeamDone, LoopTyped, drive, video, sound, encoder, outcome
  <2>2. EncoderTyped' /\ VideoTyped' /\ SoundTyped' /\ AudioTyped' /\ WriterTyped'
    /\ SpaceTyped' /\ OutcomeTyped' /\ FaultsTyped' /\ FlagsTyped'
    BY <1>0 DEF SeamDone, EncoderTyped, VideoTyped, SoundTyped, AudioTyped,
      WriterTyped, SpaceTyped, OutcomeTyped, FaultsTyped, FlagsTyped, drive, video,
      sound, encoder, outcome
  <2> QED BY <2>1, <2>2 DEF LoopTyped, EncoderTyped, VideoTyped, SoundTyped,
    AudioTyped, WriterTyped, SpaceTyped, OutcomeTyped, FaultsTyped, FlagsTyped,
    PipelineTypeOK
<1>2. AudioIsCounted' /\ AudioKeepsShare'
  BY DEF SeamDone, IInv, encoder, video, sound, drive, outcome, AudioIsCounted,
    Counting, AudioKeepsShare, Sending
<1>3. VideoIsCounted'
  BY <1>0, Sizes, SourcesAreFew DEF SeamDone, IInv, VideoTyped, LoopTyped,
    VideoIsCounted, encoder, video, sound, drive, outcome
<1>4. FrameFits'
  BY <1>0, Sizes, SourcesAreFew DEF SeamDone, IInv, VideoTyped, LoopTyped,
    FrameFits, encoder, video, sound, drive, outcome
<1>5. LostHasFailed'
  BY <1>0, Sizes, SourcesAreFew DEF SeamDone, IInv, LoopTyped, WriterTyped,
    OutcomeTyped, LostHasFailed, Lost, FailureIsTold, encoder, video, sound, drive,
    outcome
<1> QED BY <1>1, <1>2, <1>3, <1>4, <1>5 DEF IInv

(* The encoder is empty.                                                    *)
LEMMA FlushDoneKeeps ==
  ASSUME IInv, FlushDone
  PROVE  IInv'
<1>0. LoopTyped /\ EncoderTyped /\ VideoTyped /\ SoundTyped /\ AudioTyped
      /\ WriterTyped /\ SpaceTyped /\ OutcomeTyped /\ FaultsTyped /\ FlagsTyped
  BY TypeParts DEF IInv
<1>1. PipelineTypeOK'
  <2>1. LoopTyped'
    BY <1>0, Sizes DEF FlushDone, LoopTyped, drive, video, sound, encoder, outcome
  <2>2. EncoderTyped' /\ VideoTyped' /\ SoundTyped' /\ AudioTyped' /\ WriterTyped'
    /\ SpaceTyped' /\ OutcomeTyped' /\ FaultsTyped' /\ FlagsTyped'
    BY <1>0 DEF FlushDone, EncoderTyped, VideoTyped, SoundTyped, AudioTyped,
      WriterTyped, SpaceTyped, OutcomeTyped, FaultsTyped, FlagsTyped, drive, video,
      sound, encoder, outcome
  <2> QED BY <2>1, <2>2 DEF LoopTyped, EncoderTyped, VideoTyped, SoundTyped,
    AudioTyped, WriterTyped, SpaceTyped, OutcomeTyped, FaultsTyped, FlagsTyped,
    PipelineTypeOK
<1>2. AudioIsCounted' /\ AudioKeepsShare'
  BY DEF FlushDone, IInv, encoder, video, sound, drive, outcome, AudioIsCounted,
    Counting, AudioKeepsShare, Sending
<1>3. VideoIsCounted'
  BY <1>0, Sizes, SourcesAreFew DEF FlushDone, IInv, VideoTyped, LoopTyped,
    VideoIsCounted, encoder, video, sound, drive, outcome
<1>4. FrameFits'
  BY <1>0, Sizes, SourcesAreFew DEF FlushDone, IInv, VideoTyped, LoopTyped,
    FrameFits, encoder, video, sound, drive, outcome
<1>5. LostHasFailed'
  BY <1>0, Sizes, SourcesAreFew DEF FlushDone, IInv, LoopTyped, WriterTyped,
    OutcomeTyped, LostHasFailed, Lost, FailureIsTold, encoder, video, sound, drive,
    outcome
<1> QED BY <1>1, <1>2, <1>3, <1>4, <1>5 DEF IInv

(* A panic may leave one packet counted that is nowhere.                    *)
LEMMA PanicsKeeps ==
  ASSUME IInv, Panics
  PROVE  IInv'
<1>0. LoopTyped /\ EncoderTyped /\ VideoTyped /\ SoundTyped /\ AudioTyped
      /\ WriterTyped /\ SpaceTyped /\ OutcomeTyped /\ FaultsTyped /\ FlagsTyped
  BY TypeParts DEF IInv
<1>1. PipelineTypeOK'
  <2>1. LoopTyped'
    BY <1>0, Sizes DEF Panics, Fault, LoopTyped, drive, video, sound, encoder,
      outcome
  <2>2. OutcomeTyped'
    BY <1>0, Sizes DEF Panics, Fault, OutcomeTyped, drive, video, sound, encoder,
      outcome
  <2>3. FaultsTyped'
    BY <1>0, Sizes DEF Panics, Fault, FaultsTyped, drive, video, sound, encoder,
      outcome
  <2>4. EncoderTyped' /\ VideoTyped' /\ SoundTyped' /\ AudioTyped' /\ WriterTyped'
    /\ SpaceTyped' /\ FlagsTyped'
    BY <1>0 DEF Panics, EncoderTyped, VideoTyped, SoundTyped, AudioTyped,
      WriterTyped, SpaceTyped, FlagsTyped, drive, video, sound, encoder, outcome
  <2> QED BY <2>1, <2>2, <2>3, <2>4 DEF LoopTyped, EncoderTyped, VideoTyped,
    SoundTyped, AudioTyped, WriterTyped, SpaceTyped, OutcomeTyped, FaultsTyped,
    FlagsTyped, PipelineTypeOK
<1>2. AudioIsCounted' /\ AudioKeepsShare'
  BY DEF Panics, IInv, encoder, video, sound, drive, outcome, AudioIsCounted,
    Counting, AudioKeepsShare, Sending
<1>3. VideoIsCounted'
  BY <1>0, Sizes, SourcesAreFew DEF Panics, IInv, VideoTyped, LoopTyped,
    VideoIsCounted, Fault, encoder, video, sound, drive, outcome
<1>4. FrameFits'
  BY <1>0, Sizes, SourcesAreFew DEF Panics, IInv, VideoTyped, LoopTyped, FrameFits,
    Fault, encoder, video, sound, drive, outcome
<1>5. LostHasFailed'
  BY <1>0, Sizes, SourcesAreFew DEF Panics, IInv, LoopTyped, WriterTyped,
    OutcomeTyped, LostHasFailed, Fault, Lost, FailureIsTold, encoder, video, sound,
    drive, outcome
<1> QED BY <1>1, <1>2, <1>3, <1>4, <1>5 DEF IInv

(* The audio threads are told to stop.                                      *)
LEMMA StopAudioKeeps ==
  ASSUME IInv, StopAudio
  PROVE  IInv'
<1>0. LoopTyped /\ EncoderTyped /\ VideoTyped /\ SoundTyped /\ AudioTyped
      /\ WriterTyped /\ SpaceTyped /\ OutcomeTyped /\ FaultsTyped /\ FlagsTyped
  BY TypeParts DEF IInv
<1>1. PipelineTypeOK'
  <2>1. LoopTyped'
    BY <1>0, Sizes DEF StopAudio, LoopTyped, drive, video, sound, encoder, outcome
  <2>2. FlagsTyped'
    BY <1>0, Sizes DEF StopAudio, FlagsTyped, drive, video, sound, encoder, outcome
  <2>3. EncoderTyped' /\ VideoTyped' /\ SoundTyped' /\ AudioTyped' /\ WriterTyped'
    /\ SpaceTyped' /\ OutcomeTyped' /\ FaultsTyped'
    BY <1>0 DEF StopAudio, EncoderTyped, VideoTyped, SoundTyped, AudioTyped,
      WriterTyped, SpaceTyped, OutcomeTyped, FaultsTyped, drive, video, sound,
      encoder, outcome
  <2> QED BY <2>1, <2>2, <2>3 DEF LoopTyped, EncoderTyped, VideoTyped, SoundTyped,
    AudioTyped, WriterTyped, SpaceTyped, OutcomeTyped, FaultsTyped, FlagsTyped,
    PipelineTypeOK
<1>2. AudioIsCounted' /\ AudioKeepsShare'
  BY DEF StopAudio, IInv, encoder, video, sound, drive, outcome, AudioIsCounted,
    Counting, AudioKeepsShare, Sending
<1>3. VideoIsCounted'
  BY <1>0, Sizes, SourcesAreFew DEF StopAudio, IInv, VideoTyped, LoopTyped,
    VideoIsCounted, encoder, video, sound, drive, outcome
<1>4. FrameFits'
  BY <1>0, Sizes, SourcesAreFew DEF StopAudio, IInv, VideoTyped, LoopTyped,
    FrameFits, encoder, video, sound, drive, outcome
<1>5. LostHasFailed'
  BY <1>0, Sizes, SourcesAreFew DEF StopAudio, IInv, LoopTyped, WriterTyped,
    OutcomeTyped, LostHasFailed, Lost, FailureIsTold, encoder, video, sound, drive,
    outcome
<1> QED BY <1>1, <1>2, <1>3, <1>4, <1>5 DEF IInv

(* The audio threads are over.                                              *)
LEMMA JoinAudioKeeps ==
  ASSUME IInv, JoinAudio
  PROVE  IInv'
<1>0. LoopTyped /\ EncoderTyped /\ VideoTyped /\ SoundTyped /\ AudioTyped
      /\ WriterTyped /\ SpaceTyped /\ OutcomeTyped /\ FaultsTyped /\ FlagsTyped
  BY TypeParts DEF IInv
<1>1. PipelineTypeOK'
  <2>1. LoopTyped'
    BY <1>0, Sizes DEF JoinAudio, LoopTyped, drive, video, sound, encoder, outcome
  <2>2. EncoderTyped' /\ VideoTyped' /\ SoundTyped' /\ AudioTyped' /\ WriterTyped'
    /\ SpaceTyped' /\ OutcomeTyped' /\ FaultsTyped' /\ FlagsTyped'
    BY <1>0 DEF JoinAudio, EncoderTyped, VideoTyped, SoundTyped, AudioTyped,
      WriterTyped, SpaceTyped, OutcomeTyped, FaultsTyped, FlagsTyped, drive, video,
      sound, encoder, outcome
  <2> QED BY <2>1, <2>2 DEF LoopTyped, EncoderTyped, VideoTyped, SoundTyped,
    AudioTyped, WriterTyped, SpaceTyped, OutcomeTyped, FaultsTyped, FlagsTyped,
    PipelineTypeOK
<1>2. AudioIsCounted' /\ AudioKeepsShare'
  BY DEF JoinAudio, IInv, encoder, video, sound, drive, outcome, AudioIsCounted,
    Counting, AudioKeepsShare, Sending
<1>3. VideoIsCounted'
  BY <1>0, Sizes, SourcesAreFew DEF JoinAudio, IInv, VideoTyped, LoopTyped,
    VideoIsCounted, encoder, video, sound, drive, outcome
<1>4. FrameFits'
  BY <1>0, Sizes, SourcesAreFew DEF JoinAudio, IInv, VideoTyped, LoopTyped,
    FrameFits, encoder, video, sound, drive, outcome
<1>5. LostHasFailed'
  BY <1>0, Sizes, SourcesAreFew DEF JoinAudio, IInv, LoopTyped, WriterTyped,
    OutcomeTyped, LostHasFailed, Lost, FailureIsTold, encoder, video, sound, drive,
    outcome
<1> QED BY <1>1, <1>2, <1>3, <1>4, <1>5 DEF IInv

(* The writer's word is taken with the loop's.                              *)
LEMMA FinishKeeps ==
  ASSUME IInv, Finish
  PROVE  IInv'
<1>0. LoopTyped /\ EncoderTyped /\ VideoTyped /\ SoundTyped /\ AudioTyped
      /\ WriterTyped /\ SpaceTyped /\ OutcomeTyped /\ FaultsTyped /\ FlagsTyped
  BY TypeParts DEF IInv
<1>1. PipelineTypeOK'
  <2>1. LoopTyped'
    BY <1>0, Sizes DEF Finish, Lost, Reported, LoopTyped, drive, video, sound,
      encoder, outcome
  <2>2. OutcomeTyped'
    BY <1>0, Sizes DEF Finish, Lost, Reported, OutcomeTyped, drive, video, sound,
      encoder, outcome
  <2>3. EncoderTyped' /\ VideoTyped' /\ SoundTyped' /\ AudioTyped' /\ WriterTyped'
    /\ SpaceTyped' /\ FaultsTyped' /\ FlagsTyped'
    BY <1>0 DEF Finish, EncoderTyped, VideoTyped, SoundTyped, AudioTyped,
      WriterTyped, SpaceTyped, FaultsTyped, FlagsTyped, drive, video, sound,
      encoder, outcome
  <2> QED BY <2>1, <2>2, <2>3 DEF LoopTyped, EncoderTyped, VideoTyped, SoundTyped,
    AudioTyped, WriterTyped, SpaceTyped, OutcomeTyped, FaultsTyped, FlagsTyped,
    PipelineTypeOK
<1>2. AudioIsCounted' /\ AudioKeepsShare'
  BY DEF Finish, IInv, encoder, video, sound, drive, outcome, AudioIsCounted,
    Counting, AudioKeepsShare, Sending
<1>3. VideoIsCounted'
  BY <1>0, Sizes, SourcesAreFew DEF Finish, IInv, VideoTyped, LoopTyped,
    VideoIsCounted, Lost, Reported, encoder, video, sound, drive, outcome
<1>4. FrameFits'
  BY <1>0, Sizes, SourcesAreFew DEF Finish, IInv, VideoTyped, LoopTyped, FrameFits,
    Lost, Reported, encoder, video, sound, drive, outcome
<1>5. LostHasFailed'
  BY <1>0, Sizes, SourcesAreFew DEF Finish, IInv, LoopTyped, WriterTyped,
    OutcomeTyped, LostHasFailed, Lost, Reported, FailureIsTold, encoder, video,
    sound, drive, outcome
<1> QED BY <1>1, <1>2, <1>3, <1>4, <1>5 DEF IInv

(* A buffer is counted, and within the share or refused.                    *)
LEMMA ReadsKeeps ==
  ASSUME IInv, NEW s \in Sources, Reads(s)
  PROVE  IInv'
<1>0. LoopTyped /\ EncoderTyped /\ VideoTyped /\ SoundTyped /\ AudioTyped
      /\ WriterTyped /\ SpaceTyped /\ OutcomeTyped /\ FaultsTyped /\ FlagsTyped
  BY TypeParts DEF IInv
<1>1. PipelineTypeOK'
  <2>1. AudioTyped'
    <3> DEFINE n == IF audio[s].left > 0 THEN audio[s].left - 1 ELSE audio[s].left
               to == IF audioDepth >= AudioShare THEN "refused" ELSE "sending"
    <3>1. n \in Nat /\ to \in {"refused", "sending"}
      BY <1>0 DEF AudioTyped
    <3>2. audio' = [audio EXCEPT ![s].step = to, ![s].left = n]
      BY DEF Reads
    <3> HIDE DEF n, to
    <3> QED BY <1>0, <3>1, <3>2 DEF AudioTyped
  <2>2. SoundTyped'
    BY <1>0, Sizes DEF Reads, SoundTyped, drive, video, sound, encoder, outcome
  <2>3. LoopTyped' /\ EncoderTyped' /\ VideoTyped' /\ WriterTyped' /\ SpaceTyped'
    /\ OutcomeTyped' /\ FaultsTyped' /\ FlagsTyped'
    BY <1>0 DEF Reads, LoopTyped, EncoderTyped, VideoTyped, WriterTyped,
      SpaceTyped, OutcomeTyped, FaultsTyped, FlagsTyped, drive, video, sound,
      encoder, outcome
  <2> QED BY <2>1, <2>2, <2>3 DEF LoopTyped, EncoderTyped, VideoTyped, SoundTyped,
    AudioTyped, WriterTyped, SpaceTyped, OutcomeTyped, FaultsTyped, FlagsTyped,
    PipelineTypeOK
<1>2. VideoIsCounted' /\ FrameFits' /\ LostHasFailed'
  BY DEF Reads, IInv, encoder, video, sound, drive, outcome, VideoIsCounted,
    FrameFits, LostHasFailed, Lost, FailureIsTold
<1>3. AudioIsCounted'
  <2>1. /\ Counting' = Counting \cup {s} /\ s \notin Counting
        /\ audioDepth' = audioDepth + 1 /\ audioQ' = audioQ
    BY <1>0 DEF Reads, Counting, AudioTyped
  <2>2. Cardinality(Counting') = Cardinality(Counting) + 1
    BY <2>1, SourcesAreFew, FS_AddElement
  <2> QED BY <1>0, <2>1, <2>2, SourcesAreFew DEF IInv, AudioIsCounted, SoundTyped
<1>4. AudioKeepsShare'
  <2>1. audioQ' = audioQ
    BY DEF Reads
  <2>2. CASE audioDepth >= AudioShare
    <3>1. Sending' = Sending
      BY <1>0, <2>2 DEF Reads, Sending, AudioTyped
    <3> QED BY <2>1, <3>1 DEF IInv, AudioKeepsShare
  <2>3. CASE ~(audioDepth >= AudioShare)
    <3>1. Sending' = Sending \cup {s} /\ s \notin Sending
      BY <1>0, <2>3 DEF Reads, Sending, AudioTyped
    <3>2. Cardinality(Sending') = Cardinality(Sending) + 1
      BY <3>1, SourcesAreFew, FS_AddElement
    <3>3. audioQ + Cardinality(Sending) < AudioShare
      BY <1>0, <2>3, SourcesAreFew, Sizes DEF IInv, AudioIsCounted, SoundTyped
    <3> QED BY <1>0, <2>1, <3>2, <3>3, SourcesAreFew, Sizes DEF AudioKeepsShare, SoundTyped
  <2> QED BY <2>2, <2>3
<1> QED BY <1>1, <1>2, <1>3, <1>4 DEF IInv

(* A refused buffer is counted no more.                                     *)
LEMMA GivesBackKeeps ==
  ASSUME IInv, NEW s \in Sources, GivesBack(s)
  PROVE  IInv'
<1>0. LoopTyped /\ EncoderTyped /\ VideoTyped /\ SoundTyped /\ AudioTyped
      /\ WriterTyped /\ SpaceTyped /\ OutcomeTyped /\ FaultsTyped /\ FlagsTyped
  BY TypeParts DEF IInv
<1>1. PipelineTypeOK'
  <2>1. AudioTyped'
    BY <1>0, Sizes DEF GivesBack, AudioTyped, drive, video, sound, encoder, outcome
  <2>2. SoundTyped'
    <3>1. s \in Counting
      BY DEF GivesBack, Counting
    <3>2. Cardinality(Counting) > 0
      BY <3>1, SourcesAreFew, FS_EmptySet
    <3> QED BY <1>0, <3>2, SourcesAreFew DEF GivesBack, SoundTyped, IInv, AudioIsCounted
  <2>3. LoopTyped' /\ EncoderTyped' /\ VideoTyped' /\ WriterTyped' /\ SpaceTyped'
    /\ OutcomeTyped' /\ FaultsTyped' /\ FlagsTyped'
    BY <1>0 DEF GivesBack, LoopTyped, EncoderTyped, VideoTyped, WriterTyped,
      SpaceTyped, OutcomeTyped, FaultsTyped, FlagsTyped, drive, video, sound,
      encoder, outcome
  <2> QED BY <2>1, <2>2, <2>3 DEF LoopTyped, EncoderTyped, VideoTyped, SoundTyped,
    AudioTyped, WriterTyped, SpaceTyped, OutcomeTyped, FaultsTyped, FlagsTyped,
    PipelineTypeOK
<1>2. VideoIsCounted' /\ FrameFits' /\ LostHasFailed'
  BY DEF GivesBack, IInv, encoder, video, sound, drive, outcome, VideoIsCounted,
    FrameFits, LostHasFailed, Lost, FailureIsTold
<1>3. AudioIsCounted'
  <2>1. /\ Counting' = Counting \ {s} /\ s \in Counting
        /\ audioDepth' = audioDepth - 1 /\ audioQ' = audioQ
    BY <1>0 DEF GivesBack, Counting, AudioTyped
  <2>2. Cardinality(Counting') = Cardinality(Counting) - 1
    BY <2>1, SourcesAreFew, FS_RemoveElement
  <2> QED BY <1>0, <2>1, <2>2, SourcesAreFew DEF IInv, AudioIsCounted, SoundTyped
<1>4. AudioKeepsShare'
  <2>1. Sending' = Sending /\ audioQ' = audioQ
    BY <1>0 DEF GivesBack, Sending, AudioTyped
  <2> QED BY <2>1 DEF IInv, AudioKeepsShare
<1> QED BY <1>1, <1>2, <1>3, <1>4 DEF IInv

(* A buffer is queued, or lost and counted no more.                         *)
LEMMA QueuesKeeps ==
  ASSUME IInv, NEW s \in Sources, Queues(s)
  PROVE  IInv'
<1>0. LoopTyped /\ EncoderTyped /\ VideoTyped /\ SoundTyped /\ AudioTyped
      /\ WriterTyped /\ SpaceTyped /\ OutcomeTyped /\ FaultsTyped /\ FlagsTyped
  BY TypeParts DEF IInv
<1>1. PipelineTypeOK'
  <2>1. AudioTyped'
    BY <1>0, Sizes DEF Queues, Lost, AudioTyped, drive, video, sound, encoder,
      outcome
  <2>2. SoundTyped'
    <3>1. s \in Counting
      BY DEF Queues, Counting
    <3>2. Cardinality(Counting) > 0
      BY <3>1, SourcesAreFew, FS_EmptySet
    <3> QED BY <1>0, <3>2, SourcesAreFew DEF Queues, SoundTyped, IInv, AudioIsCounted
  <2>3. LoopTyped' /\ EncoderTyped' /\ VideoTyped' /\ WriterTyped' /\ SpaceTyped'
    /\ OutcomeTyped' /\ FaultsTyped' /\ FlagsTyped'
    BY <1>0 DEF Queues, LoopTyped, EncoderTyped, VideoTyped, WriterTyped,
      SpaceTyped, OutcomeTyped, FaultsTyped, FlagsTyped, drive, video, sound,
      encoder, outcome
  <2> QED BY <2>1, <2>2, <2>3 DEF LoopTyped, EncoderTyped, VideoTyped, SoundTyped,
    AudioTyped, WriterTyped, SpaceTyped, OutcomeTyped, FaultsTyped, FlagsTyped,
    PipelineTypeOK
<1>2. VideoIsCounted' /\ FrameFits' /\ LostHasFailed'
  BY DEF Queues, IInv, encoder, video, sound, drive, outcome, VideoIsCounted,
    FrameFits, LostHasFailed, Lost, FailureIsTold
<1>3. AudioIsCounted'
  <2>1. Counting' = Counting \ {s} /\ s \in Counting
    BY <1>0 DEF Queues, Counting, AudioTyped
  <2>2. Cardinality(Counting') = Cardinality(Counting) - 1
    BY <2>1, SourcesAreFew, FS_RemoveElement
  <2>3. \/ audioDepth' = audioDepth - 1 /\ audioQ' = audioQ
        \/ audioDepth' = audioDepth /\ audioQ' = audioQ + 1
    BY DEF Queues
  <2> QED BY <1>0, <2>2, <2>3, SourcesAreFew DEF IInv, AudioIsCounted, SoundTyped
<1>4. AudioKeepsShare'
  <2>1. Sending' = Sending \ {s} /\ s \in Sending
    BY <1>0 DEF Queues, Sending, AudioTyped
  <2>2. Cardinality(Sending') = Cardinality(Sending) - 1
    BY <2>1, SourcesAreFew, FS_RemoveElement
  <2>3. audioQ' = audioQ \/ audioQ' = audioQ + 1
    BY DEF Queues
  <2> QED BY <1>0, <2>2, <2>3, SourcesAreFew, Sizes DEF IInv, AudioKeepsShare, SoundTyped
<1> QED BY <1>1, <1>2, <1>3, <1>4 DEF IInv

(* An audio thread takes what its endpoint holds.                           *)
LEMMA DrainsKeeps ==
  ASSUME IInv, NEW s \in Sources, Drains(s)
  PROVE  IInv'
<1>0. LoopTyped /\ EncoderTyped /\ VideoTyped /\ SoundTyped /\ AudioTyped
      /\ WriterTyped /\ SpaceTyped /\ OutcomeTyped /\ FaultsTyped /\ FlagsTyped
  BY TypeParts DEF IInv
<1>1. PipelineTypeOK'
  <2>1. AudioTyped'
    BY <1>0, Sizes DEF Drains, AudioTyped, drive, video, sound, encoder, outcome
  <2>2. LoopTyped' /\ EncoderTyped' /\ VideoTyped' /\ SoundTyped' /\ WriterTyped'
    /\ SpaceTyped' /\ OutcomeTyped' /\ FaultsTyped' /\ FlagsTyped'
    BY <1>0 DEF Drains, LoopTyped, EncoderTyped, VideoTyped, SoundTyped,
      WriterTyped, SpaceTyped, OutcomeTyped, FaultsTyped, FlagsTyped, drive, video,
      sound, encoder, outcome
  <2> QED BY <2>1, <2>2 DEF LoopTyped, EncoderTyped, VideoTyped, SoundTyped,
    AudioTyped, WriterTyped, SpaceTyped, OutcomeTyped, FaultsTyped, FlagsTyped,
    PipelineTypeOK
<1>2. VideoIsCounted' /\ FrameFits' /\ LostHasFailed'
  BY DEF Drains, IInv, encoder, video, sound, drive, outcome, VideoIsCounted,
    FrameFits, LostHasFailed, Lost, FailureIsTold
<1>3. AudioIsCounted'
  BY <1>0, Sizes, SourcesAreFew DEF Drains, IInv, SoundTyped, AudioTyped,
    AudioIsCounted, Counting, encoder, video, sound, drive, outcome
<1>4. AudioKeepsShare'
  BY <1>0, Sizes, SourcesAreFew DEF Drains, IInv, SoundTyped, AudioTyped,
    AudioKeepsShare, Sending, encoder, video, sound, drive, outcome
<1> QED BY <1>1, <1>2, <1>3, <1>4 DEF IInv

(* An audio thread is done.                                                 *)
LEMMA AudioEndsKeeps ==
  ASSUME IInv, NEW s \in Sources, AudioEnds(s)
  PROVE  IInv'
<1>0. LoopTyped /\ EncoderTyped /\ VideoTyped /\ SoundTyped /\ AudioTyped
      /\ WriterTyped /\ SpaceTyped /\ OutcomeTyped /\ FaultsTyped /\ FlagsTyped
  BY TypeParts DEF IInv
<1>1. PipelineTypeOK'
  <2>1. AudioTyped'
    BY <1>0, Sizes DEF AudioEnds, AudioTyped, drive, video, sound, encoder, outcome
  <2>2. LoopTyped' /\ EncoderTyped' /\ VideoTyped' /\ SoundTyped' /\ WriterTyped'
    /\ SpaceTyped' /\ OutcomeTyped' /\ FaultsTyped' /\ FlagsTyped'
    BY <1>0 DEF AudioEnds, LoopTyped, EncoderTyped, VideoTyped, SoundTyped,
      WriterTyped, SpaceTyped, OutcomeTyped, FaultsTyped, FlagsTyped, drive, video,
      sound, encoder, outcome
  <2> QED BY <2>1, <2>2 DEF LoopTyped, EncoderTyped, VideoTyped, SoundTyped,
    AudioTyped, WriterTyped, SpaceTyped, OutcomeTyped, FaultsTyped, FlagsTyped,
    PipelineTypeOK
<1>2. VideoIsCounted' /\ FrameFits' /\ LostHasFailed'
  BY DEF AudioEnds, IInv, encoder, video, sound, drive, outcome, VideoIsCounted,
    FrameFits, LostHasFailed, Lost, FailureIsTold
<1>3. AudioIsCounted'
  BY <1>0, Sizes, SourcesAreFew DEF AudioEnds, IInv, SoundTyped, AudioTyped,
    AudioIsCounted, Counting, encoder, video, sound, drive, outcome
<1>4. AudioKeepsShare'
  BY <1>0, Sizes, SourcesAreFew DEF AudioEnds, IInv, SoundTyped, AudioTyped,
    AudioKeepsShare, Sending, encoder, video, sound, drive, outcome
<1> QED BY <1>1, <1>2, <1>3, <1>4 DEF IInv

(* An audio thread fails.                                                   *)
LEMMA AudioFailsKeeps ==
  ASSUME IInv, NEW s \in Sources, AudioFails(s)
  PROVE  IInv'
<1>0. LoopTyped /\ EncoderTyped /\ VideoTyped /\ SoundTyped /\ AudioTyped
      /\ WriterTyped /\ SpaceTyped /\ OutcomeTyped /\ FaultsTyped /\ FlagsTyped
  BY TypeParts DEF IInv
<1>1. PipelineTypeOK'
  <2>1. AudioTyped'
    BY <1>0, Sizes DEF AudioFails, Fault, AudioTyped, drive, video, sound, encoder,
      outcome
  <2>2. FaultsTyped'
    BY <1>0, Sizes DEF AudioFails, Fault, FaultsTyped, drive, video, sound,
      encoder, outcome
  <2>3. LoopTyped' /\ EncoderTyped' /\ VideoTyped' /\ SoundTyped' /\ WriterTyped'
    /\ SpaceTyped' /\ OutcomeTyped' /\ FlagsTyped'
    BY <1>0 DEF AudioFails, LoopTyped, EncoderTyped, VideoTyped, SoundTyped,
      WriterTyped, SpaceTyped, OutcomeTyped, FlagsTyped, drive, video, sound,
      encoder, outcome
  <2> QED BY <2>1, <2>2, <2>3 DEF LoopTyped, EncoderTyped, VideoTyped, SoundTyped,
    AudioTyped, WriterTyped, SpaceTyped, OutcomeTyped, FaultsTyped, FlagsTyped,
    PipelineTypeOK
<1>2. VideoIsCounted' /\ FrameFits' /\ LostHasFailed'
  BY DEF AudioFails, IInv, encoder, video, sound, drive, outcome, VideoIsCounted,
    FrameFits, LostHasFailed, Lost, FailureIsTold
<1>3. AudioIsCounted'
  BY <1>0, Sizes, SourcesAreFew DEF AudioFails, IInv, SoundTyped, AudioTyped,
    AudioIsCounted, Fault, Counting, encoder, video, sound, drive, outcome
<1>4. AudioKeepsShare'
  BY <1>0, Sizes, SourcesAreFew DEF AudioFails, IInv, SoundTyped, AudioTyped,
    AudioKeepsShare, Fault, Sending, encoder, video, sound, drive, outcome
<1> QED BY <1>1, <1>2, <1>3, <1>4 DEF IInv

(* The writer takes a packet and counts it down.                            *)
LEMMA TakesVideoKeeps ==
  ASSUME IInv, TakesVideo
  PROVE  IInv'
<1>0. LoopTyped /\ EncoderTyped /\ VideoTyped /\ SoundTyped /\ AudioTyped
      /\ WriterTyped /\ SpaceTyped /\ OutcomeTyped /\ FaultsTyped /\ FlagsTyped
  BY TypeParts DEF IInv
<1>1. PipelineTypeOK'
  <2>1. VideoTyped'
    BY <1>0, Sizes DEF TakesVideo, Probes, Fault, VideoTyped, IInv, VideoIsCounted,
      LoopTyped, drive, video, sound, encoder, outcome
  <2>2. WriterTyped'
    <3>1. Head(videoQ) \in Nat
      BY <1>0 DEF TakesVideo, VideoTyped
    <3>2. /\ writer' = [writer EXCEPT !.step = "video", !.picture = Head(videoQ)]
          /\ UNCHANGED file
      BY DEF TakesVideo
    <3> QED BY <1>0, <3>1, <3>2 DEF WriterTyped
  <2>3. FaultsTyped'
    BY <1>0, Sizes DEF TakesVideo, Probes, Fault, FaultsTyped, drive, video, sound,
      encoder, outcome
  <2>4. SpaceTyped'
    BY <1>0, Sizes DEF TakesVideo, Probes, Fault, SpaceTyped, drive, video, sound,
      encoder, outcome
  <2>5. LoopTyped' /\ EncoderTyped' /\ SoundTyped' /\ AudioTyped' /\ OutcomeTyped'
    /\ FlagsTyped'
    BY <1>0 DEF TakesVideo, LoopTyped, EncoderTyped, SoundTyped, AudioTyped,
      OutcomeTyped, FlagsTyped, drive, video, sound, encoder, outcome, Probes
  <2> QED BY <2>1, <2>2, <2>3, <2>4, <2>5 DEF LoopTyped, EncoderTyped, VideoTyped,
    SoundTyped, AudioTyped, WriterTyped, SpaceTyped, OutcomeTyped, FaultsTyped,
    FlagsTyped, PipelineTypeOK
<1>2. AudioIsCounted' /\ AudioKeepsShare'
  BY DEF TakesVideo, IInv, encoder, video, sound, drive, outcome, AudioIsCounted,
    Counting, AudioKeepsShare, Sending
<1>t. /\ videoQ \in Seq(Nat) /\ videoQ # <<>> /\ videoQ' = Tail(videoQ)
      /\ depth \in Nat /\ depth' = depth - 1 /\ UNCHANGED loop
  BY <1>0 DEF TakesVideo, VideoTyped
<1>l. Len(videoQ') = Len(videoQ) - 1 /\ Len(videoQ) \in Nat
  BY <1>t
<1>3. VideoIsCounted'
  <2>1. VideoIsCounted
    BY DEF IInv
  <2> QED BY <1>t, <1>l, <2>1 DEF VideoIsCounted
<1>4. FrameFits'
  <2>1. FrameFits
    BY DEF IInv
  <2> QED BY <1>0, <1>t, <2>1, Sizes DEF FrameFits, LoopTyped, EncoderTyped,
        TakesVideo, encoder
<1>5. LostHasFailed'
  BY <1>0, Sizes, SourcesAreFew DEF TakesVideo, IInv, LoopTyped, WriterTyped,
    OutcomeTyped, LostHasFailed, Probes, Fault, Lost, FailureIsTold, encoder,
    video, sound, drive, outcome
<1> QED BY <1>1, <1>2, <1>3, <1>4, <1>5 DEF IInv

(* The writer takes a buffer and counts it down.                            *)
LEMMA TakesAudioKeeps ==
  ASSUME IInv, TakesAudio
  PROVE  IInv'
<1>0. LoopTyped /\ EncoderTyped /\ VideoTyped /\ SoundTyped /\ AudioTyped
      /\ WriterTyped /\ SpaceTyped /\ OutcomeTyped /\ FaultsTyped /\ FlagsTyped
  BY TypeParts DEF IInv
<1>1. PipelineTypeOK'
  <2>1. SoundTyped'
    BY <1>0, SourcesAreFew DEF TakesAudio, SoundTyped, IInv, AudioIsCounted
  <2>2. WriterTyped'
    BY <1>0, Sizes DEF TakesAudio, Probes, Fault, WriterTyped, drive, video, sound,
      encoder, outcome
  <2>3. FaultsTyped'
    BY <1>0, Sizes DEF TakesAudio, Probes, Fault, FaultsTyped, drive, video, sound,
      encoder, outcome
  <2>4. SpaceTyped'
    BY <1>0, Sizes DEF TakesAudio, Probes, Fault, SpaceTyped, drive, video, sound,
      encoder, outcome
  <2>5. LoopTyped' /\ EncoderTyped' /\ VideoTyped' /\ AudioTyped' /\ OutcomeTyped'
    /\ FlagsTyped'
    BY <1>0 DEF TakesAudio, LoopTyped, EncoderTyped, VideoTyped, AudioTyped,
      OutcomeTyped, FlagsTyped, drive, video, sound, encoder, outcome, Probes
  <2> QED BY <2>1, <2>2, <2>3, <2>4, <2>5 DEF LoopTyped, EncoderTyped, VideoTyped,
    SoundTyped, AudioTyped, WriterTyped, SpaceTyped, OutcomeTyped, FaultsTyped,
    FlagsTyped, PipelineTypeOK
<1>2. VideoIsCounted' /\ FrameFits'
  BY DEF TakesAudio, IInv, encoder, video, sound, drive, outcome, VideoIsCounted,
    FrameFits
<1>3. AudioIsCounted'
  BY <1>0, Sizes, SourcesAreFew DEF TakesAudio, IInv, SoundTyped, AudioTyped,
    AudioIsCounted, Probes, Fault, Counting, encoder, video, sound, drive, outcome
<1>4. AudioKeepsShare'
  BY <1>0, Sizes, SourcesAreFew DEF TakesAudio, IInv, SoundTyped, AudioTyped,
    AudioKeepsShare, Probes, Fault, Sending, encoder, video, sound, drive, outcome
<1>5. LostHasFailed'
  BY <1>0, Sizes, SourcesAreFew DEF TakesAudio, IInv, LoopTyped, WriterTyped,
    OutcomeTyped, LostHasFailed, Probes, Fault, Lost, FailureIsTold, encoder,
    video, sound, drive, outcome
<1> QED BY <1>1, <1>2, <1>3, <1>4, <1>5 DEF IInv

(* An item is in the file.                                                  *)
LEMMA WrittenKeeps ==
  ASSUME IInv, Written
  PROVE  IInv'
<1>0. LoopTyped /\ EncoderTyped /\ VideoTyped /\ SoundTyped /\ AudioTyped
      /\ WriterTyped /\ SpaceTyped /\ OutcomeTyped /\ FaultsTyped /\ FlagsTyped
  BY TypeParts DEF IInv
<1>1. PipelineTypeOK'
  <2>1. WriterTyped'
    <3>1. writer.picture \in Nat /\ file \in Seq(Nat)
      BY <1>0 DEF WriterTyped
    <3>2. file' \in Seq(Nat)
      BY <3>1 DEF Written
    <3>3. writer' = [writer EXCEPT !.step = "waiting", !.picture = 0]
      BY DEF Written
    <3> QED BY <1>0, <3>2, <3>3 DEF WriterTyped
  <2>2. LoopTyped' /\ EncoderTyped' /\ VideoTyped' /\ SoundTyped' /\ AudioTyped' /\
    SpaceTyped' /\ OutcomeTyped' /\ FaultsTyped' /\ FlagsTyped'
    BY <1>0 DEF Written, LoopTyped, EncoderTyped, VideoTyped, SoundTyped,
      AudioTyped, SpaceTyped, OutcomeTyped, FaultsTyped, FlagsTyped, drive, video,
      sound, encoder, outcome
  <2> QED BY <2>1, <2>2 DEF LoopTyped, EncoderTyped, VideoTyped, SoundTyped,
    AudioTyped, WriterTyped, SpaceTyped, OutcomeTyped, FaultsTyped, FlagsTyped,
    PipelineTypeOK
<1>2. VideoIsCounted' /\ AudioIsCounted' /\ AudioKeepsShare' /\ FrameFits'
  BY DEF Written, IInv, encoder, video, sound, drive, outcome, VideoIsCounted,
    AudioIsCounted, Counting, AudioKeepsShare, Sending, FrameFits
<1>3. LostHasFailed'
  BY <1>0, Sizes, SourcesAreFew DEF Written, IInv, LoopTyped, WriterTyped,
    OutcomeTyped, LostHasFailed, Lost, FailureIsTold, encoder, video, sound, drive,
    outcome
<1> QED BY <1>1, <1>2, <1>3 DEF IInv

(* A write fails.                                                           *)
LEMMA WriteFailsKeeps ==
  ASSUME IInv, WriteFails
  PROVE  IInv'
<1>0. LoopTyped /\ EncoderTyped /\ VideoTyped /\ SoundTyped /\ AudioTyped
      /\ WriterTyped /\ SpaceTyped /\ OutcomeTyped /\ FaultsTyped /\ FlagsTyped
  BY TypeParts DEF IInv
<1>1. PipelineTypeOK'
  <2>1. WriterTyped'
    BY <1>0, Sizes DEF WriteFails, Fault, WriterTyped, drive, video, sound,
      encoder, outcome
  <2>2. FaultsTyped'
    BY <1>0, Sizes DEF WriteFails, Fault, FaultsTyped, drive, video, sound,
      encoder, outcome
  <2>3. LoopTyped' /\ EncoderTyped' /\ VideoTyped' /\ SoundTyped' /\ AudioTyped' /\
    SpaceTyped' /\ OutcomeTyped' /\ FlagsTyped'
    BY <1>0 DEF WriteFails, LoopTyped, EncoderTyped, VideoTyped, SoundTyped,
      AudioTyped, SpaceTyped, OutcomeTyped, FlagsTyped, drive, video, sound,
      encoder, outcome
  <2> QED BY <2>1, <2>2, <2>3 DEF LoopTyped, EncoderTyped, VideoTyped, SoundTyped,
    AudioTyped, WriterTyped, SpaceTyped, OutcomeTyped, FaultsTyped, FlagsTyped,
    PipelineTypeOK
<1>2. VideoIsCounted' /\ AudioIsCounted' /\ AudioKeepsShare' /\ FrameFits'
  BY DEF WriteFails, IInv, encoder, video, sound, drive, outcome, VideoIsCounted,
    AudioIsCounted, Counting, AudioKeepsShare, Sending, FrameFits
<1>3. LostHasFailed'
  BY <1>0, Sizes, SourcesAreFew DEF WriteFails, IInv, LoopTyped, WriterTyped,
    OutcomeTyped, LostHasFailed, Fault, Lost, FailureIsTold, encoder, video, sound,
    drive, outcome
<1> QED BY <1>1, <1>2, <1>3 DEF IInv

(* The senders have gone and the queue is empty.                            *)
LEMMA QueueClosesKeeps ==
  ASSUME IInv, QueueCloses
  PROVE  IInv'
<1>0. LoopTyped /\ EncoderTyped /\ VideoTyped /\ SoundTyped /\ AudioTyped
      /\ WriterTyped /\ SpaceTyped /\ OutcomeTyped /\ FaultsTyped /\ FlagsTyped
  BY TypeParts DEF IInv
<1>1. PipelineTypeOK'
  <2>1. WriterTyped'
    BY <1>0, Sizes DEF QueueCloses, NoSenders, WriterTyped, drive, video, sound,
      encoder, outcome
  <2>2. LoopTyped' /\ EncoderTyped' /\ VideoTyped' /\ SoundTyped' /\ AudioTyped' /\
    SpaceTyped' /\ OutcomeTyped' /\ FaultsTyped' /\ FlagsTyped'
    BY <1>0 DEF QueueCloses, LoopTyped, EncoderTyped, VideoTyped, SoundTyped,
      AudioTyped, SpaceTyped, OutcomeTyped, FaultsTyped, FlagsTyped, drive, video,
      sound, encoder, outcome
  <2> QED BY <2>1, <2>2 DEF LoopTyped, EncoderTyped, VideoTyped, SoundTyped,
    AudioTyped, WriterTyped, SpaceTyped, OutcomeTyped, FaultsTyped, FlagsTyped,
    PipelineTypeOK
<1>2. VideoIsCounted' /\ AudioIsCounted' /\ AudioKeepsShare' /\ FrameFits'
  BY DEF QueueCloses, IInv, encoder, video, sound, drive, outcome, VideoIsCounted,
    AudioIsCounted, Counting, AudioKeepsShare, Sending, FrameFits
<1>3. LostHasFailed'
  BY <1>0, Sizes, SourcesAreFew DEF QueueCloses, IInv, LoopTyped, WriterTyped,
    OutcomeTyped, LostHasFailed, NoSenders, Lost, FailureIsTold, encoder, video,
    sound, drive, outcome
<1> QED BY <1>1, <1>2, <1>3 DEF IInv

(* The queue goes with the writer, and the counters stay as they are.       *)
LEMMA WriterEndsKeeps ==
  ASSUME IInv, WriterEnds
  PROVE  IInv'
<1>0. LoopTyped /\ EncoderTyped /\ VideoTyped /\ SoundTyped /\ AudioTyped
      /\ WriterTyped /\ SpaceTyped /\ OutcomeTyped /\ FaultsTyped /\ FlagsTyped
  BY TypeParts DEF IInv
<1>1. PipelineTypeOK'
  <2>1. VideoTyped'
    BY <1>0, Sizes DEF WriterEnds, Fault, VideoTyped, drive, video, sound, encoder,
      outcome
  <2>2. SoundTyped'
    BY <1>0, Sizes DEF WriterEnds, Fault, SoundTyped, drive, video, sound, encoder,
      outcome
  <2>3. WriterTyped'
    BY <1>0, Sizes DEF WriterEnds, Fault, WriterTyped, drive, video, sound,
      encoder, outcome
  <2>4. FaultsTyped'
    BY <1>0, Sizes DEF WriterEnds, Fault, FaultsTyped, drive, video, sound,
      encoder, outcome
  <2>5. LoopTyped' /\ EncoderTyped' /\ AudioTyped' /\ SpaceTyped' /\ OutcomeTyped'
    /\ FlagsTyped'
    BY <1>0 DEF WriterEnds, LoopTyped, EncoderTyped, AudioTyped, SpaceTyped,
      OutcomeTyped, FlagsTyped, drive, video, sound, encoder, outcome
  <2> QED BY <2>1, <2>2, <2>3, <2>4, <2>5 DEF LoopTyped, EncoderTyped, VideoTyped,
    SoundTyped, AudioTyped, WriterTyped, SpaceTyped, OutcomeTyped, FaultsTyped,
    FlagsTyped, PipelineTypeOK
<1>2. VideoIsCounted'
  BY <1>0, Sizes, SourcesAreFew DEF WriterEnds, IInv, VideoTyped, LoopTyped,
    VideoIsCounted, Fault, encoder, video, sound, drive, outcome
<1>3. AudioIsCounted'
  BY <1>0, Sizes, SourcesAreFew DEF WriterEnds, IInv, SoundTyped, AudioTyped,
    AudioIsCounted, Fault, Counting, encoder, video, sound, drive, outcome
<1>4. AudioKeepsShare'
  BY <1>0, Sizes, SourcesAreFew DEF WriterEnds, IInv, SoundTyped, AudioTyped,
    AudioKeepsShare, Fault, Sending, encoder, video, sound, drive, outcome
<1>5. FrameFits'
  BY <1>0, Sizes, SourcesAreFew DEF WriterEnds, IInv, VideoTyped, LoopTyped,
    FrameFits, Fault, encoder, video, sound, drive, outcome
<1>6. LostHasFailed'
  BY <1>0, Sizes, SourcesAreFew DEF WriterEnds, IInv, LoopTyped, WriterTyped,
    OutcomeTyped, LostHasFailed, Fault, Lost, FailureIsTold, encoder, video, sound,
    drive, outcome
<1> QED BY <1>1, <1>2, <1>3, <1>4, <1>5, <1>6 DEF IInv

(* The same when the thread unwinds.                                        *)
LEMMA WriterPanicsKeeps ==
  ASSUME IInv, WriterPanics
  PROVE  IInv'
<1>0. LoopTyped /\ EncoderTyped /\ VideoTyped /\ SoundTyped /\ AudioTyped
      /\ WriterTyped /\ SpaceTyped /\ OutcomeTyped /\ FaultsTyped /\ FlagsTyped
  BY TypeParts DEF IInv
<1>1. PipelineTypeOK'
  <2>1. VideoTyped'
    BY <1>0, Sizes DEF WriterPanics, Fault, VideoTyped, drive, video, sound, encoder,
      outcome
  <2>2. SoundTyped'
    BY <1>0, Sizes DEF WriterPanics, Fault, SoundTyped, drive, video, sound, encoder,
      outcome
  <2>3. WriterTyped'
    BY <1>0, Sizes DEF WriterPanics, Fault, WriterTyped, drive, video, sound,
      encoder, outcome
  <2>4. FaultsTyped'
    BY <1>0, Sizes DEF WriterPanics, Fault, FaultsTyped, drive, video, sound,
      encoder, outcome
  <2>5. LoopTyped' /\ EncoderTyped' /\ AudioTyped' /\ SpaceTyped' /\ OutcomeTyped'
    /\ FlagsTyped'
    BY <1>0 DEF WriterPanics, LoopTyped, EncoderTyped, AudioTyped, SpaceTyped,
      OutcomeTyped, FlagsTyped, drive, video, sound, encoder, outcome
  <2> QED BY <2>1, <2>2, <2>3, <2>4, <2>5 DEF LoopTyped, EncoderTyped, VideoTyped,
    SoundTyped, AudioTyped, WriterTyped, SpaceTyped, OutcomeTyped, FaultsTyped,
    FlagsTyped, PipelineTypeOK
<1>2. VideoIsCounted'
  BY <1>0, Sizes, SourcesAreFew DEF WriterPanics, IInv, VideoTyped, LoopTyped,
    VideoIsCounted, Fault, encoder, video, sound, drive, outcome
<1>3. AudioIsCounted'
  BY <1>0, Sizes, SourcesAreFew DEF WriterPanics, IInv, SoundTyped, AudioTyped,
    AudioIsCounted, Fault, Counting, encoder, video, sound, drive, outcome
<1>4. AudioKeepsShare'
  BY <1>0, Sizes, SourcesAreFew DEF WriterPanics, IInv, SoundTyped, AudioTyped,
    AudioKeepsShare, Fault, Sending, encoder, video, sound, drive, outcome
<1>5. FrameFits'
  BY <1>0, Sizes, SourcesAreFew DEF WriterPanics, IInv, VideoTyped, LoopTyped,
    FrameFits, Fault, encoder, video, sound, drive, outcome
<1>6. LostHasFailed'
  BY <1>0, Sizes, SourcesAreFew DEF WriterPanics, IInv, LoopTyped, WriterTyped,
    OutcomeTyped, LostHasFailed, Fault, Lost, FailureIsTold, encoder, video, sound,
    drive, outcome
<1> QED BY <1>1, <1>2, <1>3, <1>4, <1>5, <1>6 DEF IInv

-----------------------------------------------------------------------------
(* Nothing is queued, counted or told before the recording begins.          *)
LEMMA InitIsSound == Init => IInv
<1> SUFFICES ASSUME Init
             PROVE  IInv
  OBVIOUS
<1>1. LoopTyped /\ AudioTyped /\ WriterTyped
  BY DEF Init, LoopTyped, AudioTyped, WriterTyped
<1>2. PipelineTypeOK
  BY <1>1 DEF Init, LoopTyped, AudioTyped, WriterTyped, PipelineTypeOK
<1>3. Counting = {} /\ Sending = {}
  BY DEF Init, Counting, Sending
<1>4. AudioIsCounted /\ AudioKeepsShare
  BY <1>3, FS_EmptySet, Sizes DEF Init, AudioIsCounted, AudioKeepsShare
<1> QED BY <1>2, <1>4 DEF Init, IInv, VideoIsCounted, FrameFits, LostHasFailed, Lost,
      FailureIsTold

(* Every step of every thread keeps the invariant.                          *)
LEMMA StepIsSound == IInv /\ [Next]_vars => IInv'
<1> SUFFICES ASSUME IInv, [Next]_vars
             PROVE  IInv'
  OBVIOUS
<1>1. CASE RequestStop
  BY <1>1, RequestStopKeeps
<1>2. CASE LoopStep
  BY <1>2, LoopTopKeeps, FrameSubmittedKeeps, FrameDroppedKeeps, FrameRefusedKeeps,
     NoFrameKeeps, SourceEndsKeeps, CaptureFailsKeeps, YieldsKeeps, SentKeeps, SendFailsKeeps,
     EncoderFailsKeeps, FrameDoneKeeps, RecoveryFailsKeeps, RecoveryEndsKeeps, RecoveredKeeps,
     SeamDoneKeeps, FlushDoneKeeps, PanicsKeeps, StopAudioKeeps, JoinAudioKeeps, FinishKeeps
     DEF LoopStep
<1>3. CASE WriterStep
  BY <1>3, TakesVideoKeeps, TakesAudioKeeps, WrittenKeeps, WriteFailsKeeps, QueueClosesKeeps,
     WriterEndsKeeps, WriterPanicsKeeps DEF WriterStep
<1>4. CASE \E s \in Sources : AudioStep(s)
  BY <1>4, ReadsKeeps, GivesBackKeeps, QueuesKeeps, DrainsKeeps, AudioEndsKeeps,
     AudioFailsKeeps DEF AudioStep
<1>5. CASE UNCHANGED vars
  BY <1>5 DEF vars, IInv, PipelineTypeOK, VideoIsCounted, AudioIsCounted, AudioKeepsShare,
     FrameFits, LostHasFailed, Counting, Sending, Lost, FailureIsTold
<1> QED BY <1>1, <1>2, <1>3, <1>4, <1>5 DEF Next

(* The two counters never know of less than there is.                       *)
THEOREM Invariance == Spec => []IInv
<1> QED BY InitIsSound, StepIsSound, PTL DEF Spec

(* MuxingThread::write sends into a bounded channel from the capture        *)
(* thread, and AudioQueue::write into the same one without waiting: with    *)
(* the headroom kept, what a frame produces always finds room, and so does  *)
(* audio within its share, but while a flush has put more than the video's  *)
(* capacity there; for every capacity, every number of sources and every    *)
(* encoder that stays within the headroom.                                  *)
THEOREM SubmissionFindsRoom == Spec => []QueueHasRoom
<1>1. ASSUME IInv PROVE CaptureNeverWaits
  <2> SUFFICES ASSUME loop.step = "sending", loop.why = "frame"
               PROVE  Len(videoQ) + audioQ < VideoCapacity + AudioShare
    BY DEF CaptureNeverWaits, Room
  <2>1. /\ Len(videoQ) \in Nat /\ depth \in Nat /\ audioQ \in Nat /\ loop.moved \in Nat
    BY <1>1 DEF IInv, PipelineTypeOK
  <2>2. Len(videoQ) + 1 <= depth /\ depth < HighWater + loop.moved /\ loop.moved <= Burst
    BY <1>1 DEF IInv, VideoIsCounted, FrameFits
  <2>3. audioQ <= AudioShare
    BY <1>1, <2>1, SourcesAreFew, Sizes DEF IInv, AudioKeepsShare
  <2> QED BY <2>1, <2>2, <2>3, Sizes
<1>2. ASSUME IInv PROVE AudioFindsRoom
  <2> SUFFICES ASSUME NEW s \in Sources, audio[s].step = "sending", ~Room
               PROVE  Len(videoQ) > VideoCapacity
    BY DEF AudioFindsRoom
  <2>1. Len(videoQ) \in Nat /\ audioQ \in Nat
    BY <1>2 DEF IInv, PipelineTypeOK
  <2>2. Cardinality(Sending) > 0
    <3>1. s \in Sending
      BY DEF Sending
    <3> QED BY <3>1, SourcesAreFew, FS_EmptySet
  <2> QED BY <1>2, <2>1, <2>2, SourcesAreFew, Sizes DEF IInv, AudioKeepsShare, Room
<1>3. IInv => QueueHasRoom
  BY <1>1, <1>2 DEF IInv, QueueHasRoom
<1> QED BY <1>3, Invariance, PTL

(* Reported, in record's tail: whatever fails and in whatever order the     *)
(* threads end, the placeholder is replaced and no failure is lost.         *)
THEOREM FailuresAreTold == Spec => []FailureIsTold
<1>1. IInv => FailureIsTold
  BY DEF IInv, LostHasFailed
<1> QED BY <1>1, Invariance, PTL

-----------------------------------------------------------------------------
(* The pictures.  A picture is in the file, in the writer's hand, in the    *)
(* queue, in the loop's hand or with the encoder, and these follow one      *)
(* another without a gap while the writer lives and the loop captures.      *)

Writing == writer.step \in {"waiting", "video", "audio"}
Capturing == loop.step \in {"head", "acquire", "draining", "sending", "recovering"}

Taken == Len(file) + (IF writer.step = "video" THEN 1 ELSE 0)
Queued == Taken + Len(videoQ)
Handed == Queued + (IF loop.step = "sending" THEN 1 ELSE 0)

WrittenInOrder == /\ \A n \in 1..Len(file) : file[n] = n
                  /\ writer.step = "video" => writer.picture = Len(file) + 1
QueuedInOrder == Writing => \A i \in 1..Len(videoQ) : videoQ[i] = Taken + i
HeldInOrder ==
  Writing /\ Capturing => /\ loop.step = "sending" => loop.packet = Queued + 1
                          /\ \A i \in 1..Len(held) : held[i] = Handed + i
                          /\ Handed + Len(held) = submitted

(* What ends without a failure has nothing left behind it.                  *)
NothingIsLeft ==
  /\ failure = "none" /\ ~Capturing /\ Writing => Queued = submitted
  /\ failure = "none" /\ ~Writing /\ ~writer.failed => Len(file) = submitted
  /\ result = "recorded" => Len(file) = submitted

InOrder == WrittenInOrder /\ QueuedInOrder /\ HeldInOrder /\ NothingIsLeft

LEMMA Appending ==
  ASSUME NEW q \in Seq(Nat), NEW x \in Nat
  PROVE  /\ Append(q, x) \in Seq(Nat) /\ Len(Append(q, x)) = Len(q) + 1
         /\ \A i \in 1..Len(q) : Append(q, x)[i] = q[i]
         /\ Append(q, x)[Len(q) + 1] = x
OBVIOUS

LEMMA Tailing ==
  ASSUME NEW q \in Seq(Nat), q # <<>>
  PROVE  /\ Tail(q) \in Seq(Nat) /\ Len(Tail(q)) = Len(q) - 1 /\ Len(q) \in Nat \ {0}
         /\ \A i \in 1..Len(q) - 1 : Tail(q)[i] = q[i + 1]
         /\ Head(q) = q[1]
OBVIOUS

(* What neither the writer nor the loop moves stays where it is.            *)
LEMMA OrderStays ==
  ASSUME IInv, InOrder, UNCHANGED <<file, writer, videoQ, held, submitted, result>>,
         loop'.step = "sending" <=> loop.step = "sending",
         loop.step = "sending" => loop'.packet = loop.packet,
         Capturing' => Capturing,
         failure' = "none" => /\ failure = "none"
                              /\ Capturing /\ ~Capturing' => held = <<>>
  PROVE  InOrder'
<1>1. /\ Len(videoQ) \in Nat /\ Len(file) \in Nat /\ Len(held) \in Nat
      /\ submitted \in Nat
  BY DEF IInv, PipelineTypeOK
<1>2. /\ Taken' = Taken /\ Queued' = Queued /\ Handed' = Handed
      /\ Taken \in Nat /\ Queued \in Nat /\ Writing' = Writing
  <2>1. Taken' = Taken /\ Taken \in Nat /\ Writing' = Writing
    BY <1>1 DEF Taken, Writing
  <2>2. Queued' = Queued /\ Queued \in Nat
    BY <1>1, <2>1 DEF Queued
  <2>3. Handed' = Handed
    BY <2>2 DEF Handed
  <2> QED BY <2>1, <2>2, <2>3
<1>3. WrittenInOrder' /\ QueuedInOrder' /\ HeldInOrder'
  BY <1>2 DEF InOrder, WrittenInOrder, QueuedInOrder, HeldInOrder
<1>4. NothingIsLeft'
  <2>1. ASSUME failure' = "none", Capturing, ~Capturing', Writing PROVE Queued = submitted
    <3>1. loop.step # "sending" /\ Len(held) = 0
      BY <2>1 DEF Capturing
    <3> QED BY <1>1, <1>2, <2>1, <3>1 DEF InOrder, HeldInOrder, Handed
  <2> QED BY <1>2, <2>1 DEF InOrder, NothingIsLeft
<1> QED BY <1>3, <1>4 DEF InOrder

(* The actions that move no picture: the loop's turns, every failure of     *)
(* its, and the audio threads.                                              *)
LEMMA RestKeepsOrder ==
  ASSUME IInv, InOrder,
         \/ RequestStop \/ LoopTop \/ FrameDropped \/ FrameRefused \/ NoFrame \/ SourceEnds
         \/ CaptureFails \/ SendFails \/ EncoderFails \/ FrameDone \/ RecoveryFails
         \/ RecoveryEnds \/ Recovered \/ SeamDone \/ FlushDone \/ Panics \/ StopAudio
         \/ JoinAudio \/ (\E s \in Sources : AudioStep(s)) \/ UNCHANGED vars
  PROVE  InOrder'
<1>. USE DEF encoder, video, sound, drive, outcome
<1>0. loop \in [step : {"head", "acquire", "draining", "sending", "recovering", "stopping",
                        "joining", "finishing", "ended"},
                why : {"frame", "seam", "end"},
                reason : {"stopped", "diskSpaceLow", "outputUnavailable", "targetResized",
                          "targetLost"},
                packet : Nat, moved : Nat]
  BY DEF IInv, PipelineTypeOK
<1>1. CASE RequestStop \/ NoFrame \/ FrameDropped \/ StopAudio \/ JoinAudio
  BY <1>1, <1>0, OrderStays DEF RequestStop, NoFrame, FrameDropped, StopAudio, JoinAudio, Capturing
<1>2. CASE LoopTop \/ SourceEnds \/ CaptureFails
  BY <1>2, <1>0, OrderStays DEF LoopTop, SourceEnds, CaptureFails, Ends, Capturing
<1>3. CASE FrameRefused \/ RecoveryFails \/ RecoveryEnds \/ Recovered
  BY <1>3, <1>0, OrderStays DEF FrameRefused, RecoveryFails, RecoveryEnds, Recovered, Ends, Fails,
     Capturing
<1>4. CASE FrameDone \/ SeamDone \/ FlushDone
  BY <1>4, <1>0, OrderStays DEF FrameDone, SeamDone, FlushDone, Capturing
<1>5. CASE EncoderFails
  BY <1>5, <1>0, OrderStays DEF EncoderFails, AfterFailure, Ends, Fails, Capturing
<1>6. CASE \E s \in Sources : AudioStep(s)
  BY <1>6, OrderStays DEF AudioStep, Reads, GivesBack, Queues, Drains, AudioEnds, AudioFails,
     Capturing
<1>7. CASE UNCHANGED vars
  BY <1>7, OrderStays DEF vars, Capturing
<1>8. CASE SendFails \/ Panics
  <2>1. /\ UNCHANGED <<file, writer, videoQ, held, submitted, result>>
        /\ failure' # "none" /\ loop'.step # "sending"
        /\ Capturing' => Capturing
        /\ SendFails => ~Writing
        /\ Panics => ~Capturing'
    BY <1>8, <1>0 DEF SendFails, Panics, Lost, Writing, AfterFailure, Ends, Fails, Capturing
  <2>2. WrittenInOrder' /\ QueuedInOrder' /\ HeldInOrder' /\ NothingIsLeft'
    BY <1>8, <2>1 DEF InOrder, WrittenInOrder, QueuedInOrder, HeldInOrder, NothingIsLeft, Taken,
       Writing
  <2> QED BY <2>2 DEF InOrder
<1> QED BY <1>1, <1>2, <1>3, <1>4, <1>5, <1>6, <1>7, <1>8

(* A frame goes to the encoder, behind those it holds.                      *)
LEMMA FrameSubmittedKeepsOrder ==
  ASSUME IInv, InOrder, FrameSubmitted
  PROVE  InOrder'
<1>1. /\ Len(videoQ) \in Nat /\ Len(file) \in Nat /\ held \in Seq(Nat) /\ submitted \in Nat
      /\ Taken \in Nat /\ Queued \in Nat
  BY DEF IInv, PipelineTypeOK, Taken, Queued
<1>2. /\ Taken' = Taken /\ Queued' = Queued /\ Handed' = Queued /\ Handed = Queued
      /\ held' = Append(held, submitted + 1) /\ submitted' = submitted + 1
      /\ Writing' = Writing /\ loop'.step = "draining" /\ Capturing /\ Capturing'
      /\ UNCHANGED <<file, writer, videoQ, failure, result>>
  BY DEF FrameSubmitted, Taken, Queued, Handed, Writing, Capturing, video, drive, outcome, IInv,
     PipelineTypeOK
<1>3. HeldInOrder'
  <2>1. SUFFICES ASSUME Writing PROVE /\ \A i \in 1..Len(held') : held'[i] = Queued + i
                                      /\ Queued + Len(held') = submitted + 1
    BY <1>2 DEF HeldInOrder
  <2>2. /\ \A i \in 1..Len(held) : held[i] = Queued + i
        /\ Queued + Len(held) = submitted
    BY <1>2, <2>1 DEF InOrder, HeldInOrder
  <2>3. ASSUME NEW i \in 1..Len(held') PROVE held'[i] = Queued + i
    <3>1. i \in 1..Len(held) \/ i = Len(held) + 1
      BY <1>1, <1>2, Appending
    <3>2. /\ held'[Len(held) + 1] = submitted + 1
          /\ \A j \in 1..Len(held) : held'[j] = held[j]
      BY <1>1, <1>2, Appending
    <3>3. Len(held) \in Nat
      BY <1>1
    <3> QED BY <1>1, <2>2, <3>1, <3>2, <3>3
  <2> QED BY <1>1, <1>2, <2>2, <2>3, Appending
<1>4. NothingIsLeft'
  BY <1>1, <1>2 DEF InOrder, NothingIsLeft, IInv, LostHasFailed, Writing, PipelineTypeOK, FrameSubmitted
<1>5. WrittenInOrder' /\ QueuedInOrder'
  BY <1>2 DEF InOrder, WrittenInOrder, QueuedInOrder
<1> QED BY <1>3, <1>4, <1>5 DEF InOrder

(* The encoder gives the oldest picture it holds.                           *)
LEMMA YieldsKeepsOrder ==
  ASSUME IInv, InOrder, Yields
  PROVE  InOrder'
<1>1. /\ Len(videoQ) \in Nat /\ Len(file) \in Nat /\ held \in Seq(Nat) /\ submitted \in Nat
      /\ Taken \in Nat /\ Queued \in Nat
  BY DEF IInv, PipelineTypeOK, Taken, Queued
<1>2. /\ Taken' = Taken /\ Queued' = Queued /\ Handed' = Queued + 1 /\ Handed = Queued
      /\ held # <<>> /\ held' = Tail(held) /\ loop'.packet = Head(held)
      /\ Writing' = Writing /\ loop'.step = "sending" /\ Capturing /\ Capturing'
      /\ UNCHANGED <<file, writer, videoQ, failure, result, submitted>>
  BY DEF Yields, Taken, Queued, Handed, Writing, Capturing, video, drive, outcome, IInv,
     PipelineTypeOK
<1>3. HeldInOrder'
  <2>1. SUFFICES ASSUME Writing PROVE /\ Head(held) = Queued + 1
                                      /\ \A i \in 1..Len(held') : held'[i] = Queued + 1 + i
                                      /\ Queued + 1 + Len(held') = submitted
    BY <1>2 DEF HeldInOrder
  <2>2. /\ \A i \in 1..Len(held) : held[i] = Queued + i
        /\ Queued + Len(held) = submitted
    BY <1>2, <2>1 DEF InOrder, HeldInOrder
  <2>3. ASSUME NEW i \in 1..Len(held') PROVE held'[i] = Queued + 1 + i
    <3>1. i \in 1..Len(held) - 1 /\ i + 1 \in 1..Len(held)
      BY <1>1, <1>2, Tailing
    <3>2. held'[i] = held[i + 1]
      BY <1>1, <1>2, <3>1, Tailing
    <3> QED BY <1>1, <2>2, <3>1, <3>2
  <2>4. /\ Len(held') = Len(held) - 1 /\ Len(held) \in Nat \ {0}
        /\ Head(held) = held[1]
    BY <1>1, <1>2, Tailing
  <2>5. held[1] = Queued + 1
    BY <2>2, <2>4
  <2>6. Queued + 1 + Len(held') = submitted
    BY <1>1, <2>2, <2>4
  <2> QED BY <2>3, <2>4, <2>5, <2>6
<1>4. NothingIsLeft'
  BY <1>2 DEF InOrder, NothingIsLeft
<1>5. WrittenInOrder' /\ QueuedInOrder'
  BY <1>2 DEF InOrder, WrittenInOrder, QueuedInOrder
<1> QED BY <1>3, <1>4, <1>5 DEF InOrder

(* A packet goes to the end of the queue.                                   *)
LEMMA SentKeepsOrder ==
  ASSUME IInv, InOrder, Sent
  PROVE  InOrder'
<1>1. /\ videoQ \in Seq(Nat) /\ Len(file) \in Nat /\ held \in Seq(Nat) /\ submitted \in Nat
      /\ Taken \in Nat /\ Queued \in Nat /\ loop.packet \in Nat
  BY DEF IInv, PipelineTypeOK, Taken, Queued
<1>2. /\ Taken' = Taken /\ videoQ' = Append(videoQ, loop.packet)
      /\ Handed = Queued + 1
      /\ Writing' = Writing /\ loop.step = "sending" /\ loop'.step = "draining"
      /\ Capturing /\ Capturing'
      /\ UNCHANGED <<file, writer, held, failure, result, submitted>>
  BY DEF Sent, Taken, Queued, Handed, Writing, Capturing, encoder, drive, outcome, IInv,
     PipelineTypeOK
<1>3. Queued' = Queued + 1 /\ Handed' = Queued + 1
  BY <1>1, <1>2, Appending DEF Queued, Handed
<1>4. QueuedInOrder'
  <2>1. SUFFICES ASSUME Writing, NEW i \in 1..Len(videoQ)'  PROVE videoQ'[i] = Taken + i
    BY <1>2 DEF QueuedInOrder
  <2>2. CASE i \in 1..Len(videoQ)
    BY <1>1, <1>2, <2>1, <2>2, Appending DEF InOrder, QueuedInOrder
  <2>3. CASE i = Len(videoQ) + 1
    BY <1>1, <1>2, <2>1, <2>3, Appending DEF InOrder, HeldInOrder, Queued
  <2> QED BY <1>1, <1>2, <2>2, <2>3, Appending
<1>5. HeldInOrder'
  BY <1>1, <1>2, <1>3 DEF InOrder, HeldInOrder
<1>6. WrittenInOrder' /\ NothingIsLeft'
  BY <1>2 DEF InOrder, WrittenInOrder, NothingIsLeft
<1> QED BY <1>4, <1>5, <1>6 DEF InOrder

(* The writer takes the oldest packet.                                      *)
LEMMA TakesVideoKeepsOrder ==
  ASSUME IInv, InOrder, TakesVideo
  PROVE  InOrder'
<1>1. /\ videoQ \in Seq(Nat) /\ Len(file) \in Nat /\ held \in Seq(Nat) /\ submitted \in Nat
      /\ Taken \in Nat /\ Queued \in Nat
      /\ writer \in [step : {"waiting", "video", "audio", "closing", "gone", "panicked"},
                     picture : Nat, failed : BOOLEAN]
  BY DEF IInv, PipelineTypeOK, Taken, Queued
<1>2. /\ videoQ # <<>> /\ videoQ' = Tail(videoQ)
      /\ writer.step = "waiting" /\ writer'.step = "video" /\ writer'.picture = Head(videoQ)
      /\ writer'.failed = writer.failed
      /\ Writing /\ Writing' /\ Taken = Len(file) /\ Taken' = Taken + 1
      /\ UNCHANGED <<file, held, failure, result, submitted, loop>>
  BY <1>1 DEF TakesVideo, Taken, Writing, encoder, outcome
<1>3. Queued' = Queued /\ Handed' = Handed /\ Capturing' = Capturing
  BY <1>1, <1>2, Tailing DEF Queued, Handed, Capturing
<1>4. WrittenInOrder' /\ QueuedInOrder'
  BY <1>1, <1>2, Tailing DEF InOrder, WrittenInOrder, QueuedInOrder
<1>5. HeldInOrder' /\ NothingIsLeft'
  BY <1>2, <1>3 DEF InOrder, HeldInOrder, NothingIsLeft
<1> QED BY <1>4, <1>5 DEF InOrder

(* What the writer has in hand goes to the end of the file.                 *)
LEMMA WrittenKeepsOrder ==
  ASSUME IInv, InOrder, Written
  PROVE  InOrder'
<1>1. /\ Len(videoQ) \in Nat /\ file \in Seq(Nat) /\ submitted \in Nat
      /\ writer \in [step : {"waiting", "video", "audio", "closing", "gone", "panicked"},
                     picture : Nat, failed : BOOLEAN]
  BY DEF IInv, PipelineTypeOK
<1>2. /\ writer'.step = "waiting" /\ writer'.failed = writer.failed /\ Writing /\ Writing'
      /\ file' = IF writer.step = "video" THEN Append(file, writer.picture) ELSE file
      /\ UNCHANGED <<videoQ, held, failure, result, submitted, loop>>
  BY <1>1 DEF Written, Writing, encoder, video, outcome
<1>3. Taken' = Taken /\ Queued' = Queued /\ Handed' = Handed /\ Capturing' = Capturing
  BY <1>1, <1>2, Appending DEF Taken, Queued, Handed, Capturing
<1>4. WrittenInOrder'
  <2>1. CASE writer.step = "video"
    <3>1. Len(file)' = Len(file) + 1 /\ file'[Len(file) + 1] = Len(file) + 1
      BY <1>1, <1>2, <2>1, Appending DEF InOrder, WrittenInOrder
    <3>2. \A n \in 1..Len(file) : file'[n] = n
      BY <1>1, <1>2, <2>1, Appending DEF InOrder, WrittenInOrder
    <3> QED BY <1>1, <1>2, <3>1, <3>2 DEF WrittenInOrder
  <2>2. CASE writer.step # "video"
    BY <1>2, <2>2 DEF InOrder, WrittenInOrder
  <2> QED BY <2>1, <2>2
<1>5. QueuedInOrder' /\ HeldInOrder'
  BY <1>2, <1>3 DEF InOrder, QueuedInOrder, HeldInOrder
<1>6. NothingIsLeft'
  <2>1. result # "recorded"
    BY <1>2 DEF IInv, LostHasFailed, Lost, Writing
  <2> QED BY <1>2, <1>3, <2>1 DEF InOrder, NothingIsLeft
<1> QED BY <1>4, <1>5, <1>6 DEF InOrder

(* A writer that fails, or closes with nothing waiting and nobody to send,  *)
(* leaves the file as it is.                                                *)
LEMMA WriterKeepsOrder ==
  ASSUME IInv, InOrder, TakesAudio \/ WriteFails \/ QueueCloses \/ WriterEnds \/ WriterPanics
  PROVE  InOrder'
<1>0. /\ videoQ \in Seq(Nat) /\ Len(file) \in Nat /\ submitted \in Nat
      /\ writer \in [step : {"waiting", "video", "audio", "closing", "gone", "panicked"},
                     picture : Nat, failed : BOOLEAN]
  BY DEF IInv, PipelineTypeOK
<1>1. UNCHANGED <<file, held, failure, result, submitted, loop>> /\ writer'.step # "video"
  <2>1. CASE TakesAudio \/ WriteFails
    BY <1>0, <2>1 DEF TakesAudio, WriteFails, encoder, outcome, video
  <2>2. CASE QueueCloses \/ WriterEnds
    BY <1>0, <2>2 DEF QueueCloses, WriterEnds, encoder, outcome, video
  <2>3. CASE WriterPanics
    BY <1>0, <2>3 DEF WriterPanics, encoder, outcome, video
  <2> QED BY <2>1, <2>2, <2>3
<1>2. WrittenInOrder'
  BY <1>1 DEF InOrder, WrittenInOrder
<1>3. CASE TakesAudio
  <2>1. /\ UNCHANGED videoQ /\ Writing /\ Writing' /\ writer'.failed = writer.failed
        /\ Taken' = Taken /\ Queued' = Queued /\ Handed' = Handed
        /\ Capturing' = Capturing
    BY <1>0, <1>1, <1>3 DEF TakesAudio, video, Writing, Taken, Queued, Handed, Capturing
  <2> QED BY <1>1, <1>2, <2>1 DEF InOrder, QueuedInOrder, HeldInOrder, NothingIsLeft
<1>4. CASE WriteFails \/ QueueCloses \/ WriterEnds \/ WriterPanics
  <2>1. /\ ~Writing'
        /\ WriteFails \/ WriterPanics => writer'.failed
        /\ WriterEnds => ~Writing /\ (writer.failed => writer'.failed)
    <3>1. CASE WriteFails \/ QueueCloses
      BY <1>0, <3>1 DEF WriteFails, QueueCloses, WriterEnds, WriterPanics, Writing
    <3>2. CASE WriterEnds
      <4>1. writer.step = "closing" /\ writer'.step = "gone" /\ (writer.failed => writer'.failed)
        BY <1>0, <3>2 DEF WriterEnds
      <4>2. ~WriteFails /\ ~WriterPanics
        BY <4>1 DEF WriteFails, WriterPanics
      <4> QED BY <4>1, <4>2 DEF Writing
    <3>3. CASE WriterPanics
      BY <1>0, <3>3 DEF WriterEnds, WriterPanics, Writing
    <3> QED BY <1>4, <3>1, <3>2, <3>3
  <2>2. QueueCloses /\ failure = "none" => Len(file) = submitted
    BY <1>0 DEF QueueCloses, NoSenders, Writing, Capturing, InOrder, NothingIsLeft, Queued, Taken
  <2>3. NothingIsLeft'
    BY <1>0, <1>1, <1>4, <2>1, <2>2 DEF InOrder, NothingIsLeft
  <2> QED BY <1>2, <2>1, <2>3 DEF InOrder, QueuedInOrder, HeldInOrder
<1> QED BY <1>3, <1>4

(* The report is made once everything is over.                              *)
LEMMA FinishKeepsOrder ==
  ASSUME IInv, InOrder, Finish
  PROVE  InOrder'
<1>1. /\ UNCHANGED <<file, writer, videoQ, held, submitted, failure>>
      /\ ~Writing /\ ~Writing' /\ result' = Reported
  BY DEF Finish, drive, video, encoder, Lost, Writing
<1>2. Reported = "recorded" => failure = "none" /\ ~writer.failed
  BY DEF Reported, IInv, PipelineTypeOK
<1> QED BY <1>1, <1>2 DEF InOrder, WrittenInOrder, QueuedInOrder, HeldInOrder, NothingIsLeft

LEMMA InitIsInOrder == Init => InOrder
BY DEF Init, InOrder, WrittenInOrder, QueuedInOrder, HeldInOrder, NothingIsLeft, Writing, Capturing,
   Taken, Queued, Handed

LEMMA StepIsInOrder == IInv /\ InOrder /\ [Next]_vars => InOrder'
BY RestKeepsOrder, FrameSubmittedKeepsOrder, YieldsKeepsOrder, SentKeepsOrder,
   TakesVideoKeepsOrder, WrittenKeepsOrder, WriterKeepsOrder, FinishKeepsOrder
   DEF Next, LoopStep, WriterStep

(* record_into and the writer's loop: for every capacity, every encoder and *)
(* every failure of any party, the file has the pictures that were given to *)
(* the encoder, in their order and with none left out, and a recording that *)
(* reports no failure has them all, those the encoder held back at its end  *)
(* and at every replacement of it included.                                 *)
THEOREM PicturesAreKept == Spec => []FileIsWhole
<1>1. InOrder => FileIsWhole
  BY DEF InOrder, WrittenInOrder, NothingIsLeft, FileIsWhole
<1> QED BY <1>1, Invariance, InitIsInOrder, StepIsInOrder, PTL DEF Spec

=============================================================================
