---------------------------- MODULE ReplayBuffer ----------------------------
(* The rolling window of encoded segments (crates/replay/src/buffer.rs):   *)
(* what it keeps and throws away, what a save is given, and the thread     *)
(* that moves segments to disk.                                            *)
(*                                                                         *)
(* `b` is what is behind the buffer's lock (`Inner`); the operators on it  *)
(* are the functions that run under that lock, and one action is one       *)
(* critical section.  Between them other threads run: the capture thread   *)
(* offering a segment to the writer, the writer, and saves.                *)
(*                                                                         *)
(* Abstractions.  Bytes are counted in units, one to a packet and one to a *)
(* block of audio; a vector's spare capacity is left out, so a segment     *)
(* costs what it contains.  Pictures arrive in presentation order.  The    *)
(* count of packets lost to the ceiling is kept as 0 or 1, since only zero *)
(* or not is read.  Statistics are left out, save for what a save retains. *)
EXTENDS Integers, Sequences, SequencesExt, FiniteSetsExt

CONSTANTS
    Window,           \* ReplayConfig::window
    SegmentDuration,  \* ReplayConfig::segment_duration
    MemoryCeiling,    \* ReplayConfig::memory_ceiling
    ResidentBudget,   \* ReplayBuffer::resident_budget
    SpillQueue,       \* SPILL_QUEUE
    Kinds,            \* TRUE: ReplayBuffer::spilling; FALSE: ::new, no writer
    DiskFails,        \* a write to the spill area may fail
    Saves,            \* saves that may hold a lease at once
    Lengths,          \* what a save may ask for
    MaxTime, MaxPackets, MaxAudio,  \* bounds on the recording, of each kind
    NoSegment, None

(* A run of pictures that begins with a keyframe, in memory or on disk.    *)
Segment == [id : Nat, start : Nat, last : Nat, video : Nat, audio : Nat,
            spilled : BOOLEAN]

ASSUME ReplayConfigOK ==
    /\ Window \in Nat \ {0} /\ SegmentDuration \in 1 .. Window
    /\ MemoryCeiling \in Nat \ {0} /\ ResidentBudget \in Nat \ {0}
    /\ SpillQueue \in Nat \ {0} /\ DiskFails \in BOOLEAN
    /\ Kinds \subseteq BOOLEAN /\ Kinds # {}
    /\ Lengths \subseteq Nat \ {0}
    /\ {MaxTime, MaxPackets, MaxAudio} \subseteq [BOOLEAN -> Nat]
    /\ None \notin Nat
    /\ NoSegment \notin Segment

VARIABLES
    clock,    \* media time at the source
    pushed,   \* what was handed over so far, and the last picture's time
    b,        \* the buffer behind its lock
    leases,   \* what each save has pinned
    capture,  \* the capture thread, between a push and the next
    writer,   \* the spill thread
    queue,    \* the channel to it
    files,    \* the segment files in the spill area
    owner     \* the recording's handle: "holds", "joins" the writer, "gone"

(* A buffer made without a writer never has one. *)
Spills == writer.pc # "none"

vars == <<clock, pushed, b, leases, capture, writer, queue, files, owner>>

-----------------------------------------------------------------------------
(* Segments and the state behind the lock.                                 *)

Seg(id, at) == [id |-> id, start |-> at, last |-> at, video |-> 0, audio |-> 0,
                spilled |-> FALSE]

ResidentBytes(s) == IF s.spilled THEN 0 ELSE s.video + s.audio
(* `sealed_bytes`, which the code keeps as it seals, drops and spills.      *)
ResidentIn(list) ==
    LET upTo[n \in 0 .. Len(list)] ==
            IF n = 0 THEN 0 ELSE upTo[n - 1] + ResidentBytes(list[n])
    IN  upTo[Len(list)]
SealedBytes(x) == ResidentIn(x.sealed)
OwnedBytes(x) ==
    SealedBytes(x) + IF x.open = NoSegment THEN 0 ELSE ResidentBytes(x.open)

(* `began` and `holes` are history: how far back the buffer can be asked   *)
(* to reach, and the segments after which a picture was thrown away.       *)
Empty == [sealed |-> <<>>, open |-> NoSegment, ceilingGap |-> None,
          sourceGap |-> None, silence |-> 0, ids |-> 0, spilling |-> {},
          givenUp |-> FALSE, leased |-> {}, began |-> None, holes |-> {}]

Segments(x) == IF x.open = NoSegment THEN x.sealed ELSE Append(x.sealed, x.open)

LatestPresentation(x) ==
    IF Segments(x) = <<>> THEN None ELSE Last(Segments(x)).last

Held(x) == [start |-> Segments(x)[1].start, end |-> LatestPresentation(x)]

(* The segments in memory that something besides the buffer holds: a       *)
(* lease, the channel, or a thread about to send or busy writing one.      *)
Shared == UNION {leases[v].resident : v \in Saves}
             \cup ToSet(queue)
             \cup ({capture.segment, writer.segment} \ {None})

-----------------------------------------------------------------------------
(* Eviction.                                                               *)

Release(x) == [x EXCEPT !.leased = @ \cap Shared]

(* drop_front, n times.  shortens: anything but the window rule drops it,  *)
(* and what the buffer can be asked to reach is less.                      *)
Drop(x, n, shortens) ==
    LET inMemory == {s \in ToSet(SubSeq(x.sealed, 1, n)) : ~s.spilled}
        gone == {s.id : s \in inMemory}
        y == [x EXCEPT !.sealed = SubSeq(@, n + 1, Len(@)),
                       !.leased = @ \cup (gone \cap Shared)]
    IN  IF n = 0 \/ ~shortens THEN y
        ELSE [y EXCEPT !.began = IF Segments(y) = <<>> THEN None
                                 ELSE Held(y).start]

(* Dropping from the front for as long as the rule says so.                *)
DropWhile(x, Rule(_), shortens) ==
    LET enough == {n \in 0 .. Len(x.sealed) : n = Len(x.sealed)
                                               \/ ~Rule(Drop(x, n, shortens))}
    IN  Drop(x, Min(enough), shortens)

(* Mutant: the window measured from the segment that would go.             *)
PastWindowByFront(x) == /\ Len(x.sealed) >= 2
                        /\ LatestPresentation(x) - x.sealed[1].start >= Window
PastWindow(x) == /\ Len(x.sealed) >= 2
                 /\ LatestPresentation(x) - x.sealed[2].start >= Window

OverCeiling(x) == OwnedBytes(x) > MemoryCeiling /\ Len(x.sealed) >= 2

Evict(x) == DropWhile(DropWhile(Release(x), PastWindow, FALSE),
                      OverCeiling, TRUE)

Seal(x) == IF x.open = NoSegment THEN x
           ELSE [x EXCEPT !.sealed = Append(@, x.open), !.open = NoSegment]

-----------------------------------------------------------------------------
(* The ceiling on the segment being written, and gaps.                     *)

(* cost: what the open segment would occupy after the append.              *)
MakeRoom(x, cost) ==
    IF x.open = NoSegment THEN x
    ELSE LET Full(y) == SealedBytes(y) + cost > MemoryCeiling
             Evictable(y) == Full(y) /\ Len(y.sealed) >= 2
             room == DropWhile(x, Evictable, TRUE)
         IN  IF Full(room) THEN [Seal(room) EXCEPT !.ceilingGap = 0] ELSE room

(* `resident_bytes_after` counts pictures and their index, and no audio.   *)
CostOfPicture(x) == x.open.video + 1
CostOfAudio(x) == x.open.video + x.open.audio + 1

GapBefore(x, at) ==
    /\ x.sourceGap = None /\ x.ceilingGap = None
    /\ LatestPresentation(x) # None
    /\ at - LatestPresentation(x) > SegmentDuration

SealAtSourceGap(x, at) ==
    IF GapBefore(x, at)
    THEN [Seal(x) EXCEPT !.sourceGap = at - LatestPresentation(x)] ELSE x

DiscardAwaitingKeyframe(x) ==
    [x EXCEPT !.ceilingGap = IF @ = None THEN None ELSE 1,
              !.holes = IF x.sealed = <<>> THEN @
                        ELSE @ \cup {Last(x.sealed).id}]

AnyGap(x) == x.ceilingGap = 1 \/ x.sourceGap # None

ResumeAfterAnyGap(x) ==
    LET y == [x EXCEPT !.ceilingGap = None, !.sourceGap = None]
    IN  IF AnyGap(x) THEN Drop(y, Len(y.sealed), TRUE) ELSE y

OpenSegment(x, at) ==
    LET y == ResumeAfterAnyGap(x)
    IN  [y EXCEPT !.open = Seg(y.ids + 1, at), !.ids = @ + 1,
                  !.began = IF @ = None THEN at ELSE @]

AppendPicture(x, at) == [x EXCEPT !.open.video = @ + 1, !.open.last = at]

SealIfFull(x, key, at) ==
    IF key /\ x.open # NoSegment /\ at - x.open.start >= SegmentDuration
    THEN Seal(x) ELSE x

(* Inner::push.                                                            *)
Push(x, key, at) ==
    LET y == SealAtSourceGap([x EXCEPT !.silence = 0], at)
        Awaiting(z) == z.open = NoSegment /\ ~key
        sealed == SealIfFull(y, key, at)
        z == IF sealed.open = NoSegment THEN sealed
             ELSE MakeRoom(sealed, CostOfPicture(sealed))
        w == IF z.open = NoSegment THEN OpenSegment(z, at) ELSE z
    IN  IF Awaiting(y) THEN DiscardAwaitingKeyframe(y)
        ELSE IF Awaiting(z) THEN DiscardAwaitingKeyframe(z)
        ELSE Evict(AppendPicture(w, at))

(* Inner::push_audio.                                                      *)
PushBlock(x) ==
    IF x.open = NoSegment THEN x
    ELSE LET z == MakeRoom(x, CostOfAudio(x))
         IN  IF z.open = NoSegment THEN z
             ELSE Evict([z EXCEPT !.open.audio = @ + 1])

-----------------------------------------------------------------------------
(* What a save is given.                                                   *)

(* Mutant: what the recording loop says of a silence is not used.           *)
StaleByPackets(x) == IF x.sourceGap = None THEN 0 ELSE x.sourceGap

StaleBy(x) == Max({IF x.silence > SegmentDuration THEN x.silence ELSE 0,
                   IF x.sourceGap = None THEN 0 ELSE x.sourceGap})

Positive(n) == Max({n, 0})

(* TimeRange::ending_at now, media time beginning at zero.                 *)
Requested(x, length) ==
    LET now == Held(x).end + StaleBy(x)
    IN  [start |-> Positive(now - length), end |-> now]

(* LeaseError::Empty, OutsideBuffer and SourceSilent are refusals alike.   *)
Refused(x, length) ==
    \/ Segments(x) = <<>>
    \/ Requested(x, length).start > Held(x).end
    \/ Held(x).start > Requested(x, length).end

(* Inner::plan_lease for Request::Last: the segments, oldest first.        *)
Planned(x, length) ==
    LET all == Segments(x)
        From(t) == Max({1} \cup {i \in DOMAIN all : all[i].start <= t})
        r == Requested(x, length)
        first == From(r.start)
    IN  SubSeq(all, first, Max({first, From(r.end)}))

Covered(lease) == [start |-> lease[1].start, end |-> Last(lease).last]

IsComplete(x, length) ==
    LET c == Covered(Planned(x, length))
        r == Requested(x, length)
    IN  c.start <= r.start /\ c.end >= r.end /\ c.end - c.start >= length

-----------------------------------------------------------------------------
(* The capture thread.                                                     *)

NoLease == [resident |-> {}, onDisk |-> {}]
Idle == [pc |-> "idle", segment |-> None]

Init ==
    /\ clock = 0 /\ pushed = [video |-> 0, audio |-> 0, at |-> 0]
    /\ b = Empty /\ leases = [v \in Saves |-> NoLease]
    /\ capture = Idle
    /\ writer \in {[pc |-> IF kind THEN "recv" ELSE "none", segment |-> None,
                   strong |-> FALSE, ending |-> FALSE] : kind \in Kinds}
    /\ queue = <<>> /\ files = {} /\ owner = "holds"

(* A spilled segment's file goes with the last Arc on it.                  *)
SpilledIn(x) == {s.id : s \in {t \in ToSet(x.sealed) : t.spilled}}
PinnedFiles == UNION {leases[v].onDisk : v \in Saves}
(* Mutant: eviction removes the file under a save.                          *)
UnlinkedAll(x) == files \ (SpilledIn(b) \ SpilledIn(x))

Unlinked(x) == files \ ((SpilledIn(b) \ SpilledIn(x)) \ PinnedFiles)

Tick == /\ clock < MaxTime[Spills] /\ clock' = clock + 1
        /\ UNCHANGED <<pushed, b, leases, capture, writer, queue, files, owner>>

(* A push is followed by spill_if_needed, which a push of audio is not.    *)
PushVideo(key) ==
    /\ owner = "holds" /\ capture.pc = "idle" /\ pushed.video < MaxPackets[Spills]
    /\ pushed' = [pushed EXCEPT !.video = @ + 1, !.at = clock]
    /\ b' = Push(b, key, clock) /\ files' = Unlinked(b')
    /\ capture' = IF Spills THEN [Idle EXCEPT !.pc = "offer"] ELSE capture
    /\ UNCHANGED <<clock, leases, writer, queue, owner>>

PushAudio ==
    /\ owner = "holds" /\ capture.pc = "idle" /\ pushed.audio < MaxAudio[Spills]
    /\ pushed' = [pushed EXCEPT !.audio = @ + 1]
    /\ b' = PushBlock(b) /\ files' = Unlinked(b')
    /\ UNCHANGED <<clock, leases, capture, writer, queue, owner>>

(* The recording loop, between frames, says how long there has been none.  *)
NoteSourceSilence ==
    /\ owner = "holds" /\ capture.pc = "idle" /\ pushed.video > 0
    /\ b' = [b EXCEPT !.silence = clock - pushed.at]
    /\ UNCHANGED <<clock, pushed, leases, capture, writer, queue, files, owner>>

-----------------------------------------------------------------------------
(* spill_if_needed, which both the capture thread and the writer run: a    *)
(* choice under the lock, then an attempt to send without it.              *)

ToSpill(x) == {i \in DOMAIN x.sealed :
                 ~x.sealed[i].spilled /\ x.sealed[i].id \notin x.spilling}

NothingToOffer(x) == \/ x.givenUp \/ SealedBytes(x) <= ResidentBudget
                     \/ ToSpill(x) = {}

NextToSpill(x) == x.sealed[Min(ToSpill(x))].id

(* thread' after the lock is released.  done: where the loop returns to.   *)
Choose(thread, done) ==
    IF NothingToOffer(b)
    THEN thread' = [thread EXCEPT !.pc = done] /\ UNCHANGED b
    ELSE /\ thread' = [thread EXCEPT !.pc = "send", !.segment = NextToSpill(b)]
         /\ b' = [b EXCEPT !.spilling = @ \cup {NextToSpill(b)}]

QueueTakes == writer.pc # "ended" /\ Len(queue) < SpillQueue

TrySend(thread, done) ==
    \/ /\ QueueTakes
       /\ queue' = Append(queue, thread.segment)
       /\ thread' = [thread EXCEPT !.pc = "offer", !.segment = None]
       /\ UNCHANGED b
    \/ /\ ~QueueTakes
       /\ thread' = [thread EXCEPT !.pc = "declined"]
       /\ UNCHANGED <<b, queue>>

Decline(thread, done) ==
    /\ b' = [b EXCEPT !.spilling = @ \ {thread.segment}]
    /\ thread' = [thread EXCEPT !.pc = done, !.segment = None]

CaptureOffers ==
    /\ capture.pc = "offer" /\ Choose(capture, "idle")
    /\ UNCHANGED <<clock, pushed, leases, writer, queue, files, owner>>

CaptureSends ==
    /\ capture.pc = "send" /\ TrySend(capture, "idle")
    /\ UNCHANGED <<clock, pushed, leases, writer, files, owner>>

CaptureDeclines ==
    /\ capture.pc = "declined" /\ Decline(capture, "idle")
    /\ UNCHANGED <<clock, pushed, leases, writer, queue, files, owner>>

-----------------------------------------------------------------------------
(* The writer (spill_loop).                                                *)

BufferLives == owner = "holds" \/ writer.strong

(* Ending drops the receiver and what is still in the channel.             *)
WriterEnds == /\ writer' = [writer EXCEPT !.pc = "ended", !.segment = None,
                                          !.strong = FALSE]
              /\ queue' = <<>>

(* Mutant: the channel is joined before it is closed.                       *)
ReceiveOpen ==
    /\ writer.pc = "recv" /\ queue # <<>>
    /\ writer' = [writer EXCEPT !.pc = "write", !.segment = Head(queue)]
    /\ queue' = Tail(queue)
    /\ UNCHANGED <<clock, pushed, b, leases, capture, files, owner>>

Receive ==
    /\ writer.pc = "recv"
    /\ \/ /\ queue # <<>>
          /\ writer' = [writer EXCEPT !.pc = "write", !.segment = Head(queue)]
          /\ queue' = Tail(queue)
       \/ queue = <<>> /\ ~BufferLives /\ WriterEnds
    /\ UNCHANGED <<clock, pushed, b, leases, capture, files, owner>>

Write ==
    /\ writer.pc = "write"
    /\ \/ /\ files' = files \cup {writer.segment}
          /\ writer' = [writer EXCEPT !.pc = "upgrade"]
       \/ /\ DiskFails
          /\ files' = files \ {writer.segment}
          /\ writer' = [writer EXCEPT !.pc = "upgrade", !.ending = TRUE]
    /\ UNCHANGED <<clock, pushed, b, leases, capture, queue, owner>>

Upgrade ==
    /\ writer.pc = "upgrade"
    /\ \/ /\ BufferLives
          /\ writer' = [writer EXCEPT !.pc = "report", !.strong = TRUE]
          /\ UNCHANGED <<queue, files>>
       \/ /\ ~BufferLives
          /\ files' = files \ {writer.segment} /\ WriterEnds
    /\ UNCHANGED <<clock, pushed, b, leases, capture, owner>>

Positions(x, id) == {i \in DOMAIN x.sealed : x.sealed[i].id = id}

(* mark_spilled: the memory is let go, or the file of a segment that was   *)
(* evicted meanwhile.                                                      *)
MarkSpilled ==
    LET id == writer.segment
        at == Positions(b, id)
        y == [b EXCEPT !.spilling = @ \ {id}]
    IN  /\ writer.pc = "report" /\ ~writer.ending
        /\ \/ /\ at = {}
              /\ b' = y /\ files' = files \ {id}
              /\ writer' = [writer EXCEPT !.pc = "release", !.segment = None]
           \/ /\ at # {}
              /\ b' = [y EXCEPT !.sealed[Min(at)].spilled = TRUE]
              /\ writer' = [writer EXCEPT !.pc = "offer", !.segment = None]
              /\ UNCHANGED files
        /\ UNCHANGED <<clock, pushed, leases, capture, queue, owner>>

GiveUpSpilling ==
    /\ writer.pc = "report" /\ writer.ending
    /\ b' = [b EXCEPT !.givenUp = TRUE, !.spilling = {}]
    /\ writer' = [writer EXCEPT !.pc = "release", !.segment = None]
    /\ UNCHANGED <<clock, pushed, leases, capture, queue, files, owner>>

WriterOffers ==
    /\ writer.pc = "offer" /\ Choose(writer, "release")
    /\ UNCHANGED <<clock, pushed, leases, capture, queue, files, owner>>

WriterSends ==
    /\ writer.pc = "send" /\ TrySend(writer, "release")
    /\ UNCHANGED <<clock, pushed, leases, capture, files, owner>>

WriterDeclines ==
    /\ writer.pc = "declined" /\ Decline(writer, "release")
    /\ UNCHANGED <<clock, pushed, leases, capture, queue, files, owner>>

(* The writer's reference goes.  When it is the last, the buffer is        *)
(* dropped on this thread, and dropping it joins this thread.              *)
WriterReleases ==
    /\ writer.pc = "release"
    /\ \/ /\ owner = "holds" /\ ~writer.ending
          /\ writer' = [writer EXCEPT !.pc = "recv", !.strong = FALSE]
          /\ UNCHANGED <<b, queue, files>>
       \/ /\ owner = "holds" /\ writer.ending
          /\ WriterEnds /\ UNCHANGED <<b, files>>
       \/ /\ owner # "holds"
          /\ writer' = [writer EXCEPT !.pc = "joins itself", !.strong = FALSE]
          /\ b' = Empty /\ files' = Unlinked(Empty) /\ UNCHANGED queue
    /\ UNCHANGED <<clock, pushed, leases, capture, owner>>

-----------------------------------------------------------------------------
(* Saves, and the end of the recording.                                    *)

(* lease_last under the lock: memory is pinned by its Arc, a file by its.  *)
(* The copy of the open segment is the save's own and pins nothing.        *)
TakeLease(v, length) ==
    LET plan == ToSet(Planned(b, length)) \ {b.open}
    IN  /\ owner = "holds" /\ leases[v] = NoLease /\ ~Refused(b, length)
        /\ leases' = [leases EXCEPT ![v] =
               [resident |-> {s.id : s \in {t \in plan : ~t.spilled}},
                onDisk |-> {s.id : s \in {t \in plan : t.spilled}}]]
        /\ b' = Release(b)
        /\ UNCHANGED <<clock, pushed, capture, writer, queue, files, owner>>

StillLinked(v) == SpilledIn(b) \cup UNION {leases[w].onDisk : w \in Saves \ {v}}

(* materialise: what was on disk is read, and its file let go.             *)
Materialise(v) ==
    /\ leases[v].onDisk # {}
    /\ leases' = [leases EXCEPT ![v].onDisk = {}]
    /\ files' = files \ (leases[v].onDisk \ StillLinked(v))
    /\ UNCHANGED <<clock, pushed, b, capture, writer, queue, owner>>

(* The save is done and the lease is dropped.                              *)
FinishSave(v) ==
    /\ leases[v] # NoLease /\ leases[v].onDisk = {}
    /\ leases' = [leases EXCEPT ![v] = NoLease]
    /\ UNCHANGED <<clock, pushed, b, capture, writer, queue, files, owner>>

(* The recording lets go of the buffer.  If that was the last reference    *)
(* the buffer goes here: its segments, then the channel, then a join.      *)
EndRecording ==
    /\ owner = "holds" /\ capture.pc = "idle"
    /\ IF writer.strong
       THEN owner' = "gone" /\ UNCHANGED <<b, files>>
       ELSE owner' = "joins" /\ b' = Empty /\ files' = Unlinked(Empty)
    /\ UNCHANGED <<clock, pushed, leases, capture, writer, queue>>

Joined ==
    /\ owner = "joins" /\ writer.pc \in {"ended", "none"} /\ owner' = "gone"
    /\ UNCHANGED <<clock, pushed, b, leases, capture, writer, queue, files>>

-----------------------------------------------------------------------------
Spill == CaptureOffers \/ CaptureSends \/ CaptureDeclines
WriterStep == \/ Receive \/ Write \/ Upgrade \/ MarkSpilled \/ GiveUpSpilling
              \/ WriterOffers \/ WriterSends \/ WriterDeclines
              \/ WriterReleases
Save(v) == (\E length \in Lengths : TakeLease(v, length))
              \/ Materialise(v) \/ FinishSave(v)

Next ==
    \/ Tick \/ PushAudio \/ NoteSourceSilence \/ Spill \/ WriterStep
    \/ EndRecording \/ Joined
    \/ \E key \in BOOLEAN : PushVideo(key)
    \/ \E v \in Saves : Save(v)

Spec == Init /\ [][Next]_vars
-----------------------------------------------------------------------------
(* Properties of what is kept.                                             *)

Times == 0 .. MaxTime[Spills]
IdRange == 1 .. MaxPackets[Spills]
SegType == [id : IdRange, start : Times, last : Times, video : {0} \cup IdRange,
            audio : 0 .. MaxAudio[Spills], spilled : BOOLEAN]

(* Types; the queue of segments is in order, with the newest id at its end. *)
BufferTypeOK ==
    /\ \A s \in ToSet(Segments(b)) : s \in SegType /\ s.video > 0
    /\ \A i \in DOMAIN Segments(b) : i > 1 =>
          /\ Segments(b)[i - 1].id < Segments(b)[i].id
          /\ Segments(b)[i - 1].last <= Segments(b)[i].start
    /\ b.silence \in Times /\ b.ceilingGap \in {None, 0, 1}
    /\ b.sourceGap \in {None} \cup (Times \ {0})
    /\ b.leased \subseteq IdRange /\ b.spilling \subseteq IdRange
    /\ files \subseteq IdRange

(* What the buffer would give a save never jumps: between two segments it  *)
(* holds no picture was thrown away, and the source was not silent for     *)
(* longer than a segment.  A block of audio that seals the open segment at *)
(* the ceiling hides the silence after it, so this is of a buffer that was *)
(* handed pictures only.                                                   *)
NoGapInTheWindow ==
    pushed.audio = 0 =>
        \A i \in DOMAIN Segments(b) : i > 1 =>
            /\ Segments(b)[i - 1].id \notin b.holes
            /\ Segments(b)[i].start - Segments(b)[i - 1].last <= SegmentDuration

(* A buffer that has been running longer than its window holds the window: *)
(* only a gap or the ceiling may leave it with less.                       *)
WindowIsKept ==
    Segments(b) # <<>> =>
        Held(b).start <= Max({b.began, Held(b).end - Window})

(* Without audio the buffer owns no more than its ceiling and the picture  *)
(* that opened a segment (make_room, evict).  What audio the open segment  *)
(* has is left out of the cost of its next picture, so with audio there is *)
(* no such bound.                                                          *)
OwnedIsBounded == pushed.audio = 0 => OwnedBytes(b) <= MemoryCeiling + 1

(* A save finds the window there, and whole, at a cost that stays bounded. *)
WindowIsWhole == /\ BufferTypeOK /\ WindowIsKept /\ NoGapInTheWindow
                 /\ OwnedIsBounded

(* A save that is told it is complete, when the silence is known, ends     *)
(* within a segment of now: old footage is never passed off as the last    *)
(* seconds.  While the ceiling is throwing pictures away nothing is said.  *)
CompleteIsCurrent ==
    \A length \in Lengths :
        /\ ~Refused(b, length) /\ b.ceilingGap = None
        /\ b.silence = clock - pushed.at
        /\ IsComplete(b, length)
        => clock - Covered(Planned(b, length)).end <= SegmentDuration

-----------------------------------------------------------------------------
(* Properties of the spill.                                                *)

InFlight(id) == \/ id \in ToSet(queue) \/ writer.segment = id
                \/ capture.segment = id

(* A segment is with the writer at most once: twice, and the file of one   *)
(* would go with the other.                                                *)
QueuedOnce ==
    /\ IsInjective(queue)
    /\ writer.segment # None =>
          writer.segment \notin ToSet(queue) \cup {capture.segment}
    /\ capture.segment # None => capture.segment \notin ToSet(queue)

(* A segment that is not in memory any more is on disk, for as long as the *)
(* window or a save has it: no lease comes back unreadable.                *)
NothingIsLost == SpilledIn(b) \cup PinnedFiles \subseteq files

(* And no file is left that nobody would remove.                           *)
NoFileLeaks ==
    files \subseteq SpilledIn(b) \cup PinnedFiles \cup {writer.segment}

(* A segment is queued once, has its file for as long as anybody may read   *)
(* it, and no longer.                                                       *)
FilesAreKept == QueuedOnce /\ NothingIsLost /\ NoFileLeaks

-----------------------------------------------------------------------------
(* Every thread goes on when it can; the disk fails only so often, a save  *)
(* ends, and so does the recording.                                        *)
FairSpec ==
    /\ Spec
    /\ WF_vars(Spill) /\ WF_vars(WriterStep) /\ WF_vars(Joined)
    /\ \A v \in Saves : WF_vars(Materialise(v) \/ FinishSave(v))

(* A recording that is ending is not held up by the writer for ever.       *)
EndingRecordingEnds == owner = "joins" ~> owner = "gone"

DirectoryStands == \/ writer.pc \notin {"none", "ended"}
                   \/ SpilledIn(b) \cup PinnedFiles # {}

(* The directory goes when nothing needs it.                               *)
DirectoryGoes == owner # "holds" ~> ~DirectoryStands

=============================================================================
