-------------------------- MODULE BackgroundWorker --------------------------
(* The single low-priority thread behind the waveform and thumbnail        *)
(* services (crates/background/src/worker.rs): a bounded queue that drops  *)
(* its oldest, suspended while a recording runs, stopped by its owner.     *)
(*                                                                         *)
(* The thread waits on one condition variable in two places, for work      *)
(* ("parked") and inside an item at a checkpoint ("paused").  A wait lets  *)
(* go of the lock and is ended by a notify_all, or by nothing at all: a    *)
(* condition variable may wake of itself.  What a `process` closure does   *)
(* between checkpoints is left out.  Every caller's method is one critical *)
(* section, and the notify that follows it is taken with it: between the   *)
(* two a waiting thread does nothing, and one about to wait sees the       *)
(* state that was left.                                                    *)
EXTENDS Naturals, Sequences, SequencesExt

CONSTANTS
    Recordings,  \* the paths a caller may ask for
    Capacity,    \* Worker::capacity, never zero
    None

ASSUME WorkerAssumption == Capacity \in Nat \ {0} /\ None \notin Recordings

VARIABLES
    queue,      \* the paths waiting, oldest first
    workingOn,  \* what the worker is processing
    suspended,  \* a recording is running
    stopping,   \* the owner is stopping the worker
    thread,     \* where the worker thread is
    owner       \* "running", "joining" the thread, "joined"

vars == <<queue, workingOn, suspended, stopping, thread, owner>>

Init ==
    /\ queue = <<>> /\ workingOn = None /\ thread = "next"
    /\ suspended = FALSE /\ stopping = FALSE /\ owner = "running"

(* notify_all on the one condition variable.                               *)
Notified == CASE thread = "parked" -> "next"
              [] thread = "paused" -> "checkpoint"
              [] OTHER -> thread

-----------------------------------------------------------------------------
(* The callers.                                                            *)

(* Mutant: what is being worked on is not looked at.                       *)
IsQueued(recording) == recording \in ToSet(queue)

IsWaiting(recording) == workingOn = recording \/ recording \in ToSet(queue)

(* Mutant: the newest is dropped.                                          *)
DropNewest == IF Len(queue) >= Capacity THEN Front(queue) ELSE queue

(* When the queue is full the oldest waiting request is dropped.           *)
MakePlace == IF Len(queue) >= Capacity THEN Tail(queue) ELSE queue

(* RequestOutcome: Stopped and AlreadyQueued change nothing but wake the   *)
(* thread.                                                                 *)
Request(recording) ==
    /\ owner # "joined"
    /\ queue' = IF stopping \/ IsWaiting(recording) THEN queue
                ELSE Append(MakePlace, recording)
    /\ thread' = Notified
    /\ UNCHANGED <<workingOn, suspended, stopping, owner>>

SuspendForRecording ==
    /\ owner = "running" /\ suspended' = TRUE /\ thread' = Notified
    /\ UNCHANGED <<queue, workingOn, stopping, owner>>

(* Mutant: nobody is told.                                                 *)
ResumeQuietly ==
    /\ owner = "running" /\ suspended' = FALSE
    /\ UNCHANGED <<queue, workingOn, stopping, thread, owner>>

Resume ==
    /\ owner = "running" /\ suspended' = FALSE /\ thread' = Notified
    /\ UNCHANGED <<queue, workingOn, stopping, owner>>

Stop ==
    /\ owner = "running" /\ owner' = "joining"
    /\ stopping' = TRUE /\ queue' = <<>> /\ thread' = Notified
    /\ UNCHANGED <<workingOn, suspended>>

Join ==
    /\ owner = "joining" /\ thread = "ended" /\ owner' = "joined"
    /\ UNCHANGED <<queue, workingOn, suspended, stopping, thread>>

-----------------------------------------------------------------------------
(* The thread.                                                             *)

(* next: under the lock, take the oldest or wait.                          *)
TakeNext ==
    /\ thread = "next"
    /\ \/ stopping /\ thread' = "ended" /\ UNCHANGED <<queue, workingOn>>
       \/ /\ ~stopping /\ ~suspended /\ queue # <<>>
          /\ queue' = Tail(queue) /\ workingOn' = Head(queue)
          /\ thread' = "process"
       \/ /\ ~stopping /\ (suspended \/ queue = <<>>)
          /\ thread' = "parked" /\ UNCHANGED <<queue, workingOn>>
    /\ UNCHANGED <<suspended, stopping, owner>>

(* The closure reaches a checkpoint.                                       *)
ReachCheckpoint ==
    /\ thread = "process" /\ thread' = "checkpoint"
    /\ UNCHANGED <<queue, workingOn, suspended, stopping, owner>>

(* The closure comes to its end, and the thread to its next item.          *)
Finish ==
    /\ thread = "process" /\ thread' = "next" /\ workingOn' = None
    /\ UNCHANGED <<queue, suspended, stopping, owner>>

(* Continue::Stop makes the closure return Cancelled, which ends the       *)
(* thread with `working_on` as it is.                                      *)
Checkpoint ==
    /\ thread = "checkpoint"
    /\ thread' = IF stopping THEN "ended"
                 ELSE IF suspended THEN "paused" ELSE "process"
    /\ UNCHANGED <<queue, workingOn, suspended, stopping, owner>>

(* Mutant: the wait of a checkpoint is not a loop.                         *)
WakeToWork ==
    /\ thread \in {"parked", "paused"}
    /\ thread' = IF thread = "parked" THEN "next" ELSE "process"
    /\ UNCHANGED <<queue, workingOn, suspended, stopping, owner>>

(* The condition variable wakes of itself.                                 *)
Wake ==
    /\ thread \in {"parked", "paused"} /\ thread' = Notified
    /\ UNCHANGED <<queue, workingOn, suspended, stopping, owner>>

-----------------------------------------------------------------------------
Caller == SuspendForRecording \/ Resume \/ Stop
              \/ \E recording \in Recordings : Request(recording)
Thread == TakeNext \/ ReachCheckpoint \/ Finish \/ Checkpoint

(* The worker is gone; without this its end would look like a deadlock.    *)
Gone == owner = "joined" /\ UNCHANGED vars

Next == Caller \/ Thread \/ Wake \/ Join \/ Gone

Spec == Init /\ [][Next]_vars

(* The thread runs when it can, an item comes to its end, the owner joins. *)
FairSpec == Spec /\ WF_vars(Thread) /\ SF_vars(Finish) /\ WF_vars(Join)

-----------------------------------------------------------------------------
Waiting == {"next", "parked"}
AtWork == {"process", "checkpoint", "paused"}

WorkerTypeOK ==
    /\ queue \in Seq(Recordings) /\ Len(queue) <= Capacity
    /\ workingOn \in Recordings \cup {None}
    /\ suspended \in BOOLEAN /\ stopping \in BOOLEAN
    /\ thread \in Waiting \cup AtWork \cup {"ended"}
    /\ owner \in {"running", "joining", "joined"}

(* A path is asked for any number of times and worked on once: it is not   *)
(* twice in the queue, nor queued behind itself.                           *)
WorkedOnOnce ==
    /\ \A i, k \in DOMAIN queue : queue[i] = queue[k] => i = k
    /\ \A i \in DOMAIN queue : queue[i] # workingOn

(* The thread is idle exactly when it says it works on nothing: a path it  *)
(* has let go of is never answered AlreadyQueued.                          *)
WorkingOnIsHonest == /\ thread \in Waiting => workingOn = None
                     /\ thread \in AtWork => workingOn # None

(* A stopped worker takes nothing more, whoever asks and whenever.         *)
StoppedIsEmpty == /\ stopping => queue = <<>>
                  /\ stopping <=> owner # "running"
                  /\ owner = "joined" => thread = "ended"

(* What the worker says of its queue and of itself is true at any time.    *)
QueueIsSound == WorkerTypeOK /\ WorkedOnOnce /\ WorkingOnIsHonest /\ StoppedIsEmpty

(* Work that a recording paused goes on only when the recording is over,   *)
(* or the worker is; no wake of its own lets it through.                   *)
PausedWhileRecording ==
    [][(thread \in {"paused", "checkpoint"} /\ thread' = "process")
          => ~suspended /\ ~stopping]_vars

(* Whoever was asked for before whom, and still waits.                     *)
Before == {pair \in ToSet(queue) \X ToSet(queue) :
              \E i, k \in DOMAIN queue : i < k /\ pair = <<queue[i], queue[k]>>}

(* The worker is a bounded queue of requests that serves, and when it must *)
(* drops, the oldest, and serves nothing during a recording: worker.rs's   *)
(* request, next and stop, whatever the thread's waits and wakes.          *)
Promise == INSTANCE BoundedRequests
           WITH wanted <- ToSet(queue), before <- Before, inHand <- workingOn,
                held <- suspended, closed <- stopping
RequestsAreKept == Promise!Spec

(* Stopping ends, also in the middle of an item and of a recording.        *)
StoppingEnds == owner = "joining" ~> owner = "joined"

(* Once recordings are over, nothing waits for ever.                       *)
RequestIsServed ==
    \A recording \in Recordings :
        <>[]~suspended =>
            (recording \in ToSet(queue) ~> recording \notin ToSet(queue))

(* No wait, of the thread's two or the owner's, is one nobody ends.        *)
NobodyWaitsForEver == StoppingEnds /\ RequestIsServed
=============================================================================
