-------------------------- MODULE AutomaticRecorder --------------------------
(***************************************************************************)
(* The recorder process around the session manager: the driver's loop      *)
(* (`Driver::watch`, apps/recorder watch.rs), the thread each recording    *)
(* runs on (`attempt_with`), and the state the protocol's connection       *)
(* threads share with them (`RecordingState`, apps/recorder serve.rs).     *)
(*                                                                         *)
(* The driver is one thread whose pass is three steps here, because other  *)
(* threads run between them: it takes the flag a user's stop raised, then  *)
(* collects a finished recording, then takes one event from the watcher.   *)
(* Every critical section of RecordingState's mutex is one action.         *)
(*                                                                         *)
(* The module extends SessionManager and calls its actions, so its own     *)
(* steps are that module's steps with everything else that happens in      *)
(* them.                                                                   *)
(***************************************************************************)
EXTENDS SessionManager

CONSTANTS
    Clients,    \* connections that call stop_recording, once each
    Manuals     \* ids of the recordings start_recording may start

VARIABLES
    pass,       \* where the driver is in its loop
    shutdown,   \* the process's shutdown signal
    thread,     \* the driver's recording thread: its phase, its outcome, and
                \* whether a client's signal had reached it when it ended
    current,    \* RecordingState::current: who it is of, and if it is done
    manual,     \* the start_recording recording whose thread runs
    started,    \* the start_recording ids used
    asked,      \* the recordings whose asked_to_stop flag is raised
    signalled,  \* the recordings whose stop signal a client requested
    client,     \* what each client's call is doing
    late        \* processes whose stop was accepted after their recording
                \* had been collected and while they were still alive

recorderVars == <<pass, shutdown, thread, current, manual, started, asked,
                  signalled, client, late>>

allVars == <<vars, recorderVars>>

Recording == RecordingRequest \cup Manuals

(* No two recordings have one id, whoever started them.                    *)
ASSUME ClientAssumption ==
    /\ None \notin Clients /\ None \notin Recording
    /\ \A m \in Manuals : m \notin RecordingRequest
    /\ None \notin [of : Recording, done : BOOLEAN]

NoThread == [phase |-> "none", outcome |-> "recorded", cut |-> FALSE]

Idle == [at |-> "idle", of |-> None, reply |-> None]

Free(state) == state # None => state.done

RecorderInit ==
    /\ Init
    /\ pass = "flag"
    /\ shutdown = FALSE
    /\ thread = NoThread
    /\ current = None
    /\ manual = None
    /\ started = {}
    /\ asked = {}
    /\ signalled = {}
    /\ client = [c \in Clients |-> Idle]
    /\ late = {}

-----------------------------------------------------------------------------
(* The driver's pass.                                                      *)

(* Driver::start spawns the recording's thread; the thread's phase follows *)
(* from whether this step started one.                                     *)
Spawned ==
    thread' = IF running' \ running # {}
              THEN [NoThread EXCEPT !.phase = "looking"] ELSE thread

TakeStop ==
    /\ pass = "flag"
    /\ pass' = "collect"
    /\ IF running \cap asked # {}
       THEN AskStop /\ asked' = asked \ running
       ELSE UNCHANGED <<vars, asked>>
    /\ UNCHANGED <<shutdown, thread, current, manual, started, signalled,
                   client, late>>

(* collect_finished, and recording_finished with what it returned: the     *)
(* Running is dropped, and the flag it shared with the thread with it.     *)
Collect ==
    /\ pass = "collect"
    /\ pass' = "turn"
    /\ IF thread.phase = "done"
       THEN /\ \E r \in running : Finish(r, thread.outcome)
            /\ thread' = IF running' \ running # {}
                         THEN [NoThread EXCEPT !.phase = "looking"]
                         ELSE NoThread
       ELSE UNCHANGED <<vars, thread>>
    /\ UNCHANGED <<shutdown, current, manual, started, asked, signalled,
                   client, late>>

(* The rest of the pass: shut down once, or wait for the last recording,   *)
(* or take the next event from the watcher.                                *)
Turn ==
    /\ pass = "turn"
    /\ UNCHANGED <<shutdown, current, manual, started, asked, signalled, client>>
    /\ \/ /\ shutdown /\ ~manager.stopping
          /\ Stop
          /\ pass' = IF running = {} THEN "returned" ELSE "flag"
          /\ UNCHANGED <<thread, late>>
       \/ /\ manager.stopping
          /\ pass' = IF running = {} THEN "returned" ELSE "flag"
          /\ UNCHANGED <<vars, thread, late>>
       \/ /\ ~shutdown
          /\ pass' = "flag"
          /\ \/ Poll /\ UNCHANGED late
             \/ (\E l \in Launches : Launch(l)) /\ UNCHANGED late
             \/ \E p \in Pids : Exit(p) /\ late' = late \ {p}
          /\ Spawned

RecorderTick ==
    /\ pass # "returned"
    /\ Tick
    /\ UNCHANGED recorderVars

RequestShutdown ==
    /\ ~shutdown
    /\ shutdown' = TRUE
    /\ UNCHANGED <<vars, pass, thread, current, manual, started, asked,
                   signalled, client, late>>

-----------------------------------------------------------------------------
(* The recording's thread (attempt_with).                                  *)

ThreadStep(from, to) ==
    /\ thread.phase = from
    /\ thread' = to
    /\ UNCHANGED <<vars, pass, shutdown, manual, started, asked, signalled,
                   client, late>>

(* The command line and the settings make no configuration.                *)
NoConfig ==
    /\ ThreadStep("looking", [NoThread EXCEPT !.phase = "done",
                                              !.outcome = "failed"])
    /\ UNCHANGED current

NoWindow ==
    /\ ThreadStep("looking", [NoThread EXCEPT !.phase = "done",
                                              !.outcome = "no-window"])
    /\ UNCHANGED current

AdoptOver(r) == \* a mutant: adopts without looking at what is recording
    /\ ThreadStep("looking", [thread EXCEPT !.phase = "recording"])
    /\ current' = [of |-> r, done |-> FALSE]

(* A refusal is a recording that failed; a recording that has its outcome  *)
(* is replaced, whether or not somebody collected it.                      *)
Adopt(r) ==
    \/ /\ Free(current)
       /\ ThreadStep("looking", [thread EXCEPT !.phase = "recording"])
       /\ current' = [of |-> r, done |-> FALSE]
    \/ /\ ~Free(current)
       /\ ThreadStep("looking", [NoThread EXCEPT !.phase = "done",
                                                 !.outcome = "failed"])
       /\ UNCHANGED current

(* record() returns: it was signalled, or the capture ended by itself.     *)
CaptureEnds(outcome) ==
    /\ ThreadStep("recording", [phase |-> "ended", outcome |-> outcome,
                                cut |-> running \cap signalled # {}])
    /\ UNCHANGED current

ReleaseToClient(r) == \* a mutant: hands the outcome only to a waiting client
    /\ ThreadStep("ended", [thread EXCEPT !.phase = "done"])
    /\ \E c \in Clients : client[c].at = "waiting"
    /\ current' = IF current # None /\ current.of = r
                  THEN [current EXCEPT !.done = TRUE] ELSE current

(* Adopted::finished, which stores the outcome under the lock.             *)
Release(r) ==
    /\ ThreadStep("ended", [thread EXCEPT !.phase = "done"])
    /\ current' = IF current # None /\ current.of = r
                  THEN [current EXCEPT !.done = TRUE] ELSE current

ThreadNext ==
    \/ NoConfig \/ NoWindow
    \/ \E outcome \in Outcomes \ {"no-window"} : CaptureEnds(outcome)
    \/ \E r \in running : Adopt(r) \/ Release(r)

-----------------------------------------------------------------------------
(* RecordingState, called from the protocol's connection threads.          *)

StartManual(m) ==
    /\ Free(current)
    /\ m \notin started
    /\ current' = [of |-> m, done |-> FALSE]
    /\ manual' = m
    /\ started' = started \cup {m}
    /\ UNCHANGED <<vars, pass, shutdown, thread, asked, signalled, client, late>>

ManualEnds ==
    /\ manual # None
    /\ manual' = None
    /\ current' = IF current # None /\ current.of = manual
                  THEN [current EXCEPT !.done = TRUE] ELSE current
    /\ UNCHANGED <<vars, pass, shutdown, thread, started, asked, signalled,
                   client, late>>

ClientStep(c, from, to) ==
    /\ client[c].at = from
    /\ client' = [client EXCEPT ![c] = to]
    /\ UNCHANGED <<vars, pass, shutdown, thread, manual, started>>

(* stop's first critical section, in which the flag of a recording the     *)
(* driver started is raised.  A recording that ended is still there to be  *)
(* stopped until its outcome is collected or replaced.                     *)
BeginStop(c) ==
    /\ current # None
    /\ ClientStep(c, "idle", [at |-> "signal", of |-> current.of, reply |-> None])
    /\ asked' = asked \cup ({current.of} \ Manuals)
    /\ late' = IF current.of \in Manuals \cup running \/ current.of.pid \notin live
               THEN late ELSE late \cup {current.of.pid}
    /\ UNCHANGED <<current, signalled>>

Signal(c) ==
    /\ ClientStep(c, "signal", [client[c] EXCEPT !.at = "waiting"])
    /\ signalled' = signalled \cup {client[c].of}
    /\ UNCHANGED <<current, asked, late>>

(* The wait on the condition variable looks at whatever is current when it *)
(* has the lock again.                                                     *)
CollectOutcome(c) ==
    /\ Free(current)
    /\ ClientStep(c, "waiting",
                  [client[c] EXCEPT
                      !.at = "answered",
                      !.reply = IF current = None THEN None ELSE current.of])
    /\ current' = None
    /\ UNCHANGED <<asked, signalled, late>>

ClientNext ==
    \/ \E m \in Manuals : StartManual(m)
    \/ ManualEnds
    \/ \E c \in Clients : BeginStop(c) \/ Signal(c) \/ CollectOutcome(c)

RecorderNext ==
    \/ TakeStop \/ Collect \/ Turn
    \/ RecorderTick
    \/ RequestShutdown
    \/ ThreadNext
    \/ ClientNext

RecorderSpec == RecorderInit /\ [][RecorderNext]_allVars

(* A stop, whoever asked for it, ends the search for a window and the      *)
(* capture; what a thread does after that it does by itself.               *)
Told == running \cap (stopRaised \cup signalled) # {}

ThreadStops ==
    \/ Told /\ (NoWindow \/ \E o \in Outcomes \ {"no-window"} : CaptureEnds(o))
    \/ \E r \in running : Release(r)

ManualStops == manual \in signalled /\ ManualEnds

RecorderFairness ==
    /\ WF_allVars(TakeStop)
    /\ WF_allVars(Collect)
    /\ WF_allVars(Turn)
    /\ WF_allVars(ThreadStops)
    /\ WF_allVars(ManualStops)
    /\ \A c \in Clients : WF_allVars(Signal(c)) /\ WF_allVars(CollectOutcome(c))

FairRecorderSpec == RecorderSpec /\ RecorderFairness

-----------------------------------------------------------------------------
(* What holds, and what the code says and does not hold.                   *)

(* The types of the driver's and the shared state's fields.                *)
RecorderTypeOK ==
    /\ pass \in {"flag", "collect", "turn", "returned"}
    /\ shutdown \in BOOLEAN
    /\ thread \in [phase : {"none", "looking", "recording", "ended", "done"},
                   outcome : Outcomes, cut : BOOLEAN]
    /\ current \in [of : Recording, done : BOOLEAN] \cup {None}
    /\ manual \in Manuals \cup {None}
    /\ started \subseteq Manuals
    /\ asked \subseteq RecordingRequest
    /\ signalled \subseteq Recording
    /\ client \in [Clients -> [at : {"idle", "signal", "waiting", "answered"},
                               of : Recording \cup {None},
                               reply : Recording \cup {None}]]
    /\ late \subseteq Pids

(* One recording at a time is this process's rule whoever asked for it     *)
(* (`adopt`, `start`): the driver's thread and a start_recording never     *)
(* capture together.                                                       *)
OneCaptureAtATime == ~(thread.phase = "recording" /\ manual # None)

(* A recording held in `current` without an outcome has a thread that will *)
(* store one, or a stop would wait for ever (the doc of `Adopted`).        *)
CurrentHasAThread ==
    current # None /\ ~current.done =>
        \/ current.of = manual
        \/ current.of \in running /\ thread.phase \in {"recording", "ended"}

(* What the driver, its thread and the connections share is sound at every  *)
(* critical section: one capture, and nothing left to wait on for ever.     *)
RecorderIsSound == RecorderTypeOK /\ OneCaptureAtATime /\ CurrentHasAThread

(* Once shutdown is requested the driver returns, and by then the session  *)
(* is closed with every outcome in it.                                     *)
RecorderShutsDown == shutdown ~> (pass = "returned" /\ ~IsActive(manager))

(* A recording that the manager asked to stop is collected.                *)
AskedRecordingIsCollected ==
    (stopRaised # {}) ~> (stopRaised = {})

(* Whatever order the driver, its thread and the clients' stops take, what *)
(* was asked to end ends.                                                  *)
WhatIsAskedEnds == RecorderShutsDown /\ AskedRecordingIsCollected

(* watch.rs, before take_the_stop_the_user_asked_for: "a pass that sees    *)
(* the recording finished has already had a pass at the flag", because the *)
(* flag is raised before the signal.  Here, of a recording the signal      *)
(* ended.                                                                  *)
StopIsSeenBeforeItsOutcome ==
    [][\A r \in running \ running' : thread.cut => r \notin asked]_allVars

(* asked_to_stop_recording: a stop holds whatever order it and the outcome *)
(* arrive in.  Here, a stop that was accepted after the outcome arrived.   *)
LateStopHolds == [][\A r \in running' \ running : r.pid \notin late']_allVars

(* stop: it "stops the recording and waits for its file to be finished":   *)
(* a report it answers with is of the recording it stopped.                *)
ReplyIsOfTheRecordingStopped ==
    \A c \in Clients : client[c].reply \in {None, client[c].of}

=============================================================================
