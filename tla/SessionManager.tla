--------------------------- MODULE SessionManager ---------------------------
(***************************************************************************)
(* The policy that turns games starting and exiting into sittings with     *)
(* recordings in them: `SessionManager` in                                 *)
(* crates/session/src/automatic/mod.rs.                                    *)
(*                                                                         *)
(* The manager is a plain struct that its driver (apps/recorder watch.rs)  *)
(* calls from one thread.  Each public method is an operator from the      *)
(* manager before the call to the manager after it, so that a method that  *)
(* calls others is their composition, in the code's order.  The actions a  *)
(* call returns are left in the fields `starts` and `stops`.               *)
(*                                                                         *)
(* Around it stands what the driver and the machine do: the processes that *)
(* are alive, the recordings that run and have been asked to stop, and the *)
(* processes whose recording the user stopped.                             *)
(*                                                                         *)
(* The wall clock is a set of ages that Tick advances together, each held  *)
(* at the largest value a comparison in the code can tell apart, so a run  *)
(* is unbounded and its states are finite.                                 *)
(***************************************************************************)
EXTENDS Naturals, Sequences

CONSTANTS
    Games,                  \* what `is_same_game_as` tells apart
    Pids,                   \* process ids; one is reused after its exit
    Launches,               \* the matched launches the watcher may report
    Directories,            \* the recording directories a user may choose
    RestartGrace,           \* AutomaticSettings::restart_grace, in ticks
    RecordingRestartDelay,  \* AutomaticSettings::recording_restart_delay
    SuspendGap,             \* AutomaticSettings::suspend_gap
    MaxRecordings,          \* AutomaticSettings::max_recordings_per_session
    None                    \* Rust's None

(* A launch is what match_launch makes of a process group: the game, the   *)
(* process that is it, and its catalogued children.  `id` names the launch *)
(* and the session it would open (SessionId::new, a game and a time).      *)
ASSUME LaunchAssumption ==
    /\ Launches \subseteq [id : STRING, game : Games, pid : Pids,
                           children : SUBSET Pids]
    /\ \A l \in Launches : l.pid \notin l.children
    /\ \A l, k \in Launches : l.id = k.id => l = k

ASSUME SettingsAssumption ==
    /\ RestartGrace \in Nat
    /\ RecordingRestartDelay \in Nat
    /\ SuspendGap \in Nat \ {0}
    /\ MaxRecordings \in Nat

VARIABLES
    manager,    \* the SessionManager
    running,    \* the recordings started whose outcome has not been delivered
    stopRaised, \* those of them that have been asked to stop
    launched,   \* the launches reported so far
    live,       \* the processes reported alive and not yet reported gone
    askedFor    \* the live processes whose recording the user stopped

vars == <<manager, running, stopRaised, launched, live, askedFor>>

-----------------------------------------------------------------------------
(* The values of the manager's fields.                                     *)

SessionIds == {l.id : l \in Launches}

Outcomes == {"recorded", "target-resized", "no-window", "failed"}

(* SessionRecording: the directory its output path lies in, and whether it *)
(* has an outcome.                                                         *)
SessionRecording == [directory : Directories, ended : BOOLEAN]

Session == [id : SessionIds, game : Games,
            recordings : Seq(SessionRecording), ended : BOOLEAN]

Sidecar == [directory : Directories, session : Session]

Active == [session : Session,
           pid : Pids,
           alive : BOOLEAN,
           liveChildren : SUBSET Pids,
           recording : Nat \cup {None},
           stopping : BOOLEAN,
           dueIn : 0..RecordingRestartDelay \cup {None},
           idleFor : 0..RestartGrace \cup {None},
           startedRecordings : Nat,
           noWindow : BOOLEAN,
           stopAskedFor : BOOLEAN,
           limitReported : BOOLEAN]

MatchedLaunch == [id : SessionIds, game : Games, pid : Pids,
                  children : SUBSET Pids]

RecordingRequest == [session : SessionIds, index : Nat, pid : Pids]

(* `dueIn` and `idleFor` stand for pending_start and idle_since, `since`   *)
(* for the time since last_observed.  Before the first observation the     *)
(* manager holds nothing a resume could change, so `since` starts at 0.    *)
Manager == [active : Active \cup {None},
            deferred : Seq(MatchedLaunch),
            since : 0..SuspendGap,
            stopping : BOOLEAN,
            directory : Directories,
            pendingDirectory : Directories \cup {None},
            sidecars : [SessionIds -> Sidecar \cup {None}],
            starts : SUBSET RecordingRequest,
            stops : SUBSET RecordingRequest]

ASSUME NoneAssumption ==
    /\ None \notin Nat
    /\ None \notin Directories
    /\ None \notin Active
    /\ None \notin Sidecar

-----------------------------------------------------------------------------
(* The manager's methods.                                                  *)

IsActive(m) == m.active # None

Request(a) == [session |-> a.session.id, index |-> a.recording, pid |-> a.pid]

Persist(m) ==
    [m EXCEPT !.sidecars[m.active.session.id] =
        [directory |-> m.directory, session |-> m.active.session]]

(* The recording a StopRecording action names, when one runs and has not   *)
(* been asked before.                                                      *)
AskToStop(m) ==
    IF m.active.recording # None /\ ~m.active.stopping
    THEN [m EXCEPT !.active.stopping = TRUE,
                   !.stops = @ \cup {Request(m.active)}]
    ELSE m

(* The open session with its next recording begun.                         *)
Begun(m) ==
    LET index == m.active.startedRecordings + 1
    IN  [m.active EXCEPT
            !.dueIn = None,
            !.startedRecordings = index,
            !.recording = index,
            !.session.recordings =
                Append(@, [directory |-> m.directory, ended |-> FALSE])]

AtLimit(m) == m.active.startedRecordings >= MaxRecordings

BeginRecording(m) ==
    IF AtLimit(m)
    THEN Persist([m EXCEPT !.active.dueIn = None, !.active.limitReported = TRUE])
    ELSE Persist([m EXCEPT !.active = Begun(m),
                           !.starts = @ \cup {Request(Begun(m))}])

StartSession(m, l) ==
    BeginRecording([m EXCEPT !.active =
        [session |-> [id |-> l.id, game |-> l.game,
                      recordings |-> <<>>, ended |-> FALSE],
         pid |-> l.pid,
         alive |-> TRUE,
         liveChildren |-> l.children,
         recording |-> None,
         stopping |-> FALSE,
         dueIn |-> None,
         idleFor |-> None,
         startedRecordings |-> 0,
         noWindow |-> FALSE,
         stopAskedFor |-> FALSE,
         limitReported |-> FALSE]])

TakeHeldBackDirectory(m) ==
    IF m.pendingDirectory = None
    THEN m
    ELSE [m EXCEPT !.directory = m.pendingDirectory,
                   !.pendingDirectory = None]

(* take(), end, persist, SessionEnded, the directory held back, and then   *)
(* the newest of the games that launched meanwhile.                        *)
CloseActive(m) ==
    LET ended  == Persist([m EXCEPT !.active.session.ended = TRUE])
        closed == TakeHeldBackDirectory([ended EXCEPT !.active = None])
        n      == Len(m.deferred)
    IN  IF m.stopping \/ n = 0
        THEN closed
        ELSE StartSession([closed EXCEPT !.deferred = SubSeq(@, 1, n - 1)],
                          m.deferred[n])

Resumed(m) ==
    LET forgotten == [m EXCEPT !.deferred = <<>>]
    IN  IF ~IsActive(m) THEN forgotten
        ELSE IF m.active.recording = None /\ m.active.idleFor # None
        THEN CloseActive(Persist(forgotten))
        ELSE Persist(AskToStop(forgotten))

CloseExpired(m) ==
    IF IsActive(m) /\ m.active.idleFor = RestartGrace THEN CloseActive(m) ELSE m

BeginDue(m) ==
    IF IsActive(m) /\ m.active.dueIn = 0 THEN BeginRecording(m) ELSE m

Advance(m) ==
    LET observed == [m EXCEPT !.since = 0]
        awake == IF m.since = SuspendGap THEN Resumed(observed) ELSE observed
    IN  IF m.stopping THEN awake ELSE BeginDue(CloseExpired(awake))

(* The open session, of the same game's new process.                       *)
Rejoined(m, l) ==
    Persist([m EXCEPT !.active = [@ EXCEPT !.pid = l.pid,
                                           !.alive = TRUE,
                                           !.liveChildren = l.children,
                                           !.idleFor = None,
                                           !.noWindow = FALSE,
                                           !.stopAskedFor = FALSE]])

RejoinInGrace(m, l) == \* a mutant: idle_since is not reset
    BeginRecording([Rejoined(m, l) EXCEPT !.active.idleFor = m.active.idleFor])

RejoinAtOnce(m, l) == \* a mutant: records over a recording still finalising
    BeginRecording(Rejoined(m, l))

Rejoin(m, l) ==
    IF m.active.recording = None
    THEN BeginRecording(Rejoined(m, l))
    ELSE Rejoined(m, l)

(* deferred.retain(|waiting| waiting.pid != pid): a pid waits at most once, *)
(* because Defer drops it before it appends it.                            *)
Without(waiting, p) ==
    IF \E i \in DOMAIN waiting : waiting[i].pid = p
    THEN LET i == CHOOSE i \in DOMAIN waiting : waiting[i].pid = p
         IN  SubSeq(waiting, 1, i - 1) \o SubSeq(waiting, i + 1, Len(waiting))
    ELSE waiting

Defer(m, l) ==
    [Persist(m) EXCEPT !.deferred = Append(Without(@, l.pid), l)]

Launched(m, l) ==
    IF ~IsActive(m) THEN StartSession(m, l)
    ELSE IF ~m.active.alive /\ m.active.session.game = l.game THEN Rejoin(m, l)
    ELSE Defer(m, l)

SubjectExited(m) ==
    LET gone == Persist([m EXCEPT !.active.alive = FALSE, !.active.dueIn = None])
    IN  IF m.active.recording # None THEN AskToStop(gone)
        ELSE IF m.active.liveChildren = {}
        THEN [gone EXCEPT !.active.idleFor = 0]
        ELSE gone

ChildExited(m, p) ==
    LET left == [m EXCEPT !.active.liveChildren = @ \ {p}]
        a    == left.active
    IN  IF /\ p \in m.active.liveChildren
           /\ ~a.alive
           /\ a.recording = None
           /\ a.liveChildren = {}
           /\ a.idleFor = None
        THEN [left EXCEPT !.active.idleFor = 0]
        ELSE left

OnlySubjectsInformed(waiting, p) == \* a mutant: a helper's exit is lost
    Without(waiting, p)

(* Every deferred game hears of the exit: it goes, or its child does.      *)
Informed(waiting, p) ==
    LET left == Without(waiting, p)
    IN  [i \in DOMAIN left |-> [left[i] EXCEPT !.children = @ \ {p}]]

Exited(m, p) ==
    LET informed == [m EXCEPT !.deferred = Informed(@, p)]
    IN  IF ~IsActive(m) THEN informed
        ELSE IF m.active.pid = p /\ m.active.alive THEN SubjectExited(informed)
        ELSE ChildExited(informed, p)

LaunchAnyway(m, l) == \* a mutant: a launch is taken while shutting down
    Launched(Advance(m), l)

ObserveLaunched(m, l) ==
    IF m.stopping THEN Advance(m) ELSE Launched(Advance(m), l)

ObserveExited(m, p) ==
    IF m.stopping THEN Advance(m) ELSE Exited(Advance(m), p)

RestartAfterResizeOnly(outcome) == \* a mutant: other endings schedule nothing
    IF outcome = "target-resized" THEN 0 ELSE None

RestartDelayAfter(outcome) ==
    IF outcome = "target-resized" THEN 0 ELSE RecordingRestartDelay

(* What an outcome does to the open session's account of its recordings.   *)
OutcomeArrived(a, outcome) ==
    [a EXCEPT !.recording = None,
              !.stopping = FALSE,
              !.noWindow = @ \/ outcome = "no-window",
              !.session.recordings[a.recording].ended = TRUE]

(* Everything recording_finished does before the session may close and the *)
(* clock is consulted.                                                     *)
EndRecording(m, outcome) ==
    LET a == OutcomeArrived(m.active, outcome)
        done == Persist([m EXCEPT !.active = a])
    IN  IF m.stopping THEN done
        ELSE IF a.alive /\ ~a.noWindow /\ ~a.stopAskedFor
        THEN [done EXCEPT !.active.dueIn = RestartDelayAfter(outcome)]
        ELSE IF ~a.alive /\ a.liveChildren = {}
        THEN [done EXCEPT !.active.idleFor = 0]
        ELSE done

Expects(m, r) ==
    /\ IsActive(m)
    /\ m.active.session.id = r.session
    /\ m.active.recording = r.index

RecordingFinished(m, r, outcome) ==
    IF ~Expects(m, r) THEN Advance(m)
    ELSE LET done == EndRecording(m, outcome)
         IN  Advance(IF m.stopping THEN CloseActive(done) ELSE done)

AskedTooLate(m) == \* a mutant: a restart already scheduled is kept
    IF IsActive(m) THEN [m EXCEPT !.active.stopAskedFor = TRUE] ELSE m

AskedToStopRecording(m) ==
    IF IsActive(m)
    THEN [m EXCEPT !.active.stopAskedFor = TRUE, !.active.dueIn = None]
    ELSE m

ShutDownUnowed(m) == \* a mutant: only a recording it stops itself is waited for
    LET halted == [m EXCEPT !.stopping = TRUE, !.deferred = <<>>]
    IN  IF ~IsActive(m) THEN halted
        ELSE IF m.active.recording = None \/ m.active.stopping
        THEN CloseActive(halted)
        ELSE AskToStop([halted EXCEPT !.active.dueIn = None])

(* A recording that was already asked to stop still owes its outcome, and  *)
(* the session waits for it.                                               *)
ShutDown(m) ==
    LET halted == [m EXCEPT !.stopping = TRUE, !.deferred = <<>>]
    IN  IF ~IsActive(m) THEN halted
        ELSE IF m.active.recording = None THEN CloseActive(halted)
        ELSE AskToStop([halted EXCEPT !.active.dueIn = None])

SetRecordingDirectory(m, d) ==
    IF d = m.directory THEN [m EXCEPT !.pendingDirectory = None]
    ELSE IF IsActive(m) THEN [m EXCEPT !.pendingDirectory = d]
    ELSE [m EXCEPT !.directory = d]

(* One tick of the wall clock.                                             *)
Older(age, most) == IF age \in Nat /\ age < most THEN age + 1 ELSE age

Nearer(due) == IF due \in Nat /\ due > 0 THEN due - 1 ELSE due

Aged(m) ==
    LET older == [m EXCEPT !.since = Older(@, SuspendGap)]
    IN  IF ~IsActive(m) THEN older
        ELSE [older EXCEPT !.active.idleFor = Older(@, RestartGrace),
                           !.active.dueIn = Nearer(@)]

-----------------------------------------------------------------------------
(* The driver's calls, and what the machine does between them.             *)

(* The driver applies a call's actions before it makes another.            *)
Call(m, over) ==
    /\ manager' = m
    /\ running' = (running \ over) \cup m.starts
    /\ stopRaised' = (stopRaised \ over) \cup m.stops

Fresh == [manager EXCEPT !.starts = {}, !.stops = {}]

Init ==
    /\ \E d \in Directories :
        manager = [active |-> None, deferred |-> <<>>, since |-> 0,
                   stopping |-> FALSE, directory |-> d,
                   pendingDirectory |-> None,
                   sidecars |-> [id \in SessionIds |-> None],
                   starts |-> {}, stops |-> {}]
    /\ running = {}
    /\ stopRaised = {}
    /\ launched = {}
    /\ live = {}
    /\ askedFor = {}

Tick ==
    /\ manager' = Aged(Fresh)
    /\ UNCHANGED <<running, stopRaised, launched, live, askedFor>>

Poll ==
    /\ Call(Advance(Fresh), {})
    /\ UNCHANGED <<launched, live, askedFor>>

(* A process id is reported again only after its exit was.                 *)
Launch(l) ==
    /\ l \notin launched
    /\ ({l.pid} \cup l.children) \cap live = {}
    /\ Call(ObserveLaunched(Fresh, l), {})
    /\ launched' = launched \cup {l}
    /\ live' = live \cup {l.pid} \cup l.children
    /\ UNCHANGED askedFor

Exit(p) ==
    /\ p \in live
    /\ Call(ObserveExited(Fresh, p), {})
    /\ live' = live \ {p}
    /\ askedFor' = askedFor \ {p}
    /\ UNCHANGED launched

(* A recording ends because it was asked to, or for a reason of its own.   *)
Finish(r, outcome) ==
    /\ r \in running
    /\ Call(RecordingFinished(Fresh, r, outcome), {r})
    /\ UNCHANGED <<launched, live, askedFor>>

(* The driver learns of the user's stop at the top of a pass, which may be *)
(* before or after the outcome that stop produced.                         *)
AskStop ==
    /\ Call(AskedToStopRecording(Fresh), {})
    /\ askedFor' = IF IsActive(manager) /\ manager.active.alive
                   THEN askedFor \cup {manager.active.pid} ELSE askedFor
    /\ UNCHANGED <<launched, live>>

Stop ==
    /\ ~manager.stopping
    /\ Call(ShutDown(Fresh), {})
    /\ UNCHANGED <<launched, live, askedFor>>

ChooseDirectory(d) ==
    /\ Call(SetRecordingDirectory(Fresh, d), {})
    /\ UNCHANGED <<launched, live, askedFor>>

Next ==
    \/ Tick
    \/ Poll
    \/ \E l \in Launches : Launch(l)
    \/ \E p \in Pids : Exit(p)
    \/ \E r \in running, outcome \in Outcomes : Finish(r, outcome)
    \/ AskStop
    \/ Stop
    \/ \E d \in Directories : ChooseDirectory(d)

Spec == Init /\ [][Next]_vars

(* Time passes, the driver's loop turns at least once a second             *)
(* (POLL_INTERVAL), and a recording that was asked to stop stops.             *)
FinishAsked == \E r \in stopRaised, outcome \in Outcomes : Finish(r, outcome)

Fairness == WF_vars(Tick) /\ WF_vars(Poll) /\ WF_vars(FinishAsked)

FairSpec == Spec /\ Fairness

-----------------------------------------------------------------------------
(* What holds.                                                             *)

(* Every field has the type of the struct's field.                         *)
TypeOK ==
    /\ manager \in Manager
    /\ running \subseteq RecordingRequest
    /\ stopRaised \subseteq RecordingRequest
    /\ launched \subseteq Launches
    /\ live \subseteq Pids
    /\ askedFor \subseteq Pids

(* There is one encoder.  What runs is the one recording the open session  *)
(* waits for, and what it waits for runs: nothing is opened or recorded    *)
(* over a running recording, no session ends before its recording does,    *)
(* and no session waits for nothing (begin_recording, rejoin,              *)
(* close_active).                                                          *)
OneEncoder ==
    /\ \A r \in running : Expects(manager, r)
    /\ \A r, s \in running : r = s
    /\ IsActive(manager) /\ manager.active.recording # None => running # {}

(* The manager's fields and the driver's ledger have their types, and there *)
(* is one encoder: no method reads an optional field it left unset, and    *)
(* none begins, or closes, over a running recording.                       *)
ManagerIsSound == TypeOK /\ OneEncoder

(* A session on disk that says it ended has an outcome for each of its     *)
(* recordings (shut_down's `owed_an_outcome`).                             *)
EndedSessionsOweNothing ==
    \A id \in SessionIds :
        LET s == manager.sidecars[id] IN
        s # None /\ s.session.ended =>
            \A i \in DOMAIN s.session.recordings : s.session.recordings[i].ended

(* What is on disk names every recording that runs, in the directory its   *)
(* file is in: a crash at any moment leaves a record the next start can    *)
(* reconcile (persist before StartRecording is returned).                  *)
RunningIsOnDisk ==
    \A r \in running :
        LET s == manager.sidecars[r.session] IN
        /\ s # None
        /\ ~s.session.ended
        /\ r.index \in DOMAIN s.session.recordings
        /\ ~s.session.recordings[r.index].ended

(* A sitting's record and its recordings lie in one directory, whatever    *)
(* directories the user chooses meanwhile (set_recording_directory).       *)
OneDirectoryPerSitting ==
    \A id \in SessionIds :
        LET s == manager.sidecars[id] IN
        s # None =>
            \A i \in DOMAIN s.session.recordings :
                s.session.recordings[i].directory = s.directory

(* The record on disk agrees with what runs and with what has ended.        *)
RecordAgrees == EndedSessionsOweNothing /\ RunningIsOnDisk /\ OneDirectoryPerSitting

(* Every process the manager tracks is alive: an exit is reported once, so *)
(* one that a deferred game or the open session missed could never be      *)
(* accounted for (the doc of `exited`).                                    *)
TrackedProcessesLive ==
    ~manager.stopping =>
        /\ IsActive(manager) =>
            /\ manager.active.alive => manager.active.pid \in live
            /\ manager.active.liveChildren \subseteq live
        /\ \A i \in DOMAIN manager.deferred :
            {manager.deferred[i].pid} \cup manager.deferred[i].children
                \subseteq live

(* An open session always has a next step.  One with nothing left to wait  *)
(* for is inside its grace, and only then; and a game that still runs,     *)
(* whose recording ended and was not stopped by the user, is due another:  *)
(* no session stays open for ever and no game is forgotten while it is     *)
(* played (`idle_since` and `pending_start`, as exited, resumed, rejoin    *)
(* and recording_finished leave them).                                     *)
NothingIsForgotten ==
    IsActive(manager) /\ ~manager.stopping =>
        LET a == manager.active IN
        /\ (a.idleFor # None)
            <=> (~a.alive /\ a.recording = None /\ a.liveChildren = {})
        /\ a.alive /\ a.recording = None /\ ~a.noWindow
                /\ ~a.stopAskedFor /\ ~a.limitReported
            => a.dueIn # None

(* No process and no open session is left without whoever accounts for it.  *)
AllAreAccountedFor == TrackedProcessesLive /\ NothingIsForgotten

(* Once the user stopped the recording of a process, no recording of that  *)
(* process starts, whichever of the stop and the outcome arrives first     *)
(* (asked_to_stop_recording, "so that the order the two arrive in cannot   *)
(* decide whether the stop holds").                                        *)
StopHolds ==
    [][\A r \in running' \ running : r.pid \notin askedFor']_vars

(* Nothing starts after the recorder began to shut down.                   *)
NothingStartsAfterShutDown == [][manager.stopping => running' \subseteq running]_vars

(* Short of a shutdown a session ends only once its game is gone, and      *)
(* after its grace or a suspend: a game that comes back in time is one     *)
(* sitting.  Where the grace is zero there is none to wait out, and the    *)
(* outcome of its last recording ends it.                                  *)
EndsOnlyAfterGrace ==
    [][IsActive(manager) /\ ~manager.stopping /\ ~manager'.stopping
        /\ manager'.sidecars[manager.active.session.id].session.ended
        => /\ ~manager.active.alive
           /\ \/ manager.active.idleFor = RestartGrace
              \/ manager.since = SuspendGap
              \/ RestartGrace = 0]_vars

(* A session whose processes are all gone ends, unless something starts.   *)
(* This is what a missed exit would break, and with it every later game.   *)
DeadSessionEnds ==
    \A id \in SessionIds :
        (IsActive(manager) /\ manager.active.session.id = id /\ live = {})
            ~> (live # {} \/ ~IsActive(manager)
                \/ manager.active.session.id # id)

(* A game that is played and should be recorded is recorded again, unless  *)
(* its recordings are spent, the user stopped it, or it goes.              *)
Neglected(id) ==
    /\ IsActive(manager) /\ ~manager.stopping
    /\ manager.active.session.id = id
    /\ manager.active.alive
    /\ manager.active.recording = None
    /\ ~manager.active.noWindow
    /\ ~manager.active.stopAskedFor
    /\ ~manager.active.limitReported

LiveGameIsRecorded == \A id \in SessionIds : Neglected(id) ~> ~Neglected(id)

=============================================================================
