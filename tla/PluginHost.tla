----------------------------- MODULE PluginHost -----------------------------
(* The plug-ins of one recording: their processes, the threads that read    *)
(* them, the bounded queue, the supervisor (crates/plugins/src) and the     *)
(* thread that runs it (crates/session/src/plugins/mod.rs), beside the      *)
(* driver that takes what they report (apps/recorder/src/watch.rs).         *)
(*                                                                          *)
(* A line in a plug-in's output is what the reader makes of it.  A reader   *)
(* is never joined: what is left in the pipe of a process that was let go   *)
(* (`stray`) is still delivered, and charged to nobody.  Moments are ages,  *)
(* counted as far as a comparison tells them apart.  What a problem says,   *)
(* and the reports put in front of the user, are left out.                  *)
EXTENDS Integers, Sequences, FiniteSets

CONSTANTS
    Plugins,
    Capacity,        \* inbox::DEFAULT_CAPACITY
    MaxKept,         \* MAX_KEPT_EVENTS
    DroppedBudget, FaultBudget, Attempts, \* SupervisionPolicy, as the next two
    HelloTimeout, SilenceTimeout, SettledAfter, StopGrace,
    RestartDelay,    \* delay_before: doubled from first_delay up to maximum_delay
    PollInterval,    \* POLL_INTERVAL
    PipeRoom,        \* lines a pipe takes before the plug-in waits
    MaxLines         \* bounds what the plug-ins say

ASSUME PolicyAssumption ==
    /\ IsFiniteSet(Plugins)
    /\ {Capacity, HelloTimeout, SilenceTimeout, SettledAfter} \subseteq Nat \ {0}
    /\ {MaxKept, DroppedBudget, FaultBudget, Attempts, StopGrace, PollInterval,
        PipeRoom, MaxLines} \subseteq Nat
    /\ RestartDelay \in [1..Attempts -> Nat]

VARIABLES
    plugin,    \* SupervisedPlugin, but for its process
    child,     \* PluginProcess and the state its reader shares
    pipe,      \* what each process wrote and its reader has not read
    stray,     \* events in the pipes of processes that were let go
    inbox,     \* the queue and its counters
    runner,    \* the thread that owns the supervisor
    collected, \* Collected
    stopping,  \* Shared::stopping
    epoch,     \* the recording has published its first frame
    driver,    \* the recording's end, as the driver goes through it
    session,   \* events put on the session
    said,      \* lines written so far
    tries      \* history: starts of a plug-in since one that settled

vars == <<plugin, child, pipe, stray, inbox, runner, collected, stopping, epoch,
          driver, session, said, tries>>
supervised == <<plugin, child, pipe, stray, tries>>
outside == <<collected, stopping, epoch, driver, session, said>>

NoChild == [life |-> "none", hello |-> "none", dropped |-> 0, faults |-> 0,
            quiet |-> 0, up |-> 0]

Init ==
    /\ plugin = [p \in Plugins |-> [state |-> "absent", used |-> 0, due |-> 0,
                                    dropped |-> 0, faults |-> 0]]
    /\ child = [p \in Plugins |-> NoChild] /\ pipe = [p \in Plugins |-> <<>>]
    /\ stray = 0
    /\ inbox = [queued |-> 0, delivered |-> 0, dropped |-> 0, open |-> TRUE]
    /\ runner = [at |-> "waiting", hand |-> 0, left |-> {}, on |-> {}, look |-> NoChild,
                 detached |-> FALSE, asked |-> 0]
    /\ collected = [events |-> 0, lost |-> 0, dropped |-> 0]
    /\ stopping = FALSE /\ epoch = FALSE /\ driver = "recording"
    /\ session = 0 /\ said = 0 /\ tries = [p \in Plugins |-> 0]

-----------------------------------------------------------------------------
(* The plug-ins, and the threads that read them.                            *)

Reports == {"hello", "wrongContract", "alive", "event"}
Unusable == {"refused", "unreadable"}

Says(p, line) ==
    /\ child[p].life = "alive" /\ Len(pipe[p]) < PipeRoom /\ said < MaxLines
    /\ pipe' = [pipe EXCEPT ![p] = Append(@, line)] /\ said' = said + 1
    /\ UNCHANGED <<plugin, child, stray, inbox, runner, collected, stopping,
                   epoch, driver, session, tries>>

(* It crashes, or does as it was asked.                                     *)
Exits(p) ==
    /\ child[p].life = "alive"
    /\ child' = [child EXCEPT ![p].life = "exited"]
    /\ UNCHANGED <<plugin, pipe, stray, inbox, runner, outside, tries>>

Takes == inbox.open /\ inbox.queued < Capacity

(* EventInbox::deliver: never waits.                                        *)
Delivered ==
    IF Takes THEN [inbox EXCEPT !.queued = @ + 1, !.delivered = @ + 1]
    ELSE [inbox EXCEPT !.dropped = @ + 1]

(* What a line makes of the reader's state; one that cannot be read is no   *)
(* sign of life.                                                            *)
Heard(c, line) ==
    LET alive == IF line = "unreadable" THEN c ELSE [c EXCEPT !.quiet = 0]
    IN  IF line \in Unusable THEN [alive EXCEPT !.faults = @ + 1]
        ELSE IF line = "event" /\ ~Takes THEN [alive EXCEPT !.dropped = @ + 1]
        ELSE IF line \in {"hello", "wrongContract"} THEN [alive EXCEPT !.hello = line]
        ELSE alive

Reads(p) ==
    /\ pipe[p] # <<>>
    /\ child' = [child EXCEPT ![p] = Heard(@, Head(pipe[p]))]
    /\ inbox' = IF Head(pipe[p]) = "event" THEN Delivered ELSE inbox
    /\ pipe' = [pipe EXCEPT ![p] = Tail(@)]
    /\ UNCHANGED <<plugin, stray, runner, outside, tries>>

ReadsStray ==
    /\ stray > 0 /\ stray' = stray - 1 /\ inbox' = Delivered
    /\ UNCHANGED <<plugin, child, pipe, runner, outside, tries>>

-----------------------------------------------------------------------------
(* The supervisor's decisions.                                              *)

AtMost(a, b) == IF a < b THEN a ELSE b

(* Mutant: the attempt is not written down.                                 *)
ReplacedUncounted(q, settled) ==
    LET used == IF settled THEN 0 ELSE q.used
    IN  IF used < Attempts
        THEN [q EXCEPT !.state = "waiting", !.used = used, !.due = RestartDelay[used + 1]]
        ELSE [q EXCEPT !.state = "disabled", !.used = used]

(* RestartLedger::troubled, and what give_up_or_replace makes of it.        *)
Replaced(q, settled) ==
    LET used == IF settled THEN 0 ELSE q.used
    IN  IF used < Attempts
        THEN [q EXCEPT !.state = "waiting", !.used = used + 1, !.due = RestartDelay[used + 1]]
        ELSE [q EXCEPT !.state = "disabled", !.used = used]

(* Supervising::start.                                                      *)
Starts(p) ==
    /\ tries' = [tries EXCEPT ![p] = @ + 1]
    /\ \/ /\ child' = [child EXCEPT ![p] = [NoChild EXCEPT !.life = "alive"]]
          /\ plugin' = [plugin EXCEPT ![p].state = "starting"]
       \/ plugin' = [plugin EXCEPT ![p] = Replaced(@, FALSE)] /\ UNCHANGED child
    /\ UNCHANGED <<pipe, stray>>

EventsIn(lines) == Cardinality({i \in DOMAIN lines : lines[i] = "event"})

(* The process is killed or has ended; its reader goes on with what is left. *)
LetsGo(p, q) ==
    /\ plugin' = [plugin EXCEPT ![p] = q]
    /\ child' = [child EXCEPT ![p] = NoChild]
    /\ pipe' = [pipe EXCEPT ![p] = <<>>]
    /\ stray' = stray + EventsIn(pipe[p])

(* stop_and_recover: what the process lost is counted after it was killed.  *)
Recovers(p, restartable) ==
    LET settled == child[p].up >= SettledAfter
        q == [plugin[p] EXCEPT !.dropped = @ + child[p].dropped,
                               !.faults = @ + child[p].faults]
    IN  /\ LetsGo(p, IF restartable THEN Replaced(q, settled)
                     ELSE [q EXCEPT !.state = "disabled"])
        /\ tries' = [tries EXCEPT ![p] = IF restartable /\ settled THEN 0 ELSE @]

(* examine_running, in its order: `look` is what the reader had seen.       *)
NeverStarted(look) == look.hello = "none" /\ look.up >= HelloTimeout
Final(look) ==
    \/ look.hello = "wrongContract"
    \/ /\ ~NeverStarted(look)
       /\ look.dropped > DroppedBudget \/ look.faults > FaultBudget
Silent(look) == look.hello # "none" /\ look.quiet >= SilenceTimeout

(* Mutant: silence is the one question asked.                               *)
JudgesSilence(p, look) ==
    IF child[p].life = "exited" THEN Recovers(p, TRUE)
    ELSE IF Final(look) THEN Recovers(p, FALSE)
    ELSE IF Silent(look) THEN Recovers(p, TRUE)
    ELSE /\ plugin' = [plugin EXCEPT ![p].state =
                          IF look.hello = "none" THEN @ ELSE "running"]
         /\ UNCHANGED <<child, pipe, stray, tries>>

Judges(p, look) ==
    IF child[p].life = "exited" THEN Recovers(p, TRUE)
    ELSE IF Final(look) THEN Recovers(p, FALSE)
    ELSE IF NeverStarted(look) \/ Silent(look) THEN Recovers(p, TRUE)
    ELSE /\ plugin' = [plugin EXCEPT ![p].state =
                          IF look.hello = "none" THEN @ ELSE "running"]
         /\ UNCHANGED <<child, pipe, stray, tries>>

-----------------------------------------------------------------------------
(* The runner.                                                              *)

Goes(place) == runner' = [runner EXCEPT !.at = place]

(* wait_for_the_recordings_timeline: asked to stop, it looks once more.     *)
SeesEpoch ==
    /\ runner.at = "waiting" /\ epoch
    /\ runner' = [runner EXCEPT !.at = "attaching", !.left = Plugins]
    /\ UNCHANGED <<supervised, inbox, outside>>

EndsWithoutFrame ==
    /\ runner.at = "waiting" /\ stopping /\ ~epoch /\ Goes("gone")
    /\ inbox' = [inbox EXCEPT !.open = FALSE]
    /\ UNCHANGED <<supervised, outside>>

Attaches(p) ==
    /\ runner.at = "attaching" /\ p \in runner.left
    /\ Starts(p) /\ runner' = [runner EXCEPT !.left = @ \ {p}]
    /\ UNCHANGED <<inbox, outside>>

Rests ==
    /\ runner.at = "attaching" /\ runner.left = {} /\ Goes("resting")
    /\ UNCHANGED <<supervised, inbox, outside>>

(* Mutant: a plug-in that waits for its replacement goes on waiting.        *)
DetachesRunning ==
    /\ runner.at = "resting" /\ stopping
    /\ plugin' = [p \in Plugins |-> [plugin[p] EXCEPT !.state =
                     IF child[p].life # "none" THEN "stopping" ELSE @]]
    /\ runner' = [runner EXCEPT !.at = "draining", !.detached = TRUE]
    /\ UNCHANGED <<child, pipe, stray, tries, inbox, outside>>

(* PluginSupervisor::detach.                                                *)
Detaches ==
    /\ runner.at = "resting" /\ stopping
    /\ plugin' = [p \in Plugins |-> [plugin[p] EXCEPT !.state =
                     IF child[p].life # "none" THEN "stopping" ELSE "stopped"]]
    /\ runner' = [runner EXCEPT !.at = "draining", !.detached = TRUE]
    /\ UNCHANGED <<child, pipe, stray, tries, inbox, outside>>

TurnBegins ==
    /\ runner.at = "resting" /\ ~stopping /\ Goes("draining")
    /\ UNCHANGED <<supervised, inbox, outside>>

(* EventReceiver::drain: what arrives meanwhile too, up to one queue.       *)
Drains ==
    /\ runner.at = "draining" /\ inbox.queued > 0 /\ runner.hand < Capacity
    /\ inbox' = [inbox EXCEPT !.queued = @ - 1]
    /\ runner' = [runner EXCEPT !.hand = @ + 1]
    /\ UNCHANGED <<supervised, outside>>

PollBegins ==
    /\ runner.at = "draining" /\ (inbox.queued = 0 \/ runner.hand = Capacity)
    /\ runner' = [runner EXCEPT !.at = "polling", !.left = Plugins]
    /\ UNCHANGED <<supervised, inbox, outside>>

Examined(p) == runner' = [runner EXCEPT !.at = "polling", !.left = @ \ {p},
                                        !.on = {}, !.look = NoChild]

(* A plug-in that is supposed to be working is looked at, and then judged   *)
(* by what was seen; meanwhile its reader goes on, and it may exit.         *)
Looks(p) ==
    /\ runner.at = "polling" /\ p \in runner.left
    /\ plugin[p].state \in {"starting", "running"}
    /\ runner' = [runner EXCEPT !.at = "judging", !.on = {p}, !.look = child[p]]
    /\ UNCHANGED <<supervised, inbox, outside>>

JudgesWhatItSaw(p) ==
    /\ runner.at = "judging" /\ p \in runner.on
    /\ Judges(p, runner.look) /\ Examined(p)
    /\ UNCHANGED <<inbox, outside>>

ExaminesWaiting(p) ==
    /\ runner.at = "polling" /\ p \in runner.left /\ plugin[p].state = "waiting"
    /\ IF plugin[p].due = 0 THEN Starts(p) ELSE UNCHANGED supervised
    /\ Examined(p) /\ UNCHANGED <<inbox, outside>>

(* One that was asked to stop is let go when it has, or has had its grace;   *)
(* what this process lost is not added to what the others did.              *)
ExaminesStopping(p) ==
    /\ runner.at = "polling" /\ p \in runner.left /\ plugin[p].state = "stopping"
    /\ IF child[p].life = "exited" \/ runner.asked >= StopGrace
       THEN LetsGo(p, [plugin[p] EXCEPT !.state = "stopped"]) /\ UNCHANGED tries
       ELSE UNCHANGED supervised
    /\ Examined(p) /\ UNCHANGED <<inbox, outside>>

ExaminesEnded(p) ==
    /\ runner.at = "polling" /\ p \in runner.left
    /\ plugin[p].state \in {"stopped", "disabled"}
    /\ Examined(p) /\ UNCHANGED <<supervised, inbox, outside>>

(* The end of a turn, under the lock the driver takes events with.          *)
Publishes ==
    /\ runner.at = "polling" /\ runner.left = {}
    /\ LET room == AtMost(runner.hand, MaxKept - collected.events)
       IN  collected' = [events |-> collected.events + room,
                         lost |-> collected.lost + runner.hand - room,
                         dropped |-> inbox.dropped]
    /\ runner' = [runner EXCEPT !.hand = 0, !.at = "checking"]
    /\ UNCHANGED <<supervised, inbox, stopping, epoch, driver, session, said>>

AllStopped == \A p \in Plugins : plugin[p].state \in {"stopped", "disabled"}

(* After a turn: rest, or, once detached, another one or the end.           *)
TurnEnds ==
    /\ runner.at = "checking" /\ ~runner.detached /\ Goes("resting")
    /\ UNCHANGED <<supervised, inbox, outside>>

(* Runner::finish, in its loop.                                             *)
ChecksEnd ==
    /\ runner.at = "checking" /\ runner.detached
    /\ IF AllStopped \/ runner.asked >= StopGrace + PollInterval
       THEN Goes("leaving") /\ collected' = [collected EXCEPT !.dropped = inbox.dropped]
       ELSE Goes("draining") /\ UNCHANGED collected
    /\ UNCHANGED <<supervised, inbox, stopping, epoch, driver, session, said>>

(* The supervisor and the receiver are dropped: what still runs is killed,  *)
(* and what is still queued goes with the queue.  What readers deliver from *)
(* here on is counted where nobody looks, and is left out.                  *)
Leaves ==
    /\ runner.at = "leaving" /\ Goes("gone")
    /\ child' = [p \in Plugins |-> NoChild] /\ pipe' = [p \in Plugins |-> <<>>]
    /\ stray' = 0
    /\ inbox' = [inbox EXCEPT !.open = FALSE]
    /\ UNCHANGED <<plugin, tries, outside>>

-----------------------------------------------------------------------------
(* The recording and the driver.                                            *)

FirstFrame ==
    /\ driver = "recording" /\ ~epoch /\ epoch' = TRUE
    /\ UNCHANGED <<supervised, inbox, runner, collected, stopping, driver, session, said>>

RecordingEnds ==
    /\ driver = "recording" /\ driver' = "ended"
    /\ UNCHANGED <<supervised, inbox, runner, collected, stopping, epoch, session, said>>

(* report_plugin_activity: a recording's session is open for as long as the *)
(* recording is not collected (SessionManager).                             *)
TakesEvents ==
    /\ driver \in {"recording", "ended"} /\ collected.events > 0
    /\ session' = session + collected.events
    /\ collected' = [collected EXCEPT !.events = 0]
    /\ UNCHANGED <<supervised, inbox, runner, stopping, epoch, driver, said>>

(* collect_finished: SessionPlugins::finish asks and joins; the events in   *)
(* its outcome are read by nobody.                                          *)
AsksToStop ==
    /\ driver = "ended" /\ driver' = "joining" /\ stopping' = TRUE
    /\ UNCHANGED <<supervised, inbox, runner, collected, epoch, session, said>>

Joins ==
    /\ driver = "joining" /\ runner.at = "gone" /\ driver' = "collected"
    /\ UNCHANGED <<supervised, inbox, runner, collected, stopping, epoch, session, said>>

-----------------------------------------------------------------------------
Longest == IF HelloTimeout > SettledAfter THEN HelloTimeout ELSE SettledAfter

Tick ==
    /\ child' = [p \in Plugins |->
                    IF child[p].life = "none" THEN child[p]
                    ELSE [child[p] EXCEPT !.up = AtMost(@ + 1, Longest),
                                          !.quiet = AtMost(@ + 1, SilenceTimeout)]]
    /\ plugin' = [p \in Plugins |-> [plugin[p] EXCEPT !.due = IF @ = 0 THEN 0 ELSE @ - 1]]
    /\ runner' = [runner EXCEPT !.asked = IF runner.detached
                                          THEN AtMost(@ + 1, StopGrace + PollInterval)
                                          ELSE 0]
    /\ UNCHANGED <<pipe, stray, inbox, outside, tries>>

-----------------------------------------------------------------------------
Line == Reports \cup Unusable
OutputStep(p) == \/ \E line \in Line : Says(p, line)
                 \/ Exits(p)
Examines(p) == \/ Attaches(p) \/ Looks(p) \/ JudgesWhatItSaw(p)
               \/ ExaminesWaiting(p) \/ ExaminesStopping(p) \/ ExaminesEnded(p)
RunnerStep == \/ SeesEpoch \/ EndsWithoutFrame \/ Rests \/ Detaches \/ TurnBegins
              \/ Drains \/ PollBegins \/ Publishes \/ TurnEnds \/ ChecksEnd \/ Leaves
              \/ \E p \in Plugins : Examines(p)
DriverStep == FirstFrame \/ RecordingEnds \/ TakesEvents \/ AsksToStop \/ Joins
Next == \/ RunnerStep \/ DriverStep \/ ReadsStray \/ Tick
        \/ \E p \in Plugins : OutputStep(p) \/ Reads(p)

Spec == Init /\ [][Next]_vars

(* Time passes, the runner runs and the driver's pass comes round; nothing  *)
(* is assumed of a plug-in, nor of what reads it.                           *)
FairSpec == Spec /\ WF_vars(Tick) /\ WF_vars(RunnerStep) /\ WF_vars(AsksToStop)
                 /\ WF_vars(Joins)

-----------------------------------------------------------------------------
Children == [life : {"none", "alive", "exited"},
             hello : {"none", "hello", "wrongContract"},
             dropped : Nat, faults : Nat, quiet : Nat, up : Nat]
Supervised == [state : {"absent", "starting", "running", "waiting", "stopping",
                        "stopped", "disabled"},
               used : 0..Attempts, due : Nat, dropped : Nat, faults : Nat]
RunnerType == [at : {"waiting", "attaching", "resting", "draining", "polling",
                     "judging", "checking", "leaving", "gone"},
               hand : 0..Capacity, left : SUBSET Plugins, on : SUBSET Plugins,
               look : Children, detached : BOOLEAN, asked : Nat]

HostTypeOK ==
    /\ plugin \in [Plugins -> Supervised] /\ child \in [Plugins -> Children]
    /\ pipe \in [Plugins -> Seq(Line)] /\ stray \in Nat
    /\ inbox \in [queued : 0..Capacity, delivered : Nat, dropped : Nat, open : BOOLEAN]
    /\ runner \in RunnerType
    /\ collected \in [events : 0..MaxKept, lost : Nat, dropped : Nat]
    /\ stopping \in BOOLEAN /\ epoch \in BOOLEAN
    /\ driver \in {"recording", "ended", "joining", "collected"}
    /\ session \in Nat /\ said \in Nat /\ tries \in [Plugins -> Nat]

(* However a plug-in fails, it is started at most once more often than      *)
(* `attempts` without having stayed up: "a plugin that is replaced for ever *)
(* burns CPU beside a game" (supervision.rs).                               *)
ReplacementsAreBounded == \A p \in Plugins : tries[p] <= Attempts + 1

(* Every event the queue took is queued, in the runner's hand, kept, on the *)
(* session, or counted as lost; none is twice.                              *)
EventsAreAccountedFor ==
    inbox.delivered = inbox.queued + runner.hand + collected.events
                      + collected.lost + session

(* "A plugin does not outlive the recording that started it" (mod.rs).      *)
NoneOutlivesTheRecording ==
    driver = "collected" => \A p \in Plugins : child[p].life = "none"

(* The host's books are right, and nothing outlives what it belongs to.     *)
HostIsSound == /\ HostTypeOK /\ ReplacementsAreBounded /\ EventsAreAccountedFor
               /\ NoneOutlivesTheRecording

(* A plug-in that was disabled, or asked to finish, is never started again, *)
(* not by a replacement that was already due (supervisor.rs, detach).       *)
GivenUpStaysDown ==
    [][\A p \in Plugins :
          runner.detached \/ plugin[p].state = "disabled" => tries'[p] <= tries[p]]_vars

Hung(p) == /\ plugin[p].state \in {"starting", "running"} /\ child[p].life = "alive"
           /\ NeverStarted(child[p]) \/ Silent(child[p])

(* A plug-in that hangs, before it introduced itself or after, is reclaimed *)
(* while the recording goes on; and whatever the plug-ins do, the end of a  *)
(* recording does not wait for them: finish is bounded.                     *)
NothingWaitsForAPlugin == /\ \A p \in Plugins : []<>~Hung(p)
                          /\ stopping ~> driver = "collected"

(* Statements of the documentation that the code does not keep.             *)

(* PluginOutcome::lost_anything: a recording that says it lost nothing has  *)
(* every event its plug-ins delivered.                                      *)
NothingIsLostUntold ==
    driver = "collected" /\ collected.lost = 0 /\ collected.dropped = 0
        => session = inbox.delivered
=============================================================================
