--------------------------- MODULE ProcessWatcher ---------------------------
(***************************************************************************)
(* How processes that start and stop become the launches and exits the     *)
(* session manager is told of: `LaunchDebouncer` (crates/game-detection    *)
(* process_watcher/debounce.rs), the watcher that drives it (watcher.rs)   *)
(* and the two sources of raw events behind it (windows/).                 *)
(*                                                                         *)
(* The preferred source is two WMI subscriptions, one for starts and one   *)
(* for exits, each of which compares the process table with what it saw    *)
(* last; the fallback compares it once for both.  What a source finds it   *)
(* puts in a channel, and the watcher takes one message at a time.         *)
(*                                                                         *)
(* Instants are the ticks left until them, and 0 is "due": nothing in the  *)
(* code tells two due instants apart.                                      *)
(***************************************************************************)
EXTENDS Integers, Sequences, FiniteSets, SequencesExt

CONSTANTS
    Processes,          \* [name, pid, parent] of what may run, each once
    AlreadyRunning,     \* those running when the watcher takes its baseline
    QuietPeriod,        \* WatchConfig::launch_quiet_period, in ticks
    MaxLaunchWindow,    \* WatchConfig::max_launch_window
    ExitSettlePeriod    \* WatchConfig::exit_settle_period

ASSUME ConfigAssumption ==
    /\ QuietPeriod \in Nat /\ MaxLaunchWindow \in Nat /\ ExitSettlePeriod \in Nat
    /\ QuietPeriod < MaxLaunchWindow
    /\ IsFiniteSet(Processes) /\ AlreadyRunning \subseteq Processes
    /\ \A p, q \in AlreadyRunning : p.pid = q.pid => p = q

VARIABLES
    alive,      \* the machine's processes
    started,    \* those that have ever run
    source,     \* "none", one half of "wmi", "wmi", "polling" or "stopped"
    saw,        \* the process ids each half of the source last saw
    channel,    \* what the source sent and the watcher has not taken
    debouncer,  \* the LaunchDebouncer
    running,    \* what the consumer was told runs, and not yet that it is gone
    reported    \* what has ever been reported in a launch

vars == <<alive, started, source, saw, channel, debouncer, running, reported>>

PidsOf(processes) == {p.pid : p \in processes}

Elements(seq) == {seq[i] : i \in DOMAIN seq}

Older(due) == IF due > 0 THEN due - 1 ELSE 0

-----------------------------------------------------------------------------
(* LaunchDebouncer: the launches being collected, what was reported and is *)
(* believed to run (`live`), and the exits waiting.  Its lists are sets: a *)
(* process id is collected in one launch at most, and what is due is       *)
(* sorted when it is drained.                                              *)

Members(d) == UNION {l.members : l \in d.pending}

Exiting(d) == {e.process : e \in d.exiting}

KnownUnreported(d) == \* a mutant: what was reported is left out
    PidsOf(Members(d) \cup Exiting(d))

KnownPids(d) == PidsOf(d.live \cup Members(d) \cup Exiting(d))

Collects(launch, pid) == pid \in PidsOf(launch.members)

IsPending(d, pid) == pid \in PidsOf(Members(d))

Without(launch, pid) ==
    [launch EXCEPT !.members = {m \in @ : m.pid # pid}]

ForgetPending(d, pid) ==
    [d EXCEPT !.pending =
        {l \in {Without(m, pid) : m \in @} : l.members # {}}]

Leaves(d, pid, settle) ==
    [d EXCEPT
        !.live = {p \in @ : p.pid # pid},
        !.exiting = @ \cup {[process |-> p, settle |-> settle] :
                               p \in {q \in d.live : q.pid = pid}}]

ExitForgotten(d, pid) == \* a mutant: forgets what was reported as well
    IF IsPending(d, pid) THEN ForgetPending(d, pid)
    ELSE [d EXCEPT !.live = {p \in @ : p.pid # pid}]

(* An exit of a process that was not reported leaves no trace; of one that *)
(* was, it waits for its batch.                                            *)
ObserveExit(d, pid) ==
    IF IsPending(d, pid) THEN ForgetPending(d, pid)
    ELSE Leaves(d, pid, ExitSettlePeriod)

(* A process id that starts again was reused: whatever had it is gone.     *)
Retire(d, pid) ==
    IF IsPending(d, pid) THEN ForgetPending(d, pid) ELSE Leaves(d, pid, 0)

OpenLaunch(d, p) ==
    [d EXCEPT !.pending = @ \cup {[quiet |-> QuietPeriod,
                                  cap |-> MaxLaunchWindow,
                                  members |-> {p}]}]

Joined(launch, p) ==
    [launch EXCEPT
        !.members = @ \cup {p},
        !.quiet = IF QuietPeriod < launch.cap THEN QuietPeriod ELSE launch.cap]

(* A child of a process that is being collected is of the same launch.     *)
JoinLaunch(d, p) ==
    [d EXCEPT !.pending =
        {IF Collects(l, p.parent) THEN Joined(l, p) ELSE l : l \in @}]

ObserveStart(d, p) ==
    LET retired == Retire(d, p.pid) IN
    IF IsPending(retired, p.parent) THEN JoinLaunch(retired, p)
                                    ELSE OpenLaunch(retired, p)

(* The walks of n steps up the parent links that lie in the batch.  Of two *)
(* exits with the same id the code looks at one.                           *)
Pids(exits) == {e.process.pid : e \in exits}

ParentIn(exits, pid) ==
    (CHOOSE e \in exits : e.process.pid = pid).process.parent

Walks(exits, pid, n) ==
    {walk \in [0..n -> Pids(exits)] :
        /\ walk[0] = pid
        /\ \A i \in 1..n : /\ walk[i] = ParentIn(exits, walk[i - 1])
                           /\ walk[i] # walk[i - 1]}

(* How far the walk gets; it stops after as many steps as the batch has    *)
(* process ids.                                                            *)
Depth(exits, pid) ==
    Max({n \in 0..Cardinality(Pids(exits)) : Walks(exits, pid, n) # {}})

ByPid(exits, x, y) == \* a mutant: the order of the process table
    x.process.pid < y.process.pid

(* The order a batch is reported in.                                       *)
ChildrenFirst(exits, x, y) ==
    \/ Depth(exits, x.process.pid) > Depth(exits, y.process.pid)
    \/ /\ Depth(exits, x.process.pid) = Depth(exits, y.process.pid)
       /\ x.process.pid < y.process.pid

DueExits(d) == {e \in d.exiting : e.settle = 0}

DueLaunches(d) == {l \in d.pending : l.quiet = 0}

Launching(d) == UNION {l.members : l \in DueLaunches(d)}

Drained(d) ==
    [pending |-> d.pending \ DueLaunches(d),
     live    |-> {p \in d.live : p.pid \notin PidsOf(Launching(d))}
                    \cup Launching(d),
     exiting |-> d.exiting \ DueExits(d)]

IsDue(d) == DueExits(d) # {} \/ DueLaunches(d) # {}

-----------------------------------------------------------------------------
(* The machine and the sources of raw events.                              *)

Init ==
    /\ alive = AlreadyRunning
    /\ started = AlreadyRunning
    /\ source = "none"
    /\ saw = [starts |-> {}, exits |-> {}]
    /\ channel = <<>>
    /\ debouncer = [pending |-> {}, live |-> AlreadyRunning, exiting |-> {}]
    /\ running = AlreadyRunning
    /\ reported = {}

MachineStep == UNCHANGED <<source, saw, channel, debouncer, running, reported>>

ProcessStarts(p) ==
    /\ p \notin started
    /\ p.pid \notin PidsOf(alive)
    /\ alive' = alive \cup {p}
    /\ started' = started \cup {p}
    /\ MachineStep

ProcessExits(p) ==
    /\ p \in alive
    /\ alive' = alive \ {p}
    /\ UNCHANGED started
    /\ MachineStep

Started(p) == [kind |-> "started", process |-> p]
Exited(pid) == [kind |-> "exited", pid |-> pid]
Lost == [kind |-> "lost"]

(* What a look finds, in whatever order the table has it.  A process id    *)
(* that was reused between two looks has not changed.                      *)
StartsSeen ==
    {[i \in DOMAIN order |-> Started(order[i])] :
        order \in SetToSeqs({p \in alive : p.pid \notin saw.starts})}

ExitsSeen ==
    {[i \in DOMAIN order |-> Exited(order[i])] :
        order \in SetToSeqs(saw.exits \ PidsOf(alive))}

SourceStep ==
    /\ Lost \notin Elements(channel)
    /\ UNCHANGED <<alive, started, debouncer, running, reported>>

Halves == {"starts", "exits"}

(* The watcher has taken its baseline.  Each subscription sees the machine *)
(* as it is by the time it stands, and looks from then on; one that fails  *)
(* before both do fails with a loss.                                       *)
Subscribe(half) ==
    /\ source \in {"none"} \cup (Halves \ {half})
    /\ SourceStep
    /\ source' = IF source = "none" THEN half ELSE "wmi"
    /\ saw' = [saw EXCEPT ![half] = PidsOf(alive)]
    /\ UNCHANGED channel

(* A subscription was refused: the poller starts from the baseline, and    *)
(* what the other one sent goes with its channel.                          *)
StartPolling ==
    /\ source \in {"none"} \cup Halves
    /\ SourceStep
    /\ source' = "polling"
    /\ saw' = [starts |-> PidsOf(AlreadyRunning),
               exits |-> PidsOf(AlreadyRunning)]
    /\ channel' = <<>>

StartSource == StartPolling \/ \E half \in Halves : Subscribe(half)

LookForStarts ==
    /\ source \in {"starts", "wmi"}
    /\ SourceStep
    /\ \E found \in StartsSeen : channel' = channel \o found
    /\ saw' = [saw EXCEPT !.starts = PidsOf(alive)]
    /\ UNCHANGED source

LookForExits ==
    /\ source \in {"exits", "wmi"}
    /\ SourceStep
    /\ \E found \in ExitsSeen : channel' = channel \o found
    /\ saw' = [saw EXCEPT !.exits = PidsOf(alive)]
    /\ UNCHANGED source

PollTable ==
    /\ source = "polling"
    /\ SourceStep
    /\ \E begun \in StartsSeen, ended \in ExitsSeen :
        channel' = channel \o begun \o ended
    /\ saw' = [starts |-> PidsOf(alive), exits |-> PidsOf(alive)]
    /\ UNCHANGED source

LoseSource ==
    /\ source \in {"wmi", "polling"}
    /\ SourceStep
    /\ channel' = Append(channel, Lost)
    /\ UNCHANGED <<source, saw>>

-----------------------------------------------------------------------------
(* ProcessWatcher::next_event: take a message, or report what is due.      *)

WatcherStep == UNCHANGED <<alive, started>>

TakeEvent ==
    /\ source \notin Halves
    /\ channel # <<>>
    /\ Head(channel) # Lost
    /\ channel' = Tail(channel)
    /\ debouncer' = IF Head(channel).kind = "started"
                    THEN ObserveStart(debouncer, Head(channel).process)
                    ELSE ObserveExit(debouncer, Head(channel).pid)
    /\ UNCHANGED <<source, saw, running, reported>>
    /\ WatcherStep

(* A lost subscription is replaced by the poller, which is told what the   *)
(* watcher accounts for, and its channel goes with it.  There is nothing   *)
(* to replace the poller with, or its thread cannot be had.                *)
ReplaceSource ==
    /\ channel # <<>>
    /\ Head(channel) = Lost
    /\ channel' = <<>>
    /\ source' \in {"stopped"} \cup ({"polling"} \ {source})
    /\ saw' = [starts |-> KnownPids(debouncer), exits |-> KnownPids(debouncer)]
    /\ UNCHANGED <<debouncer, running, reported>>
    /\ WatcherStep

(* What is due is handed to the consumer, exits first.                     *)
Drain ==
    /\ IsDue(debouncer)
    /\ debouncer' = Drained(debouncer)
    /\ running' = (running \ {e.process : e \in DueExits(debouncer)})
                    \cup Launching(debouncer)
    /\ reported' = reported \cup Launching(debouncer)
    /\ UNCHANGED <<source, saw, channel>>
    /\ WatcherStep

Aged(launch) ==
    [launch EXCEPT !.quiet = Older(@), !.cap = Older(@)]

Tick ==
    /\ debouncer' =
        [debouncer EXCEPT
            !.pending = {Aged(l) : l \in @},
            !.exiting = {[e EXCEPT !.settle = Older(@)] : e \in @}]
    /\ UNCHANGED <<source, saw, channel, running, reported>>
    /\ WatcherStep

Next ==
    \/ \E p \in Processes : ProcessStarts(p) \/ ProcessExits(p)
    \/ StartSource \/ LookForStarts \/ LookForExits \/ PollTable \/ LoseSource
    \/ TakeEvent \/ ReplaceSource \/ Drain \/ Tick

Spec == Init /\ [][Next]_vars

(* The sources look once an interval, and the recorder's loop asks the     *)
(* watcher for the next event again and again.                             *)
Fairness ==
    /\ WF_vars(StartSource) /\ WF_vars(LookForStarts) /\ WF_vars(LookForExits)
    /\ WF_vars(PollTable)
    /\ WF_vars(TakeEvent) /\ WF_vars(ReplaceSource) /\ WF_vars(Drain)
    /\ WF_vars(Tick)

FairSpec == Spec /\ Fairness

-----------------------------------------------------------------------------
(* What holds, and what the code says and does not hold.                   *)

Launches == [quiet : 0..QuietPeriod, cap : 0..MaxLaunchWindow,
             members : (SUBSET started) \ {{}}]

Exits == [process : started, settle : 0..ExitSettlePeriod]

Messages ==
    {Started(p) : p \in started} \cup {Exited(pid) : pid \in PidsOf(started)}
        \cup {Lost}

(* Every field has its type.                                               *)
WatcherTypeOK ==
    /\ alive \subseteq started /\ started \subseteq Processes
    /\ source \in Halves \cup {"none", "wmi", "polling", "stopped"}
    /\ saw \in [starts : SUBSET PidsOf(started), exits : SUBSET PidsOf(started)]
    /\ channel \in Seq(Messages)
    /\ running \subseteq started /\ reported \subseteq started
    /\ debouncer \in [pending : SUBSET Launches, live : SUBSET started,
                      exiting : SUBSET Exits]

(* Nobody in the batch is their own ancestor, as reused ids can make it.    *)
HasRoots(exits) ==
    \A pids \in (SUBSET Pids(exits)) \ {{}} :
        \E q \in pids : ParentIn(exits, q) \notin pids \ {q}

(* The processes of one batch of exits are reported before their parents   *)
(* (rule 5), when the batch has each process id once and no circle.        *)
LeavesFirst ==
    LET exits == DueExits(debouncer) IN
    (/\ \A x, y \in exits : x.process.pid = y.process.pid => x = y
     /\ HasRoots(exits)) =>
        \A x, y \in exits :
            x # y /\ x.process.parent = y.process.pid => ChildrenFirst(exits, x, y)

(* What the code looks up by id it finds at one place: an id is collected   *)
(* once or believed to run once, and a process leaves once.                  *)
KeptApart(d) ==
    /\ \A p, q \in d.live : p.pid = q.pid => p = q
    /\ \A l, m \in d.pending : \A p \in l.members, q \in m.members :
          p.pid = q.pid => l = m /\ p = q
    /\ \A p \in d.live, q \in Members(d) : p.pid # q.pid
    /\ \A e, f \in d.exiting : e.process = f.process => e = f
    /\ (d.live \cup Members(d)) \cap Exiting(d) = {}

(* What the consumer was told runs is what the watcher still has to report  *)
(* gone: no exit is dropped or made up between the two.                      *)
ToldIsKept == running = debouncer.live \cup Exiting(debouncer)

(* A launch is due at the end of its window at the latest.                   *)
DueWithinCap(d) == \A l \in d.pending : l.quiet <= l.cap

(* What waits to be reported is well formed, at one place, what the consumer *)
(* waits for, due within its window, and in its order.                      *)
BatchesAreSound ==
    /\ WatcherTypeOK /\ KeptApart(debouncer) /\ ToldIsKept
    /\ DueWithinCap(debouncer) /\ LeavesFirst

(* An exit is reported only of a process that is gone: neither reuse of a  *)
(* process id nor a change of source makes one of a process that runs.     *)
OnlyTheDeadAreGone ==
    [][\A p \in running \ running' : p \notin alive]_vars

(* A process is reported in one launch and no other, and one that was      *)
(* there before the watcher in none.                                       *)
LaunchedOnce ==
    [][\A p \in running' \ running :
        p \notin reported /\ p \notin AlreadyRunning]_vars

(* The window of what is being collected only closes: no child that joins,  *)
(* however late, opens it again.                                            *)
NotPutOff ==
    [][\A l \in debouncer.pending, m \in debouncer'.pending :
        l.members \cap m.members # {} => m.cap <= l.cap]_vars

(* What is reported is so: an exit of a process that is gone, and a launch  *)
(* of one nobody has heard of, in its window.                               *)
ReportsAreTrue == OnlyTheDeadAreGone /\ LaunchedOnce /\ NotPutOff

(* A process that is being collected and runs on is reported: the launch   *)
(* it is in is not put off for ever, nor lost with the source.             *)
CollectedIsReported ==
    \A p \in Processes :
        (p \in Members(debouncer)) ~> (p \in running \/ p \notin alive)

IsGone(p) == p.pid \notin PidsOf(alive)

ToldGone(p) == p \notin running \/ ~IsGone(p) \/ source = "stopped"

(* A process that was reported, that the source has seen and that is gone, *)
(* its id with it, is reported gone, also across a change of source.       *)
SeenExitIsReported ==
    \A p \in Processes :
        (p \in running /\ p.pid \in saw.exits /\ IsGone(p)) ~> ToldGone(p)

(* What the watcher has seen it reports, whichever source fails meanwhile.  *)
WhatIsSeenIsReported == CollectedIsReported /\ SeenExitIsReported

(* mod.rs: "A process that appears and disappears inside that window is    *)
(* never reported at all", and rule 4: one that was reported is reported   *)
(* as gone.  So nothing the watcher launched is believed to run for ever.  *)
NothingReportedLingers ==
    \A p \in Processes \ AlreadyRunning : (p \in running /\ IsGone(p)) ~> ToldGone(p)

(* watcher.rs, already_running: what was running when the watcher started  *)
(* is "remembered, so their exits are reported".                           *)
BaselineExitIsReported ==
    \A p \in AlreadyRunning : (p \in running /\ IsGone(p)) ~> ToldGone(p)

=============================================================================
