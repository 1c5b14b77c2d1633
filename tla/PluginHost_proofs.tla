-------------------------- MODULE PluginHost_proofs --------------------------
(* PluginHost: however plug-ins, their readers, the runner and the driver    *)
(* interleave, the host keeps its restart budget and its books, and what it  *)
(* gave up on stays down.                                                    *)
EXTENDS PluginHost, FiniteSetTheorems, TLAPS

(* A plug-in that is not up is owed one start less than one that is.         *)
BudgetIsSpent ==
  \A p \in Plugins : tries[p] <= plugin[p].used
                        + IF plugin[p].state \in {"absent", "waiting"} THEN 0 ELSE 1

(* Where the runner is says what the plug-ins are: none is attached twice,   *)
(* and after the detach none is due again.                                   *)
NotYetAttached ==
  /\ runner.at = "waiting" => \A p \in Plugins : /\ plugin[p].state = "absent"
                                                 /\ child[p].life = "none"
  /\ runner.at = "attaching" => \A p \in runner.left : plugin[p].state = "absent"
DownAfterDetach ==
  runner.detached => /\ runner.at \notin {"waiting", "attaching", "judging"}
                     /\ \A p \in Plugins : plugin[p].state \in {"stopping", "stopped"}

(* The runner's end takes every process with it, and is joined.              *)
GoneIsGone ==
  /\ runner.at = "gone" => \A p \in Plugins : child[p].life = "none"
  /\ driver = "collected" => runner.at = "gone"

IInv == /\ HostTypeOK /\ BudgetIsSpent /\ NotYetAttached /\ DownAfterDetach
        /\ GoneIsGone /\ EventsAreAccountedFor

LEMMA EventsCounted == \A lines \in Seq(Line) : EventsIn(lines) \in Nat
  <1>. TAKE lines \in Seq(Line)
  <1>1. IsFiniteSet(1..Len(lines))
    BY FS_Interval
  <1>2. {i \in DOMAIN lines : lines[i] = "event"} \in SUBSET (1..Len(lines))
    OBVIOUS
  <1>. QED BY <1>1, <1>2, FS_Subset, FS_CardinalityType DEF EventsIn

LEMMA InitInv == Init => IInv
  <1>. SUFFICES ASSUME Init PROVE IInv
    OBVIOUS
  <1>. USE PolicyAssumption
  <1>1. NoChild \in Children /\ NoChild.life = "none"
    BY DEF NoChild, Children
  <1>2. plugin \in [Plugins -> Supervised] /\ child \in [Plugins -> Children]
        /\ tries \in [Plugins -> Nat]
    BY <1>1 DEF Init, Supervised
  <1>3. pipe \in [Plugins -> Seq(Line)] /\ stray \in Nat /\ session \in Nat /\ said \in Nat
        /\ stopping \in BOOLEAN /\ epoch \in BOOLEAN
        /\ driver \in {"recording", "ended", "joining", "collected"}
    <2>1. <<>> \in Seq(Line)
      OBVIOUS
    <2>. QED BY <2>1 DEF Init
  <1>4. inbox \in [queued : 0..Capacity, delivered : Nat, dropped : Nat, open : BOOLEAN]
        /\ collected \in [events : 0..MaxKept, lost : Nat, dropped : Nat]
    BY DEF Init
  <1>5. runner \in RunnerType
    BY <1>1 DEF Init, RunnerType
  <1>6. HostTypeOK
    BY <1>2, <1>3, <1>4, <1>5 DEF HostTypeOK
  <1>7. BudgetIsSpent /\ NotYetAttached /\ DownAfterDetach /\ GoneIsGone
    BY <1>1 DEF Init, BudgetIsSpent, NotYetAttached, DownAfterDetach, GoneIsGone
  <1>8. EventsAreAccountedFor
    BY DEF Init, EventsAreAccountedFor
  <1>. QED BY <1>6, <1>7, <1>8 DEF IInv

(* A plug-in that is replaced or given up on: what it was has one start more *)
(* to its name than what it becomes is owed.                                 *)
LEMMA ReplacedInv ==
  ASSUME NEW q \in Supervised, NEW settled \in BOOLEAN
  PROVE  /\ Replaced(q, settled) \in Supervised
         /\ Replaced(q, settled).state \in {"waiting", "disabled"}
         /\ ~settled /\ Replaced(q, settled).state = "waiting"
               => Replaced(q, settled).used = q.used + 1
         /\ ~settled /\ Replaced(q, settled).state = "disabled"
               => Replaced(q, settled).used = q.used
  <1>. DEFINE used == IF settled THEN 0 ELSE q.used
  <1>1. used \in 0..Attempts /\ q.used \in 0..Attempts /\ Attempts \in Nat
    BY PolicyAssumption DEF Supervised
  <1>2. ~settled => used = q.used
    OBVIOUS
  <1>3. Replaced(q, settled) =
          IF used < Attempts
          THEN [q EXCEPT !.state = "waiting", !.used = used + 1, !.due = RestartDelay[used + 1]]
          ELSE [q EXCEPT !.state = "disabled", !.used = used]
    BY DEF Replaced
  <1>. HIDE DEF used
  <1>4. CASE used < Attempts
    <2>1. used + 1 \in 1..Attempts
      BY <1>1, <1>4
    <2>2. RestartDelay[used + 1] \in Nat
      BY <2>1, PolicyAssumption
    <2>3. used + 1 \in 0..Attempts
      BY <2>1
    <2>4. Replaced(q, settled) \in Supervised /\ Replaced(q, settled).state = "waiting"
          /\ Replaced(q, settled).used = used + 1
      BY <1>3, <1>4, <2>2, <2>3 DEF Supervised
    <2>. QED BY <1>2, <2>4
  <1>5. CASE ~(used < Attempts)
    BY <1>1, <1>2, <1>3, <1>5 DEF Supervised
  <1>. QED BY <1>4, <1>5

LEMMA StartsInv ==
  ASSUME IInv, NEW p \in Plugins, plugin[p].state \in {"absent", "waiting"}, Starts(p)
  PROVE  /\ plugin' \in [Plugins -> Supervised] /\ child' \in [Plugins -> Children]
         /\ tries' \in [Plugins -> Nat] /\ BudgetIsSpent'
         /\ \A r \in Plugins \ {p} : plugin'[r] = plugin[r]
         /\ pipe' = pipe /\ stray' = stray
  <1>. USE DEF IInv, HostTypeOK
  <1>1. NoChild \in Children /\ [NoChild EXCEPT !.life = "alive"] \in Children
    BY DEF NoChild, Children
  <1>2. plugin[p] \in Supervised /\ tries[p] \in Nat /\ tries[p] <= plugin[p].used
    BY DEF BudgetIsSpent, Supervised
  <1>3. /\ tries' \in [Plugins -> Nat] /\ tries'[p] = tries[p] + 1
        /\ \A r \in Plugins \ {p} : tries'[r] = tries[r]
        /\ pipe' = pipe /\ stray' = stray
    BY DEF Starts
  <1>4. CASE /\ child' = [child EXCEPT ![p] = [NoChild EXCEPT !.life = "alive"]]
             /\ plugin' = [plugin EXCEPT ![p].state = "starting"]
    <2>1. plugin'[p] \in Supervised /\ plugin'[p].state = "starting"
          /\ plugin'[p].used = plugin[p].used
      BY <1>2, <1>4 DEF Supervised
    <2>2. plugin' \in [Plugins -> Supervised] /\ child' \in [Plugins -> Children]
          /\ \A r \in Plugins \ {p} : plugin'[r] = plugin[r]
      BY <1>1, <1>4, <2>1
    <2>3. BudgetIsSpent'
      <3>. SUFFICES ASSUME NEW r \in Plugins
                   PROVE  tries'[r] <= plugin'[r].used
                            + IF plugin'[r].state \in {"absent", "waiting"} THEN 0 ELSE 1
        BY DEF BudgetIsSpent
      <3>1. CASE r = p
        BY <1>2, <1>3, <2>1, <2>2, <3>1 DEF Supervised
      <3>2. CASE r # p
        BY <1>3, <2>1, <2>2, <3>2 DEF BudgetIsSpent
      <3>. QED BY <3>1, <3>2
    <2>. QED BY <1>3, <2>2, <2>3
  <1>5. CASE plugin' = [plugin EXCEPT ![p] = Replaced(@, FALSE)] /\ UNCHANGED child
    <2>1. plugin'[p] = Replaced(plugin[p], FALSE)
          /\ \A r \in Plugins \ {p} : plugin'[r] = plugin[r]
      BY <1>5
    <2>2. /\ plugin'[p] \in Supervised /\ plugin'[p].state \in {"waiting", "disabled"}
          /\ plugin'[p].state = "waiting" => plugin'[p].used = plugin[p].used + 1
          /\ plugin'[p].state = "disabled" => plugin'[p].used = plugin[p].used
      BY <1>2, <2>1, ReplacedInv
    <2>3. plugin' \in [Plugins -> Supervised]
      BY <1>5, <2>1, <2>2
    <2>4. BudgetIsSpent'
      <3>. SUFFICES ASSUME NEW r \in Plugins
                   PROVE  tries'[r] <= plugin'[r].used
                            + IF plugin'[r].state \in {"absent", "waiting"} THEN 0 ELSE 1
        BY DEF BudgetIsSpent
      <3>1. CASE r = p
        <4>1. plugin[p].used \in Nat /\ tries[p] \in Nat /\ tries[p] <= plugin[p].used
              /\ tries'[p] = tries[p] + 1
          BY <1>2, <1>3 DEF Supervised
        <4>2. CASE plugin'[p].state = "waiting"
          BY <4>1, <4>2, <2>2, <3>1
        <4>3. CASE plugin'[p].state = "disabled"
          BY <4>1, <4>3, <2>2, <3>1
        <4>. QED BY <4>2, <4>3, <2>2
      <3>2. CASE r # p
        BY <1>3, <2>1, <2>2, <3>2 DEF BudgetIsSpent
      <3>. QED BY <3>1, <3>2
    <2>. QED BY <1>3, <1>5, <2>1, <2>3, <2>4
  <1>. QED BY <1>4, <1>5 DEF Starts

LEMMA LetsGoInv ==
  ASSUME IInv, NEW p \in Plugins, NEW q \in Supervised, LetsGo(p, q)
  PROVE  /\ plugin' \in [Plugins -> Supervised] /\ child' \in [Plugins -> Children]
         /\ pipe' \in [Plugins -> Seq(Line)] /\ stray' \in Nat
         /\ plugin'[p] = q /\ child'[p].life = "none"
         /\ \A r \in Plugins \ {p} : plugin'[r] = plugin[r] /\ child'[r] = child[r]
  <1>1. EventsIn(pipe[p]) \in Nat
    BY EventsCounted DEF IInv, HostTypeOK
  <1>2. NoChild \in Children /\ NoChild.life = "none"
    BY DEF NoChild, Children
  <1>3. <<>> \in Seq(Line)
    OBVIOUS
  <1>. QED BY <1>1, <1>2, <1>3 DEF LetsGo, IInv, HostTypeOK

LEMMA RecoversInv ==
  ASSUME IInv, NEW p \in Plugins, NEW restartable \in BOOLEAN, Recovers(p, restartable)
  PROVE  /\ plugin' \in [Plugins -> Supervised] /\ child' \in [Plugins -> Children]
         /\ pipe' \in [Plugins -> Seq(Line)] /\ stray' \in Nat
         /\ tries' \in [Plugins -> Nat] /\ BudgetIsSpent'
         /\ tries'[p] <= tries[p] /\ \A r \in Plugins \ {p} : tries'[r] = tries[r]
  <1>. DEFINE settled == child[p].up >= SettledAfter
              q == [plugin[p] EXCEPT !.dropped = @ + child[p].dropped,
                                     !.faults = @ + child[p].faults]
              n == IF restartable THEN Replaced(q, settled)
                   ELSE [q EXCEPT !.state = "disabled"]
  <1>1. /\ plugin[p] \in Supervised /\ child[p] \in Children /\ tries[p] \in Nat
        /\ tries[p] <= plugin[p].used + 1
    BY DEF IInv, HostTypeOK, BudgetIsSpent, Supervised
  <1>2. q \in Supervised /\ q.used = plugin[p].used
    <2>1. plugin[p].dropped + child[p].dropped \in Nat
          /\ plugin[p].faults + child[p].faults \in Nat
      BY <1>1 DEF Supervised, Children
    <2>. QED BY <1>1, <2>1 DEF Supervised
  <1>3. settled \in BOOLEAN
    OBVIOUS
  <1>4. n \in Supervised /\ n.state \in {"waiting", "disabled"}
    BY <1>2, <1>3, ReplacedInv DEF Supervised
  <1>5. /\ ~(restartable /\ settled) /\ n.state = "waiting" => n.used = q.used + 1
        /\ ~(restartable /\ settled) /\ n.state = "disabled" => n.used = q.used
    BY <1>2, <1>3, ReplacedInv DEF Supervised
  <1>6. LetsGo(p, n)
        /\ tries' = [tries EXCEPT ![p] = IF restartable /\ settled THEN 0 ELSE @]
    BY DEF Recovers
  <1>. HIDE DEF n, q, settled
  <1>7. /\ plugin' \in [Plugins -> Supervised] /\ child' \in [Plugins -> Children]
        /\ pipe' \in [Plugins -> Seq(Line)] /\ stray' \in Nat
        /\ plugin'[p] = n /\ \A r \in Plugins \ {p} : plugin'[r] = plugin[r]
    BY <1>4, <1>6, LetsGoInv
  <1>8. /\ tries' \in [Plugins -> Nat]
        /\ tries'[p] = IF restartable /\ settled THEN 0 ELSE tries[p]
        /\ \A r \in Plugins \ {p} : tries'[r] = tries[r]
    BY <1>6 DEF IInv, HostTypeOK
  <1>9. BudgetIsSpent'
    <2>. SUFFICES ASSUME NEW r \in Plugins
                 PROVE  tries'[r] <= plugin'[r].used
                          + IF plugin'[r].state \in {"absent", "waiting"} THEN 0 ELSE 1
      BY DEF BudgetIsSpent
    <2>1. n.used \in Nat
      BY <1>4 DEF Supervised
    <2>2. CASE r = p
      <3>1. plugin[p].used \in Nat /\ q.used = plugin[p].used /\ plugin'[p] = n
        BY <1>1, <1>2, <1>7 DEF Supervised
      <3>2. CASE restartable /\ settled
        BY <1>8, <2>1, <2>2, <3>1, <3>2
      <3>3. CASE ~(restartable /\ settled) /\ n.state = "waiting"
        <4>1. n.used = q.used + 1
          BY <1>5, <3>3
        <4>2. tries'[p] = tries[p]
          BY <1>8, <3>3
        <4>. QED BY <1>1, <2>2, <3>1, <3>3, <4>1, <4>2
      <3>4. CASE ~(restartable /\ settled) /\ n.state = "disabled"
        <4>1. n.used = q.used
          BY <1>5, <3>4
        <4>2. tries'[p] = tries[p]
          BY <1>8, <3>4
        <4>. QED BY <1>1, <2>2, <3>1, <3>4, <4>1, <4>2
      <3>. QED BY <1>4, <3>2, <3>3, <3>4
    <2>3. CASE r # p
      BY <1>7, <1>8, <2>3 DEF BudgetIsSpent, IInv
    <2>. QED BY <2>2, <2>3
  <1>. QED BY <1>1, <1>7, <1>8, <1>9

-----------------------------------------------------------------------------
(* The plug-ins and their readers touch what the supervisor decided in       *)
(* nothing but what a process shares.                                        *)
LEMMA OutputInv == ASSUME IInv, NEW p \in Plugins, OutputStep(p) PROVE IInv'
  <1>. USE DEF IInv, HostTypeOK, BudgetIsSpent, NotYetAttached, DownAfterDetach,
               GoneIsGone, EventsAreAccountedFor
  <1>1. ASSUME NEW line \in Line, Says(p, line) PROVE IInv'
    <2>1. pipe' \in [Plugins -> Seq(Line)]
      BY <1>1 DEF Says
    <2>. QED BY <1>1, <2>1 DEF Says
  <1>2. CASE Exits(p)
    <2>0. [child[p] EXCEPT !.life = "exited"] \in Children
          /\ [child[p] EXCEPT !.life = "exited"].life = "exited"
      BY DEF Children
    <2>1. child' \in [Plugins -> Children]
          /\ \A r \in Plugins : child[r].life = "none" => child'[r].life = "none"
      BY <1>2, <2>0 DEF Exits
    <2>. QED BY <1>2, <2>1 DEF Exits, outside
  <1>. QED BY <1>1, <1>2 DEF OutputStep

LEMMA HeardInv ==
  ASSUME NEW c \in Children, NEW line \in Line
  PROVE  Heard(c, line) \in Children /\ Heard(c, line).life = c.life
  <1>. DEFINE alive == IF line = "unreadable" THEN c ELSE [c EXCEPT !.quiet = 0]
  <1>1. alive \in Children /\ alive.life = c.life
    BY DEF Children
  <1>2. Heard(c, line) = IF line \in Unusable THEN [alive EXCEPT !.faults = @ + 1]
        ELSE IF line = "event" /\ ~Takes THEN [alive EXCEPT !.dropped = @ + 1]
        ELSE IF line \in {"hello", "wrongContract"} THEN [alive EXCEPT !.hello = line]
        ELSE alive
    BY DEF Heard
  <1>. HIDE DEF alive
  <1>3. alive.faults + 1 \in Nat /\ alive.dropped + 1 \in Nat
    BY <1>1 DEF Children
  <1>. QED BY <1>1, <1>2, <1>3 DEF Children

Unread == inbox.delivered - inbox.queued

(* A delivery is queued and counted as delivered, or counted as dropped.     *)
LEMMA DeliveredInv ==
  ASSUME IInv, inbox' = Delivered \/ inbox' = inbox
  PROVE  /\ inbox' \in [queued : 0..Capacity, delivered : Nat, dropped : Nat, open : BOOLEAN]
         /\ Unread' = Unread
  <1>. DEFINE T == [queued : 0..Capacity, delivered : Nat, dropped : Nat, open : BOOLEAN]
  <1>1. inbox \in T /\ Capacity \in Nat
    BY PolicyAssumption DEF IInv, HostTypeOK
  <1>2. CASE inbox' = inbox
    BY <1>1, <1>2 DEF Unread
  <1>3. CASE inbox' = Delivered /\ Takes
    <2>1. inbox.queued + 1 \in 0..Capacity /\ inbox.delivered + 1 \in Nat
      BY <1>1, <1>3 DEF Takes
    <2>2. inbox' = [inbox EXCEPT !.queued = inbox.queued + 1, !.delivered = inbox.delivered + 1]
      BY <1>3 DEF Delivered
    <2>3. inbox' \in T /\ inbox'.queued = inbox.queued + 1
          /\ inbox'.delivered = inbox.delivered + 1
      BY <1>1, <2>1, <2>2
    <2>. QED BY <1>1, <2>3 DEF Unread
  <1>4. CASE inbox' = Delivered /\ ~Takes
    <2>1. inbox' = [inbox EXCEPT !.dropped = inbox.dropped + 1]
      BY <1>4 DEF Delivered
    <2>. QED BY <1>1, <2>1 DEF Unread
  <1>. QED BY <1>2, <1>3, <1>4

(* The books balance when what was drained does not change.                  *)
LEMMA Balanced ==
  ASSUME IInv, inbox' \in [queued : 0..Capacity, delivered : Nat, dropped : Nat, open : BOOLEAN],
         Unread' = Unread, runner'.hand = runner.hand, collected' = collected,
         session' = session
  PROVE  EventsAreAccountedFor'
  <1>1. /\ inbox.delivered \in Nat /\ inbox.queued \in Nat /\ runner.hand \in Nat
        /\ collected.events \in Nat /\ collected.lost \in Nat /\ session \in Nat
        /\ inbox'.delivered \in Nat /\ inbox'.queued \in Nat
    BY PolicyAssumption DEF IInv, HostTypeOK, RunnerType
  <1>. QED BY <1>1 DEF IInv, EventsAreAccountedFor, Unread

LEMMA ReadsInv ==
  ASSUME IInv, ReadsStray \/ \E p \in Plugins : Reads(p) PROVE IInv'
  <1>. USE DEF IInv, HostTypeOK, outside
  <1>1. /\ inbox' \in [queued : 0..Capacity, delivered : Nat, dropped : Nat, open : BOOLEAN]
        /\ Unread' = Unread
    BY DeliveredInv DEF ReadsStray, Reads
  <1>2. UNCHANGED <<plugin, runner, outside, tries>>
    BY DEF ReadsStray, Reads
  <1>3. EventsAreAccountedFor'
    BY <1>1, <1>2, Balanced
  <1>4. /\ child' \in [Plugins -> Children] /\ pipe' \in [Plugins -> Seq(Line)]
        /\ stray' \in Nat /\ \A r \in Plugins : child'[r].life = child[r].life
    <2>1. CASE ReadsStray
      BY <2>1 DEF ReadsStray
    <2>2. ASSUME NEW p \in Plugins, Reads(p)
          PROVE  /\ child' \in [Plugins -> Children] /\ pipe' \in [Plugins -> Seq(Line)]
                 /\ stray' \in Nat /\ \A r \in Plugins : child'[r].life = child[r].life
      <3>1. Head(pipe[p]) \in Line /\ Tail(pipe[p]) \in Seq(Line)
        BY <2>2 DEF Reads
      <3>2. Heard(child[p], Head(pipe[p])) \in Children
            /\ Heard(child[p], Head(pipe[p])).life = child[p].life
        BY <3>1, HeardInv
      <3>3. /\ child' = [child EXCEPT ![p] = Heard(child[p], Head(pipe[p]))]
            /\ pipe' = [pipe EXCEPT ![p] = Tail(pipe[p])] /\ stray' = stray
        BY <2>2 DEF Reads
      <3>4. child' \in [Plugins -> Children]
        BY <3>2, <3>3
      <3>5. \A r \in Plugins : child'[r].life = child[r].life
        BY <3>2, <3>3
      <3>6. pipe' \in [Plugins -> Seq(Line)]
        BY <3>1, <3>3
      <3>. QED BY <3>3, <3>4, <3>5, <3>6
    <2>. QED BY <2>1, <2>2
  <1>. QED BY <1>1, <1>2, <1>3, <1>4
           DEF BudgetIsSpent, NotYetAttached, DownAfterDetach, GoneIsGone

-----------------------------------------------------------------------------
(* The steps of the runner that examine one plug-in.                         *)
LEMMA ExaminesInv == ASSUME IInv, NEW p \in Plugins, Examines(p) PROVE IInv'
  <1>. USE DEF IInv, HostTypeOK, outside, supervised
  <1>0. /\ inbox' = inbox /\ collected' = collected /\ stopping' = stopping
        /\ epoch' = epoch /\ driver' = driver /\ session' = session /\ said' = said
        /\ runner' \in RunnerType /\ runner'.hand = runner.hand
        /\ runner'.detached = runner.detached /\ driver # "collected"
        /\ runner'.at # "gone" /\ runner'.at # "waiting"
    <2>1. NoChild \in Children
      BY DEF NoChild, Children
    <2>2. UNCHANGED <<inbox, outside>>
      BY DEF Examines, Attaches, Looks, JudgesWhatItSaw, ExaminesWaiting, ExaminesStopping,
             ExaminesEnded
    <2>3. runner.at \in {"attaching", "polling", "judging"}
      BY DEF Examines, Attaches, Looks, JudgesWhatItSaw, ExaminesWaiting, ExaminesStopping,
             ExaminesEnded
    <2>. DEFINE Kept == /\ runner' \in RunnerType /\ runner'.hand = runner.hand
                        /\ runner'.detached = runner.detached
                        /\ runner'.at \in {"attaching", "polling", "judging"}
    <2>4. runner.left \ {p} \in SUBSET Plugins /\ {p} \in SUBSET Plugins
          /\ {} \in SUBSET Plugins /\ child[p] \in Children
      BY DEF RunnerType
    <2>5. ASSUME runner' = [runner EXCEPT !.left = runner.left \ {p}] PROVE Kept
      BY <2>3, <2>4, <2>5 DEF RunnerType
    <2>6. ASSUME runner' = [runner EXCEPT !.at = "judging", !.on = {p}, !.look = child[p]]
          PROVE  Kept
      BY <2>4, <2>6 DEF RunnerType
    <2>7. ASSUME runner' = [runner EXCEPT !.at = "polling", !.left = runner.left \ {p},
                                          !.on = {}, !.look = NoChild]
          PROVE  Kept
      BY <2>1, <2>4, <2>7 DEF RunnerType
    <2>8. Kept
      <3>. HIDE DEF Kept
      <3>1. CASE Attaches(p)
        BY <2>5, <3>1 DEF Attaches
      <3>2. CASE Looks(p)
        BY <2>6, <3>2 DEF Looks
      <3>3. CASE Examined(p)
        BY <2>7, <3>3 DEF Examined
      <3>. QED BY <3>1, <3>2, <3>3
               DEF Examines, JudgesWhatItSaw, ExaminesWaiting, ExaminesStopping, ExaminesEnded
    <2>. QED BY <2>2, <2>3, <2>8 DEF GoneIsGone
  <1>1. EventsAreAccountedFor' /\ GoneIsGone'
    BY <1>0 DEF EventsAreAccountedFor, GoneIsGone
  <1>2. CASE Attaches(p)
    <2>1. /\ plugin[p].state = "absent" /\ runner.at = "attaching" /\ Starts(p)
          /\ runner'.at = "attaching" /\ runner'.left = runner.left \ {p}
          /\ ~runner.detached
      BY <1>2 DEF Attaches, NotYetAttached, DownAfterDetach, RunnerType
    <2>2. /\ plugin' \in [Plugins -> Supervised] /\ child' \in [Plugins -> Children]
          /\ tries' \in [Plugins -> Nat] /\ BudgetIsSpent'
          /\ \A r \in Plugins \ {p} : plugin'[r] = plugin[r]
          /\ pipe' = pipe /\ stray' = stray
      BY <2>1, StartsInv
    <2>3. NotYetAttached' /\ DownAfterDetach'
      BY <1>0, <2>1, <2>2 DEF NotYetAttached, DownAfterDetach, RunnerType
    <2>. QED BY <1>0, <1>1, <2>2, <2>3
  <1>3. CASE Looks(p)
    BY <1>0, <1>1, <1>3 DEF Looks, BudgetIsSpent, NotYetAttached, DownAfterDetach, RunnerType
  <1>4. CASE JudgesWhatItSaw(p)
    <2>1. ~runner.detached /\ runner'.at = "polling"
      BY <1>4 DEF JudgesWhatItSaw, DownAfterDetach, Examined, RunnerType
    <2>2. NotYetAttached' /\ DownAfterDetach'
      BY <1>0, <2>1 DEF NotYetAttached, DownAfterDetach
    <2>3. CASE \E restartable \in BOOLEAN : Recovers(p, restartable)
      <3>1. /\ plugin' \in [Plugins -> Supervised] /\ child' \in [Plugins -> Children]
            /\ pipe' \in [Plugins -> Seq(Line)] /\ stray' \in Nat
            /\ tries' \in [Plugins -> Nat] /\ BudgetIsSpent'
        BY <2>3, RecoversInv
      <3>. QED BY <1>0, <1>1, <2>2, <3>1
    <2>4. CASE /\ plugin' = [plugin EXCEPT ![p].state =
                                IF runner.look.hello = "none" THEN @ ELSE "running"]
               /\ UNCHANGED <<child, pipe, stray, tries>>
      <3>1. /\ plugin' \in [Plugins -> Supervised]
            /\ \A r \in Plugins : plugin'[r].used = plugin[r].used
            /\ \A r \in Plugins : plugin'[r].state \in {plugin[r].state, "running"}
        <4>1. plugin[p] \in Supervised /\ [plugin[p] EXCEPT !.state = "running"] \in Supervised
          BY DEF Supervised
        <4>2. [plugin[p] EXCEPT !.state = "running"].used = plugin[p].used
              /\ [plugin[p] EXCEPT !.state = "running"].state = "running"
              /\ [plugin[p] EXCEPT !.state = plugin[p].state] = plugin[p]
          BY <4>1 DEF Supervised
        <4>3. plugin' = [plugin EXCEPT ![p] = [plugin[p] EXCEPT !.state = "running"]]
              \/ plugin' = [plugin EXCEPT ![p] = [plugin[p] EXCEPT !.state = plugin[p].state]]
          BY <2>4
        <4>. QED BY <4>1, <4>2, <4>3
      <3>2. BudgetIsSpent'
        <4>. SUFFICES ASSUME NEW r \in Plugins
                     PROVE  tries'[r] <= plugin'[r].used
                              + IF plugin'[r].state \in {"absent", "waiting"} THEN 0 ELSE 1
          BY DEF BudgetIsSpent
        <4>1. /\ tries[r] \in Nat /\ plugin[r].used \in Nat /\ tries'[r] = tries[r]
              /\ tries[r] <= plugin[r].used
                      + IF plugin[r].state \in {"absent", "waiting"} THEN 0 ELSE 1
          BY <2>4 DEF BudgetIsSpent, Supervised
        <4>. QED BY <3>1, <4>1
      <3>. QED BY <1>0, <1>1, <2>2, <2>4, <3>1, <3>2
    <2>. QED BY <1>4, <2>3, <2>4 DEF JudgesWhatItSaw, Judges
  <1>5. CASE ExaminesWaiting(p)
    <2>1. plugin[p].state = "waiting" /\ ~runner.detached /\ runner'.at = "polling"
      BY <1>5 DEF ExaminesWaiting, DownAfterDetach, Examined, RunnerType
    <2>2. NotYetAttached' /\ DownAfterDetach'
      BY <1>0, <2>1 DEF NotYetAttached, DownAfterDetach
    <2>3. CASE Starts(p)
      BY <1>0, <1>1, <2>1, <2>2, <2>3, StartsInv
    <2>4. CASE UNCHANGED supervised
      BY <1>0, <1>1, <2>2, <2>4 DEF BudgetIsSpent
    <2>. QED BY <1>5, <2>3, <2>4 DEF ExaminesWaiting
  <1>6. CASE ExaminesStopping(p)
    <2>1. runner.at = "polling" /\ runner'.at = "polling" /\ plugin[p].state = "stopping"
      BY <1>6 DEF ExaminesStopping, Examined, RunnerType
    <2>2. CASE UNCHANGED supervised
      BY <1>0, <1>1, <2>1, <2>2 DEF BudgetIsSpent, NotYetAttached, DownAfterDetach
    <2>3. CASE LetsGo(p, [plugin[p] EXCEPT !.state = "stopped"]) /\ UNCHANGED tries
      <3>. DEFINE n == [plugin[p] EXCEPT !.state = "stopped"]
      <3>1. n \in Supervised /\ n.state = "stopped" /\ n.used = plugin[p].used
        BY DEF Supervised
      <3>2. LetsGo(p, n) /\ tries' = tries
        BY <2>3
      <3>. HIDE DEF n
      <3>3. /\ plugin' \in [Plugins -> Supervised] /\ child' \in [Plugins -> Children]
            /\ pipe' \in [Plugins -> Seq(Line)] /\ stray' \in Nat
            /\ plugin'[p] = n /\ \A r \in Plugins \ {p} : plugin'[r] = plugin[r]
        BY <3>1, <3>2, LetsGoInv
      <3>4. \A r \in Plugins : /\ plugin'[r].used = plugin[r].used
                               /\ plugin'[r].state \in {"absent", "waiting"}
                                     <=> plugin[r].state \in {"absent", "waiting"}
        BY <2>1, <3>1, <3>3
      <3>5. BudgetIsSpent'
        BY <3>2, <3>4 DEF BudgetIsSpent
      <3>6. NotYetAttached' /\ DownAfterDetach'
        BY <1>0, <2>1, <3>1, <3>3 DEF NotYetAttached, DownAfterDetach
      <3>. QED BY <1>0, <1>1, <3>2, <3>3, <3>5, <3>6
    <2>. QED BY <1>6, <2>2, <2>3 DEF ExaminesStopping
  <1>7. CASE ExaminesEnded(p)
    <2>1. UNCHANGED supervised /\ runner'.at = "polling" /\ runner.at = "polling"
      BY <1>7 DEF ExaminesEnded, Examined, RunnerType
    <2>. QED BY <1>0, <1>1, <2>1 DEF BudgetIsSpent, NotYetAttached, DownAfterDetach
  <1>. QED BY <1>2, <1>3, <1>4, <1>5, <1>6, <1>7 DEF Examines

-----------------------------------------------------------------------------
(* The other steps of the runner.                                            *)

RunnerTurns == \/ SeesEpoch \/ EndsWithoutFrame \/ Rests \/ TurnBegins \/ PollBegins
               \/ TurnEnds

LEMMA TurnsInv == ASSUME IInv, RunnerTurns PROVE IInv'
  <1>. USE DEF IInv, HostTypeOK, outside, supervised
  <1>1. /\ UNCHANGED <<supervised, outside>> /\ runner.at # "gone" /\ driver # "collected"
        /\ inbox' = inbox \/ inbox' = [inbox EXCEPT !.open = FALSE]
    BY DEF RunnerTurns, SeesEpoch, EndsWithoutFrame, Rests, TurnBegins, PollBegins, TurnEnds,
           GoneIsGone
  <1>2. /\ inbox' \in [queued : 0..Capacity, delivered : Nat, dropped : Nat, open : BOOLEAN]
        /\ Unread' = Unread
    BY <1>1 DEF Unread
  <1>3. /\ runner' \in RunnerType /\ runner'.hand = runner.hand
        /\ runner'.detached = runner.detached /\ runner'.at # "waiting"
        /\ runner'.at = "attaching" => runner.at = "waiting"
        /\ runner'.at = "gone" => runner.at = "waiting"
        /\ runner'.at # "judging"
    BY DEF RunnerTurns, SeesEpoch, EndsWithoutFrame, Rests, TurnBegins, PollBegins, TurnEnds,
           Goes, RunnerType
  <1>4. EventsAreAccountedFor'
    BY <1>1, <1>2, <1>3, Balanced
  <1>5. BudgetIsSpent' /\ GoneIsGone'
    BY <1>1, <1>3 DEF BudgetIsSpent, GoneIsGone, NotYetAttached
  <1>6. NotYetAttached' /\ DownAfterDetach'
    BY <1>1, <1>3 DEF NotYetAttached, DownAfterDetach, RunnerType
  <1>. QED BY <1>1, <1>2, <1>3, <1>4, <1>5, <1>6

(* The detach leaves nothing due.                                            *)
LEMMA DetachesInv == ASSUME IInv, Detaches PROVE IInv'
  <1>. USE DEF IInv, HostTypeOK, outside
  <1>1. /\ UNCHANGED <<child, pipe, stray, tries, inbox, outside>>
        /\ runner.at = "resting"
    BY DEF Detaches
  <1>2. /\ runner' \in RunnerType /\ runner'.hand = runner.hand
        /\ runner'.at = "draining" /\ runner'.detached
    BY DEF Detaches, RunnerType
  <1>3. \A p \in Plugins :
           /\ [plugin[p] EXCEPT !.state = IF child[p].life # "none" THEN "stopping"
                                          ELSE "stopped"] \in Supervised
           /\ plugin'[p].used = plugin[p].used
           /\ plugin'[p].state \in {"stopping", "stopped"}
    BY DEF Detaches, Supervised
  <1>4. plugin' \in [Plugins -> Supervised]
    BY <1>3 DEF Detaches
  <1>5. BudgetIsSpent'
    <2>. SUFFICES ASSUME NEW r \in Plugins
                 PROVE  tries'[r] <= plugin'[r].used
                          + IF plugin'[r].state \in {"absent", "waiting"} THEN 0 ELSE 1
      BY DEF BudgetIsSpent
    <2>1. plugin[r] \in Supervised /\ tries[r] \in Nat /\ tries'[r] = tries[r]
      BY <1>1
    <2>2. plugin[r].used \in Nat
      BY <2>1 DEF Supervised
    <2>3. tries[r] <= plugin[r].used + IF plugin[r].state \in {"absent", "waiting"} THEN 0 ELSE 1
      BY DEF BudgetIsSpent
    <2>4. tries[r] <= plugin[r].used + 1
      BY <2>1, <2>2, <2>3
    <2>. QED BY <1>3, <2>1, <2>2, <2>4
  <1>6. NotYetAttached' /\ DownAfterDetach' /\ GoneIsGone'
    BY <1>1, <1>2, <1>3 DEF NotYetAttached, DownAfterDetach, GoneIsGone
  <1>7. EventsAreAccountedFor'
    BY <1>1, <1>2 DEF EventsAreAccountedFor
  <1>. QED BY <1>1, <1>2, <1>4, <1>5, <1>6, <1>7

(* An event leaves the queue for the runner's hand, and its hand for what is *)
(* kept, or is counted as lost.                                              *)
LEMMA DrainsInv == ASSUME IInv, Drains PROVE IInv'
  <1>. USE DEF IInv, HostTypeOK, outside, supervised
  <1>1. UNCHANGED <<supervised, outside>> /\ runner.at = "draining"
    BY DEF Drains
  <1>2. /\ inbox.queued \in 0..Capacity /\ inbox.queued > 0 /\ runner.hand \in 0..Capacity
        /\ runner.hand < Capacity /\ Capacity \in Nat
    BY PolicyAssumption DEF Drains, RunnerType
  <1>3. inbox.queued - 1 \in 0..Capacity /\ runner.hand + 1 \in 0..Capacity
    BY <1>2
  <1>4. /\ inbox' \in [queued : 0..Capacity, delivered : Nat, dropped : Nat, open : BOOLEAN]
        /\ inbox'.queued = inbox.queued - 1 /\ inbox'.delivered = inbox.delivered
    BY <1>3 DEF Drains
  <1>5. /\ runner' \in RunnerType /\ runner'.hand = runner.hand + 1
        /\ runner'.at = runner.at /\ runner'.left = runner.left
        /\ runner'.detached = runner.detached
    BY <1>3 DEF Drains, RunnerType
  <1>6. EventsAreAccountedFor'
    <2>1. /\ inbox.delivered \in Nat /\ inbox.queued \in Nat /\ runner.hand \in Nat
          /\ collected.events \in Nat /\ collected.lost \in Nat /\ session \in Nat
      BY PolicyAssumption DEF RunnerType
    <2>. QED BY <1>1, <1>4, <1>5, <2>1 DEF EventsAreAccountedFor
  <1>7. BudgetIsSpent' /\ NotYetAttached' /\ DownAfterDetach' /\ GoneIsGone'
    BY <1>1, <1>5 DEF BudgetIsSpent, NotYetAttached, DownAfterDetach, GoneIsGone
  <1>. QED BY <1>1, <1>4, <1>5, <1>6, <1>7

LEMMA PublishesInv == ASSUME IInv, Publishes PROVE IInv'
  <1>. USE DEF IInv, HostTypeOK, outside, supervised
  <1>. DEFINE room == AtMost(runner.hand, MaxKept - collected.events)
  <1>1. /\ UNCHANGED <<supervised, inbox, stopping, epoch, driver, session, said>>
        /\ runner.at = "polling"
        /\ collected' = [events |-> collected.events + room,
                         lost |-> collected.lost + runner.hand - room,
                         dropped |-> inbox.dropped]
    BY DEF Publishes
  <1>2. /\ runner.hand \in Nat /\ MaxKept \in Nat /\ collected.events \in 0..MaxKept
        /\ collected.lost \in Nat /\ inbox.dropped \in Nat /\ inbox.queued \in Nat
        /\ inbox.delivered \in Nat /\ session \in Nat
    BY PolicyAssumption DEF RunnerType
  <1>3. room \in Nat /\ room <= runner.hand /\ room <= MaxKept - collected.events
    BY <1>2 DEF AtMost
  <1>. HIDE DEF room
  <1>4. /\ collected.events + room \in 0..MaxKept
        /\ collected.lost + runner.hand - room \in Nat
    BY <1>2, <1>3
  <1>5. collected' \in [events : 0..MaxKept, lost : Nat, dropped : Nat]
    BY <1>1, <1>2, <1>4
  <1>6. /\ runner' \in RunnerType /\ runner'.hand = 0 /\ runner'.at = "checking"
        /\ runner'.detached = runner.detached
    <2>1. 0 \in 0..Capacity
      BY PolicyAssumption
    <2>. QED BY <2>1 DEF Publishes, RunnerType
  <1>7. EventsAreAccountedFor'
    BY <1>1, <1>2, <1>3, <1>6 DEF EventsAreAccountedFor
  <1>8. BudgetIsSpent' /\ NotYetAttached' /\ DownAfterDetach' /\ GoneIsGone'
    BY <1>1, <1>6 DEF BudgetIsSpent, NotYetAttached, DownAfterDetach, GoneIsGone
  <1>. QED BY <1>1, <1>5, <1>6, <1>7, <1>8

LEMMA ChecksEndInv == ASSUME IInv, ChecksEnd PROVE IInv'
  <1>. USE DEF IInv, HostTypeOK, outside, supervised
  <1>1. /\ UNCHANGED <<supervised, inbox, stopping, epoch, driver, session, said>>
        /\ runner.at = "checking"
        /\ collected' = collected \/ collected' = [collected EXCEPT !.dropped = inbox.dropped]
    BY DEF ChecksEnd
  <1>2. /\ collected' \in [events : 0..MaxKept, lost : Nat, dropped : Nat]
        /\ collected'.events = collected.events /\ collected'.lost = collected.lost
    BY <1>1
  <1>3. /\ runner' \in RunnerType /\ runner'.hand = runner.hand
        /\ runner'.at \in {"leaving", "draining"} /\ runner'.detached = runner.detached
    BY DEF ChecksEnd, Goes, RunnerType
  <1>4. EventsAreAccountedFor'
    BY <1>1, <1>2, <1>3 DEF EventsAreAccountedFor
  <1>5. BudgetIsSpent' /\ NotYetAttached' /\ DownAfterDetach' /\ GoneIsGone'
    BY <1>1, <1>3 DEF BudgetIsSpent, NotYetAttached, DownAfterDetach, GoneIsGone
  <1>. QED BY <1>1, <1>2, <1>3, <1>4, <1>5

LEMMA LeavesInv == ASSUME IInv, Leaves PROVE IInv'
  <1>. USE DEF IInv, HostTypeOK, outside
  <1>1. NoChild \in Children /\ NoChild.life = "none" /\ <<>> \in Seq(Line)
    BY DEF NoChild, Children
  <1>2. /\ UNCHANGED <<plugin, tries, outside>> /\ runner.at = "leaving"
        /\ child' \in [Plugins -> Children] /\ pipe' \in [Plugins -> Seq(Line)] /\ stray' = 0
        /\ \A p \in Plugins : child'[p].life = "none"
    BY <1>1 DEF Leaves
  <1>3. /\ runner' \in RunnerType /\ runner'.hand = runner.hand /\ runner'.at = "gone"
        /\ runner'.detached = runner.detached
    BY DEF Leaves, Goes, RunnerType
  <1>4. /\ inbox' \in [queued : 0..Capacity, delivered : Nat, dropped : Nat, open : BOOLEAN]
        /\ Unread' = Unread
    BY DEF Leaves, Unread
  <1>5. EventsAreAccountedFor'
    BY <1>2, <1>3, <1>4, Balanced
  <1>6. BudgetIsSpent' /\ NotYetAttached' /\ DownAfterDetach' /\ GoneIsGone'
    BY <1>2, <1>3 DEF BudgetIsSpent, NotYetAttached, DownAfterDetach, GoneIsGone
  <1>. QED BY <1>2, <1>3, <1>4, <1>5, <1>6

-----------------------------------------------------------------------------
(* The recording, the driver, and time.                                      *)
LEMMA DriverInv == ASSUME IInv, DriverStep PROVE IInv'
  <1>. USE DEF IInv, HostTypeOK, supervised
  <1>1. UNCHANGED <<supervised, inbox, runner, said>>
    BY DEF DriverStep, FirstFrame, RecordingEnds, TakesEvents, AsksToStop, Joins
  <1>2. BudgetIsSpent' /\ NotYetAttached' /\ DownAfterDetach'
    BY <1>1 DEF BudgetIsSpent, NotYetAttached, DownAfterDetach
  <1>3. /\ driver' \in {"recording", "ended", "joining", "collected"}
        /\ stopping' \in BOOLEAN /\ epoch' \in BOOLEAN
        /\ driver' = "collected" => runner.at = "gone"
    BY DEF DriverStep, FirstFrame, RecordingEnds, TakesEvents, AsksToStop, Joins, GoneIsGone
  <1>4. /\ collected' \in [events : 0..MaxKept, lost : Nat, dropped : Nat] /\ session' \in Nat
        /\ EventsAreAccountedFor'
    <2>1. CASE TakesEvents
      <3>1. /\ collected' \in [events : 0..MaxKept, lost : Nat, dropped : Nat]
            /\ collected'.events = 0 /\ collected'.lost = collected.lost
            /\ session' = session + collected.events
        <4>1. 0 \in 0..MaxKept
          BY PolicyAssumption
        <4>2. /\ collected' = [collected EXCEPT !.events = 0]
              /\ session' = session + collected.events
          BY <2>1 DEF TakesEvents
        <4>. QED BY <4>1, <4>2
      <3>2. /\ inbox.delivered \in Nat /\ inbox.queued \in Nat /\ runner.hand \in Nat
            /\ collected.events \in Nat /\ collected.lost \in Nat /\ session \in Nat
        BY PolicyAssumption DEF RunnerType
      <3>. QED BY <1>1, <3>1, <3>2 DEF EventsAreAccountedFor
    <2>2. CASE ~TakesEvents
      <3>1. collected' = collected /\ session' = session
        BY <2>2 DEF DriverStep, FirstFrame, RecordingEnds, AsksToStop, Joins
      <3>. QED BY <1>1, <3>1 DEF EventsAreAccountedFor
    <2>. QED BY <2>1, <2>2
  <1>5. GoneIsGone'
    BY <1>1, <1>3 DEF GoneIsGone
  <1>. QED BY <1>1, <1>2, <1>3, <1>4, <1>5

LEMMA DelaysAreNumbers ==
  Longest \in Nat /\ SilenceTimeout \in Nat /\ StopGrace + PollInterval \in Nat
  <1>1. HelloTimeout \in Nat /\ SettledAfter \in Nat /\ SilenceTimeout \in Nat
    BY PolicyAssumption
  <1>2. StopGrace \in Nat /\ PollInterval \in Nat
    BY PolicyAssumption
  <1>. QED BY <1>1, <1>2 DEF Longest

LEMMA TickInv == ASSUME IInv, Tick PROVE IInv'
  <1>. USE DEF IInv, HostTypeOK, outside
  <1>1. UNCHANGED <<pipe, stray, inbox, outside, tries>>
    BY DEF Tick
  <1>2. Longest \in Nat /\ SilenceTimeout \in Nat /\ StopGrace + PollInterval \in Nat
    BY DelaysAreNumbers
  <1>3. \A n, m \in Nat : AtMost(n + 1, m) \in Nat
    BY DEF AtMost
  <1>4. /\ child' \in [Plugins -> Children]
        /\ \A p \in Plugins : child'[p].life = child[p].life
    <2>1. ASSUME NEW p \in Plugins
          PROVE  /\ [child[p] EXCEPT !.up = AtMost(@ + 1, Longest),
                                     !.quiet = AtMost(@ + 1, SilenceTimeout)] \in Children
                 /\ [child[p] EXCEPT !.up = AtMost(@ + 1, Longest),
                                     !.quiet = AtMost(@ + 1, SilenceTimeout)].life
                      = child[p].life
      <3>1. child[p] \in Children
        OBVIOUS
      <3>2. AtMost(child[p].up + 1, Longest) \in Nat
            /\ AtMost(child[p].quiet + 1, SilenceTimeout) \in Nat
        BY <1>2, <1>3, <3>1 DEF Children
      <3>. QED BY <3>1, <3>2 DEF Children
    <2>. QED BY <2>1 DEF Tick
  <1>5. /\ plugin' \in [Plugins -> Supervised]
        /\ \A p \in Plugins : /\ plugin'[p].state = plugin[p].state
                              /\ plugin'[p].used = plugin[p].used
    <2>1. ASSUME NEW p \in Plugins
          PROVE  LET q == [plugin[p] EXCEPT !.due = IF @ = 0 THEN 0 ELSE @ - 1]
                 IN  q \in Supervised /\ q.state = plugin[p].state /\ q.used = plugin[p].used
      <3>1. plugin[p] \in Supervised
        OBVIOUS
      <3>2. (IF plugin[p].due = 0 THEN 0 ELSE plugin[p].due - 1) \in Nat
        BY <3>1 DEF Supervised
      <3>. QED BY <3>1, <3>2 DEF Supervised
    <2>. QED BY <2>1 DEF Tick
  <1>6. /\ runner' \in RunnerType /\ runner'.hand = runner.hand /\ runner'.at = runner.at
        /\ runner'.left = runner.left /\ runner'.detached = runner.detached
    <2>1. (IF runner.detached THEN AtMost(runner.asked + 1, StopGrace + PollInterval)
           ELSE 0) \in Nat
      BY <1>2, <1>3 DEF RunnerType
    <2>. QED BY <2>1 DEF Tick, RunnerType
  <1>7. EventsAreAccountedFor'
    BY <1>1, <1>6 DEF EventsAreAccountedFor
  <1>8. BudgetIsSpent' /\ NotYetAttached' /\ DownAfterDetach' /\ GoneIsGone'
    <2>1. BudgetIsSpent'
      BY <1>1, <1>5 DEF BudgetIsSpent
    <2>2. NotYetAttached'
      <3>1. runner.left \in SUBSET Plugins
        BY DEF RunnerType
      <3>. QED BY <1>4, <1>5, <1>6, <3>1 DEF NotYetAttached
    <2>3. DownAfterDetach' /\ GoneIsGone'
      BY <1>1, <1>4, <1>5, <1>6 DEF DownAfterDetach, GoneIsGone
    <2>. QED BY <2>1, <2>2, <2>3
  <1>. QED BY <1>1, <1>4, <1>5, <1>6, <1>7, <1>8

LEMMA NextInv == IInv /\ [Next]_vars => IInv'
  <1>. SUFFICES ASSUME IInv, [Next]_vars PROVE IInv'
    OBVIOUS
  <1>1. CASE UNCHANGED vars
    BY <1>1 DEF vars, IInv, HostTypeOK, BudgetIsSpent, NotYetAttached, DownAfterDetach,
                GoneIsGone, EventsAreAccountedFor
  <1>2. CASE RunnerStep
    BY <1>2, TurnsInv, DetachesInv, DrainsInv, PublishesInv, ChecksEndInv, LeavesInv,
       ExaminesInv DEF RunnerStep, RunnerTurns
  <1>3. CASE DriverStep
    BY <1>3, DriverInv
  <1>4. CASE ReadsStray \/ \E p \in Plugins : OutputStep(p) \/ Reads(p)
    BY <1>4, OutputInv, ReadsInv
  <1>5. CASE Tick
    BY <1>5, TickInv
  <1>. QED BY <1>1, <1>2, <1>3, <1>4, <1>5 DEF Next

LEMMA Invariance == Spec => []IInv
  BY InitInv, NextInv, PTL DEF Spec

-----------------------------------------------------------------------------
(* However its plug-ins fail, the host starts none more often than its       *)
(* budget allows, loses no event uncounted, and leaves none behind.          *)
THEOREM HostIsHeld == Spec => []HostIsSound
  <1>1. IInv => HostIsSound
    <2>. SUFFICES ASSUME IInv PROVE HostIsSound
      OBVIOUS
    <2>1. ReplacementsAreBounded
      <3>. SUFFICES ASSUME NEW p \in Plugins PROVE tries[p] <= Attempts + 1
        BY DEF ReplacementsAreBounded
      <3>1. tries[p] \in Nat /\ plugin[p].used \in 0..Attempts /\ Attempts \in Nat
        BY PolicyAssumption DEF IInv, HostTypeOK, Supervised
      <3>2. tries[p] <= plugin[p].used + 1
        BY <3>1 DEF IInv, BudgetIsSpent
      <3>. QED BY <3>1, <3>2
    <2>2. NoneOutlivesTheRecording
      BY DEF NoneOutlivesTheRecording, IInv, GoneIsGone
    <2>. QED BY <2>1, <2>2 DEF HostIsSound, IInv
  <1>. QED BY <1>1, Invariance, PTL

(* A plug-in that was given up on, or that the end of the recording found    *)
(* waiting for its replacement, is not started again.                        *)
LEMMA GivenUpStep ==
  ASSUME IInv, [Next]_vars, NEW p \in Plugins,
         runner.detached \/ plugin[p].state = "disabled"
  PROVE  tries'[p] <= tries[p]
  <1>0. tries \in [Plugins -> Nat]
    BY DEF IInv, HostTypeOK
  <1>1. ASSUME NEW r \in Plugins, Attaches(r) PROVE tries'[p] <= tries[p]
    <2>1. r # p
      BY <1>1 DEF Attaches, IInv, DownAfterDetach, NotYetAttached
    <2>. QED BY <1>0, <1>1, <2>1 DEF Attaches, Starts
  <1>2. ASSUME NEW r \in Plugins, ExaminesWaiting(r) PROVE tries'[p] <= tries[p]
    <2>1. r # p
      BY <1>2 DEF ExaminesWaiting, IInv, DownAfterDetach
    <2>2. tries' = [tries EXCEPT ![r] = @ + 1] \/ tries' = tries
      BY <1>2 DEF ExaminesWaiting, Starts, supervised
    <2>. QED BY <1>0, <2>1, <2>2
  <1>3. ASSUME NEW r \in Plugins, JudgesWhatItSaw(r) PROVE tries'[p] <= tries[p]
    <2>1. CASE \E restartable \in BOOLEAN : Recovers(r, restartable)
      <3>1. PICK restartable \in BOOLEAN : Recovers(r, restartable)
        BY <2>1
      <3>2. tries'[r] <= tries[r] /\ \A o \in Plugins \ {r} : tries'[o] = tries[o]
        BY <3>1, RecoversInv
      <3>. QED BY <1>0, <3>2
    <2>2. CASE UNCHANGED tries
      BY <1>0, <2>2
    <2>. QED BY <1>3, <2>1, <2>2 DEF JudgesWhatItSaw, Judges
  <1>4. CASE UNCHANGED tries
    BY <1>0, <1>4
  <1>5. \/ \E r \in Plugins : Attaches(r) \/ ExaminesWaiting(r) \/ JudgesWhatItSaw(r)
        \/ UNCHANGED tries
    <2>1. CASE RunnerStep
      BY <2>1 DEF RunnerStep, Examines, SeesEpoch, EndsWithoutFrame, Rests, Detaches,
         TurnBegins, Drains, PollBegins, Publishes, TurnEnds, ChecksEnd, Leaves, Looks,
         ExaminesStopping, ExaminesEnded, supervised
    <2>2. CASE DriverStep \/ ReadsStray \/ Tick \/ UNCHANGED vars
      BY <2>2 DEF DriverStep, FirstFrame, RecordingEnds, TakesEvents, AsksToStop, Joins,
         ReadsStray, Tick, supervised, vars
    <2>3. CASE \E r \in Plugins : OutputStep(r) \/ Reads(r)
      BY <2>3 DEF OutputStep, Says, Exits, Reads
    <2>. QED BY <2>1, <2>2, <2>3 DEF Next
  <1>. QED BY <1>1, <1>2, <1>3, <1>4, <1>5

(* What the host gave up on stays down: no replacement that was due comes    *)
(* after the plug-in was disabled or asked to finish.                        *)
THEOREM GivenUpIsFinal == Spec => GivenUpStaysDown
  <1>1. IInv /\ [Next]_vars =>
          [\A p \in Plugins :
              runner.detached \/ plugin[p].state = "disabled" => tries'[p] <= tries[p]]_vars
    BY GivenUpStep
  <1>. QED BY <1>1, Invariance, PTL DEF Spec, GivenUpStaysDown
=============================================================================
