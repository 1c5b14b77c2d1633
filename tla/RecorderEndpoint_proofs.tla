----------------------- MODULE RecorderEndpoint_proofs -----------------------
(* The two ends of the recorder's endpoint: the server's safety invariants, *)
(* for any clients and any limits, and what the desktop application's links *)
(* may start, for any number of links, recorders and attempts.              *)
EXTENDS RecorderServer, RecorderLink, FiniteSetTheorems, TLAPS

(* Whoever knocked raised the flag first, and the instance the accept loop  *)
(* was woken by belongs to a client that no thread serves yet.              *)
KnockFollowsFlag ==
    /\ pending = Waker => stopping
    /\ console \in {"knocking", "ended"} => stopping
    /\ \A c \in Clients : thread[c] = "knocking" => stopping
PendingIsNew ==
    /\ pending \in Clients => thread[pending] = "none"
    /\ main = "connected" => pending # Free

ServerInv == /\ ServerTypeOK /\ LiveIsHonest /\ DoorIsAccountedFor
        /\ WhatRanIsFinished /\ KnockFollowsFlag /\ PendingIsNew

LEMMA NotClients == Waker \notin Clients /\ Free \notin Clients /\ Free # Waker
  BY ServerAssumption

Served == {c \in Clients : thread[c] # "none"}

LEMMA ServedFinite == IsFiniteSet(Served) /\ Cardinality(Served) \in Nat
  <1>1. Served \in SUBSET Clients
    BY DEF Served
  <1>. QED BY <1>1, FS_Subset, FS_CardinalityType, ServerAssumption

LEMMA CountStays ==
    ASSUME LiveIsHonest, UNCHANGED <<live, thread>> PROVE LiveIsHonest'
  <1>1. {c \in Clients : thread'[c] # "none"} = {c \in Clients : thread[c] # "none"}
    OBVIOUS
  <1>. QED BY <1>1 DEF LiveIsHonest

(* A connection that goes on is counted as before.                          *)
LEMMA GoesKeepsCount ==
    ASSUME ServerInv, NEW c \in Clients, NEW place \in Places \ {"none"},
           thread[c] # "none", Goes(c, place)
    PROVE  LiveIsHonest' /\ thread' \in [Clients -> Places] /\ live' = live
           /\ here' = here /\ \A d \in Clients : thread'[d] = IF d = c THEN place ELSE thread[d]
  <1>1. thread' \in [Clients -> Places] /\ live' = live /\ here' = here
        /\ \A d \in Clients : thread'[d] = IF d = c THEN place ELSE thread[d]
    BY DEF Goes, ServerInv, ServerTypeOK
  <1>2. {d \in Clients : thread'[d] # "none"} = {d \in Clients : thread[d] # "none"}
    BY <1>1
  <1>. QED BY <1>1, <1>2 DEF ServerInv, LiveIsHonest

(* A connection that ends gives its count back.                             *)
LEMMA EndsGivesCountBack ==
    ASSUME ServerInv, NEW c \in Clients, thread[c] # "none", Ends(c)
    PROVE  LiveIsHonest' /\ thread' \in [Clients -> Places] /\ live' \in Nat
           /\ here' = here \ {c}
           /\ \A d \in Clients : thread'[d] = IF d = c THEN "none" ELSE thread[d]
  <1>1. thread' \in [Clients -> Places] /\ here' = here \ {c} /\ live' = live - 1
        /\ \A d \in Clients : thread'[d] = IF d = c THEN "none" ELSE thread[d]
    BY DEF Ends, ServerInv, ServerTypeOK, Places
  <1>2. {d \in Clients : thread'[d] # "none"} = Served \ {c} /\ c \in Served
    BY <1>1 DEF Served
  <1>3. Cardinality(Served \ {c}) = Cardinality(Served) - 1
        /\ Cardinality(Served \ {c}) \in Nat
    BY <1>2, ServedFinite, FS_RemoveElement, FS_CardinalityType
  <1>4. live = Cardinality(Served) /\ live <= MaxConnections /\ live \in Nat
    BY DEF ServerInv, LiveIsHonest, Served, ServerTypeOK
  <1>5. live' = Cardinality(Served \ {c}) /\ live' \in Nat /\ live' <= MaxConnections
    BY <1>1, <1>3, <1>4, ServerAssumption
  <1>6. LiveIsHonest'
    BY <1>2, <1>5 DEF LiveIsHonest
  <1>. QED BY <1>1, <1>5, <1>6

(* What the record of a recording is after each write to it.                *)
RecordingStates ==
    [is : {"none", "running", "ended"}, told : BOOLEAN, late : BOOLEAN]

LEMMA RecordingFacts ==
    ASSUME recording \in RecordingStates
    PROVE  /\ NoRecording \in RecordingStates /\ NoRecording.is = "none"
           /\ [recording EXCEPT !.told = TRUE] \in RecordingStates
           /\ [recording EXCEPT !.told = TRUE].is = recording.is
           /\ [recording EXCEPT !.told = TRUE].late = recording.late
           /\ [recording EXCEPT !.is = "ended"] \in RecordingStates
           /\ [recording EXCEPT !.is = "ended"].is = "ended"
  BY DEF RecordingStates, NoRecording

LEMMA ServerInitInv == Init => ServerInv
  <1>. SUFFICES ASSUME Init PROVE ServerInv
    OBVIOUS
  <1>1. {c \in Clients : thread[c] # "none"} = {}
    BY DEF Init
  <1>2. LiveIsHonest
    BY <1>1, FS_EmptySet, ServerAssumption DEF LiveIsHonest, Init
  <1>3. ServerTypeOK
    <2>1. recording \in RecordingStates
      BY DEF Init, NoRecording, RecordingStates
    <2>2. thread \in [Clients -> Places]
      BY DEF Init, Places
    <2>3. started \in 0..MaxRecordings
      BY ServerAssumption DEF Init
    <2>. QED BY <2>1, <2>2, <2>3
         DEF Init, ServerTypeOK, RecordingStates, Accepting, Leaving
  <1>4. DoorIsAccountedFor /\ WhatRanIsFinished
    BY DEF Init, DoorIsAccountedFor, WhatRanIsFinished, NoRecording, Running
  <1>5. KnockFollowsFlag /\ PendingIsNew
    BY ServerAssumption DEF Init, KnockFollowsFlag, PendingIsNew
  <1>. QED BY <1>2, <1>3, <1>4, <1>5 DEF ServerInv

(* The main thread.                                                         *)
LEMMA MainInv == ServerInv /\ Main => ServerInv'
  <1>. SUFFICES ASSUME ServerInv, Main PROVE ServerInv'
    OBVIOUS
  <1>. USE ServerAssumption
       DEF ServerInv, ServerTypeOK, DoorIsAccountedFor, WhatRanIsFinished,
           KnockFollowsFlag, PendingIsNew, Running, Accepting, Leaving,
           connections, door, recorder
  <1>1. CASE AcceptChecks \/ ConnectInstance \/ Woken \/ AcceptEnds \/ NoNextInstance
    BY <1>1, CountStays
       DEF AcceptChecks, ConnectInstance, Woken, AcceptEnds, NoNextInstance
  <1>2. CASE HandOver
    <2>1. pending \in Clients /\ thread[pending] = "none"
      BY <1>2 DEF HandOver
    <2>2. CASE UNCHANGED <<live, thread>>
      BY <1>2, <2>1, <2>2, CountStays DEF HandOver
    <2>3. CASE /\ live < MaxConnections /\ live' = live + 1
               /\ thread' = [thread EXCEPT ![pending] = "greeting"]
               /\ UNCHANGED here
      <3>1. thread' \in [Clients -> Places]
            /\ \A d \in Clients :
                  thread'[d] = IF d = pending THEN "greeting" ELSE thread[d]
        BY <2>1, <2>3 DEF Places
      <3>2. {d \in Clients : thread'[d] # "none"} = Served \cup {pending}
            /\ pending \notin Served
        BY <2>1, <3>1 DEF Served
      <3>3. Cardinality(Served \cup {pending}) = Cardinality(Served) + 1
        BY <3>2, ServedFinite, FS_AddElement
      <3>4. LiveIsHonest'
        BY <2>3, <3>2, <3>3 DEF LiveIsHonest, Served
      <3>. QED BY <1>2, <2>3, <3>1, <3>4 DEF HandOver
    <2>. QED BY <1>2, <2>2, <2>3 DEF HandOver
  <1>3. recording \in RecordingStates
    BY DEF RecordingStates
  <1>4. CASE ShutDown
    BY <1>3, <1>4, CountStays, RecordingFacts DEF ShutDown, Tell, RecordingStates
  <1>5. CASE CollectLast
    BY <1>3, <1>5, CountStays, RecordingFacts DEF CollectLast, Take, RecordingStates
  <1>6. CASE Close \/ Exit
    BY <1>6, CountStays DEF Close, Exit
  <1>. QED BY <1>1, <1>2, <1>4, <1>5, <1>6 DEF Main, Accept

(* The console's thread, the recording's, and the clients.                  *)
LEMMA OthersInv ==
    ASSUME ServerInv,
           Console \/ Interrupt \/ Finish \/ \E c \in Clients : Client(c)
    PROVE  ServerInv'
  <1>. USE ServerAssumption
       DEF ServerInv, ServerTypeOK, DoorIsAccountedFor, WhatRanIsFinished,
           KnockFollowsFlag, PendingIsNew, Running, Accepting, Leaving,
           connections, door, recorder
  <1>1. CASE ConsoleStops
    BY <1>1, CountStays DEF ConsoleStops
  <1>5. CASE Interrupt
    BY <1>5, CountStays DEF Interrupt
  <1>4. CASE ConsoleKnocks
    <2>1. CASE pending = Free /\ pending' = Waker
      BY <1>4, <2>1, CountStays, NotClients DEF ConsoleKnocks
    <2>2. CASE pending # Free /\ pending' = pending
      BY <1>4, <2>2, CountStays DEF ConsoleKnocks
    <2>. QED BY <1>4, <2>1, <2>2 DEF ConsoleKnocks, Knock
  <1>3. CASE Finish
    <2>0. recording \in RecordingStates
      BY DEF RecordingStates
    <2>1. recording' \in RecordingStates /\ recording'.is = "ended"
      BY <1>3, <2>0, RecordingFacts DEF Finish
    <2>. QED BY <1>3, <2>1, CountStays DEF Finish, RecordingStates
  <1>2. ASSUME NEW c \in Clients, Client(c) PROVE ServerInv'
    BY <1>2, CountStays DEF Client, Open, HangUp
  <1>. QED BY <1>1, <1>2, <1>3, <1>4, <1>5 DEF Console

(* A connection's thread, at whatever it is.                                *)
LEMMA ConnectionInv ==
    ASSUME ServerInv, NEW c \in Clients, Connection(c) PROVE ServerInv'
  <1>. USE DEF ServerInv, ServerTypeOK, DoorIsAccountedFor, WhatRanIsFinished,
               KnockFollowsFlag, PendingIsNew, Running, Accepting, Leaving,
               connections, door, recorder
  <1>1. CASE Greet(c) \/ Leaves(c) \/ PassTheDoor(c)
    BY <1>1, GoesKeepsCount, EndsGivesCountBack
       DEF Greet, Leaves, PassTheDoor, Places
  <1>2. CASE Start(c)
    <2>1. thread[c] = "starting"
      BY <1>2 DEF Start
    <2>2. /\ LiveIsHonest' /\ thread' \in [Clients -> Places] /\ live' \in Nat
          /\ here' \subseteq Clients
          /\ \A d \in Clients :
                thread'[d] = thread[d] \/ (d = c /\ thread'[d] \in {"reading", "none"})
      BY <1>2, <2>1, GoesKeepsCount, EndsGivesCountBack DEF Start, Answers, Places
    <2>3. /\ recording' \in RecordingStates /\ started' \in 0..MaxRecordings
          /\ LookedForTheLast /\ recording'.is = "running" => recording'.late
      <3>1. CASE UNCHANGED recorder
        <4>1. recording' = recording /\ started' = started
          BY <3>1
        <4>2. recording \in RecordingStates
          BY DEF RecordingStates
        <4>. QED BY <4>1, <4>2 DEF LookedForTheLast
      <3>2. CASE /\ started < MaxRecordings /\ started' = started + 1
                 /\ recording' = [is |-> "running", told |-> FALSE,
                                  late |-> LookedForTheLast]
        <4>1. started' \in 0..MaxRecordings
          BY <3>2, ServerAssumption
        <4>2. CASE LookedForTheLast
          <5>1. recording' = [is |-> "running", told |-> FALSE, late |-> TRUE]
            BY <3>2, <4>2
          <5>. QED BY <4>1, <5>1 DEF RecordingStates
        <4>3. CASE ~LookedForTheLast
          <5>0. LookedForTheLast = FALSE
            BY <4>3 DEF LookedForTheLast
          <5>1. recording' = [is |-> "running", told |-> FALSE, late |-> FALSE]
            BY <3>2, <5>0
          <5>. QED BY <4>1, <4>3, <5>1 DEF RecordingStates
        <4>. QED BY <4>2, <4>3
      <3>. QED BY <1>2, <3>1, <3>2 DEF Start
    <2>. QED BY <1>2, <2>1, <2>2, <2>3
         DEF Start, LookedForTheLast, RecordingStates, Up
  <1>3. CASE StopRecording(c)
    <2>1. recording \in RecordingStates /\ thread[c] = "reading"
      BY <1>3 DEF RecordingStates, StopRecording
    <2>2. CASE UNCHANGED <<recorder, connections>>
      BY <1>3, <2>2, CountStays DEF StopRecording
    <2>3. CASE Tell /\ Goes(c, "waiting")
      BY <1>3, <2>1, <2>3, GoesKeepsCount, RecordingFacts
         DEF StopRecording, Tell, Places, RecordingStates
    <2>. QED BY <1>3, <2>2, <2>3 DEF StopRecording
  <1>4. CASE Collect(c)
    BY <1>4, GoesKeepsCount, EndsGivesCountBack
       DEF Collect, Take, NoRecording, Answers, Places
  <1>5. CASE Begin(c)
    BY <1>5, GoesKeepsCount DEF Begin, Places
  <1>6. CASE Refuse(c)
    <2>0. thread[c] = "deciding" /\ UNCHANGED <<recording, started>>
          /\ recording' \in RecordingStates
      BY <1>6 DEF Refuse, RecordingStates
    <2>1. CASE Goes(c, "reading")
      <3>1. /\ LiveIsHonest' /\ thread' \in [Clients -> Places] /\ live' = live
            /\ here' = here
            /\ \A d \in Clients : thread'[d] = IF d = c THEN "reading" ELSE thread[d]
        BY <2>0, <2>1, GoesKeepsCount DEF Places
      <3>. QED BY <1>6, <2>0, <3>1 DEF Refuse, RecordingStates
    <2>2. CASE Ends(c)
      <3>1. /\ LiveIsHonest' /\ thread' \in [Clients -> Places] /\ live' \in Nat
            /\ here' = here \ {c}
            /\ \A d \in Clients : thread'[d] = IF d = c THEN "none" ELSE thread[d]
        BY <2>0, <2>2, EndsGivesCountBack
      <3>. QED BY <1>6, <2>0, <3>1 DEF Refuse, RecordingStates
    <2>. QED BY <1>6, <2>1, <2>2 DEF Refuse, Answers
  <1>7. CASE AcceptShutdown(c)
    <2>1. CASE Goes(c, "requesting") /\ UNCHANGED unheard
      BY <1>7, <2>1, GoesKeepsCount DEF AcceptShutdown, Places
    <2>2. CASE Ends(c) /\ unheard' = TRUE
      BY <1>7, <2>2, EndsGivesCountBack DEF AcceptShutdown
    <2>. QED BY <1>7, <2>1, <2>2 DEF AcceptShutdown
  <1>8. CASE Request(c)
    BY <1>8, GoesKeepsCount DEF Request, Places
  <1>9. CASE KnockAndLeave(c)
    <2>1. thread[c] = "knocking" /\ Ends(c)
      BY <1>9 DEF KnockAndLeave
    <2>2. /\ LiveIsHonest' /\ thread' \in [Clients -> Places] /\ live' \in Nat
          /\ here' = here \ {c}
          /\ \A d \in Clients : thread'[d] = IF d = c THEN "none" ELSE thread[d]
      BY <2>1, EndsGivesCountBack
    <2>3. CASE pending = Free /\ pending' = Waker
      BY <1>9, <2>1, <2>2, <2>3, NotClients DEF KnockAndLeave
    <2>4. CASE pending # Free /\ pending' = pending
      BY <1>9, <2>1, <2>2, <2>4 DEF KnockAndLeave
    <2>. QED BY <1>9, <2>3, <2>4 DEF KnockAndLeave, Knock
  <1>. QED BY <1>1, <1>2, <1>3, <1>4, <1>5, <1>6, <1>7, <1>8, <1>9
       DEF Connection, Serves

LEMMA StepInv == ServerInv /\ [Next]_vars => ServerInv'
  <1>1. ASSUME ServerInv, UNCHANGED vars PROVE ServerInv'
    BY <1>1, CountStays DEF vars, ServerInv, ServerTypeOK, DoorIsAccountedFor, Running,
       WhatRanIsFinished, KnockFollowsFlag, PendingIsNew,
       door, connections, recorder
  <1>. QED BY <1>1, MainInv, OthersInv, ConnectionInv DEF Next

(* Every thread of the server, its clients and the console keep it.          *)
THEOREM ServerInvariance == Spec => []ServerInv
  BY ServerInitInv, StepInv, PTL DEF Spec

(* Of whatever the connections ask of a recorder that leaves, only a        *)
(* recording started after its last look is without its outcome at the end. *)
THEOREM LastLookIsFinished == Spec => []WhatRanIsFinished
  BY ServerInvariance, PTL DEF ServerInv

(* No order of shutdowns, refusals and hang-ups leaves the door shut, but    *)
(* an acceptance that nobody heard.                                         *)
THEOREM DoorOpensAgain == Spec => []DoorIsAccountedFor
  BY ServerInvariance, PTL DEF ServerInv

(* The count of connections is the number of threads, at any time.          *)
THEOREM CountIsHonest == Spec => []CountIsKept
  BY ServerInvariance, PTL DEF ServerInv, CountIsKept
-----------------------------------------------------------------------------
LinkPlaces == {"top", "backoff", "probing", "waiting", "subscribing",
           "following", "gaveUp", "ended"}

(* What the argument needs to know of the types.                             *)
LinkTyped ==
    /\ proc \in [Processes -> {"unborn", "starting", "serving", "winding", "dead"}]
    /\ at \in [Links -> LinkPlaces] /\ lost \in [Links -> BOOLEAN]
    /\ attempt \in [Links -> 0..Attempts] /\ stop \in [Links -> BOOLEAN]
    /\ spent \in [Links -> Nat] /\ strays \in [Links -> Nat]

(* An attempt that is about to start a recorder has been counted; one that   *)
(* has started it is one behind.                                             *)
Counted ==
    \A l \in Links :
        /\ spent[l] <= attempt[l] + 1
        /\ at[l] \in {"backoff", "probing"} => spent[l] <= attempt[l]
        /\ at[l] = "top" /\ ~lost[l] => spent[l] <= attempt[l]

(* A link gets to its next attempt only past a look at the stop.             *)
Looked ==
    \A l \in Links : /\ strays[l] <= 1
                     /\ ~stop[l] \/ at[l] = "probing" => strays[l] = 0

LinkInv == LinkTyped /\ OneEndpoint /\ Counted /\ Looked

LEMMA LinkInitInv == LinkInit => LinkInv
  BY LinkAssumption
     DEF LinkInit, LinkInv, LinkTyped, OneEndpoint, Counted, Looked, Holds, LinkPlaces

LEMMA ProcessInv == LinkInv /\ (\E p \in Processes : Process(p)) => LinkInv'
  <1>. SUFFICES ASSUME LinkInv, NEW p \in Processes, Process(p) PROVE LinkInv'
    OBVIOUS
  <1>1. UNCHANGED <<at, lost, attempt, follows, spent, strays, stop>>
    BY DEF Process, Bind, Quits, Crash, StartedElsewhere, AskedElsewhere, watching,
           control
  <1>2. /\ proc' \in [Processes -> {"unborn", "starting", "serving", "winding", "dead"}]
        /\ OneEndpoint'
    BY DEF Process, Bind, Quits, Crash, StartedElsewhere, AskedElsewhere, Holds,
           LinkInv, LinkTyped, OneEndpoint
  <1>. QED BY <1>1, <1>2 DEF LinkInv, LinkTyped, Counted, Looked

(* A link that starts no recorder leaves what holds the endpoint alone.      *)
LEMMA WatchesInv == ASSUME LinkInv, NEW l \in Links, Watches(l) PROVE LinkInv'
  <1>. USE LinkAssumption
       DEF LinkInv, LinkTyped, Counted, Looked, LinkPlaces, MovesTo, Publishes, Loses, Renews,
           Stopping, control, exit
  <1>1. ASSUME UNCHANGED proc PROVE OneEndpoint'
    BY <1>1 DEF OneEndpoint, Holds
  <1>2. CASE Stops(l)
    BY <1>1, <1>2 DEF Stops
  <1>3. CASE Looks(l)
    BY <1>1, <1>3 DEF Looks
  <1>4. CASE BacksOff(l)
    BY <1>1, <1>4 DEF BacksOff
  <1>5. CASE DelayPasses(l)
    BY <1>1, <1>5 DEF DelayPasses
  <1>6. CASE GivesUp(l)
    BY <1>1, <1>6 DEF GivesUp
  <1>7. CASE Retries(l)
    BY <1>1, <1>7 DEF Retries
  <1>8. CASE Finds(l)
    BY <1>1, <1>8 DEF Finds
  <1>9. CASE Spawns(l)
    <2>1. /\ proc' \in [Processes -> {"unborn", "starting", "serving", "winding", "dead"}]
          /\ \A p \in Processes : Holds(p)' => Holds(p)
      BY <1>9 DEF Spawns, Holds
    <2>2. OneEndpoint'
      BY <2>1 DEF OneEndpoint
    <2>3. /\ at' = [at EXCEPT ![l] = "waiting"] /\ at[l] = "probing"
          /\ spent' = [spent EXCEPT ![l] = @ + 1]
          /\ strays' = [strays EXCEPT ![l] = IF stop[l] THEN @ + 1 ELSE @]
          /\ UNCHANGED <<lost, attempt, stop>>
      BY <1>9 DEF Spawns
    <2>4. /\ LinkTyped'
          /\ Counted'
      BY <2>1, <2>3
    <2>5. Looked'
      BY <2>3
    <2>. QED BY <2>2, <2>4, <2>5
  <1>10. CASE Fails(l) \/ CannotServe(l)
    BY <1>1, <1>10 DEF Fails, CannotServe
  <1>11. CASE Subscribes(l) \/ Reads(l)
    BY <1>1, <1>11 DEF Subscribes, Reads
  <1>12. CASE Detaches(l)
    <2>1. CASE stop[l]
      BY <1>1, <1>12, <2>1 DEF Detaches
    <2>2. CASE ~stop[l] /\ UNCHANGED <<attempt, spent>>
      BY <1>1, <1>12, <2>2 DEF Detaches
    <2>3. CASE ~stop[l] /\ Renews(l)
      <3>1. /\ at' = [at EXCEPT ![l] = "top"] /\ lost' = [lost EXCEPT ![l] = TRUE]
            /\ attempt' = [attempt EXCEPT ![l] = 0]
            /\ spent' = [spent EXCEPT ![l] = 0] /\ UNCHANGED <<proc, strays, stop>>
        BY <1>12, <2>3 DEF Detaches
      <3>2. LinkTyped' /\ Looked'
        BY <3>1
      <3>3. Counted'
        BY <3>1
      <3>. QED BY <1>1, <3>1, <3>2, <3>3
    <2>. QED BY <1>12, <2>1, <2>2, <2>3 DEF Detaches
  <1>. QED BY <1>2, <1>3, <1>4, <1>5, <1>6, <1>7, <1>8, <1>9, <1>10, <1>11, <1>12
       DEF Watches

LEMMA OwnsInv == ASSUME LinkInv, NEW l \in Links, Owns(l) PROVE LinkInv'
  <1>1. UNCHANGED <<at, lost, attempt, follows, spent, strays>>
    BY DEF Owns, RequestRetry, RequestStop, AskToExit, StopAfter, NothingRunning,
           SeesItGone, watching
  <1>2. stop' \in [Links -> BOOLEAN] /\ \A k \in Links : stop[k] => stop'[k]
    BY DEF Owns, RequestRetry, RequestStop, AskToExit, StopAfter, NothingRunning,
           SeesItGone, control, LinkInv, LinkTyped
  <1>3. /\ proc' \in [Processes -> {"unborn", "starting", "serving", "winding", "dead"}]
        /\ OneEndpoint'
    BY DEF Owns, RequestRetry, RequestStop, AskToExit, StopAfter, NothingRunning,
           SeesItGone, LinkInv, LinkTyped, OneEndpoint, Holds, Serving
  <1>. QED BY <1>1, <1>2, <1>3 DEF LinkInv, LinkTyped, Counted, Looked

(* No order of processes, links and owners breaks what the budget rests on.  *)
THEOREM LinkInvariance == LinkSpec => []LinkInv
  <1>1. ASSUME LinkInv, UNCHANGED linkVars PROVE LinkInv'
    <2>1. UNCHANGED <<proc, at, lost, attempt, spent, strays, stop>>
      BY <1>1 DEF linkVars, watching, control
    <2>2. OneEndpoint'
      BY <1>1, <2>1 DEF LinkInv, OneEndpoint, Holds
    <2>3. LinkTyped' /\ Counted' /\ Looked'
      BY <1>1, <2>1 DEF LinkInv, LinkTyped, Counted, Looked
    <2>. QED BY <2>2, <2>3 DEF LinkInv
  <1>2. LinkInv /\ [LinkNext]_linkVars => LinkInv'
    BY <1>1, ProcessInv, WatchesInv, OwnsInv DEF LinkNext
  <1>. QED BY LinkInitInv, <1>2, PTL DEF LinkSpec

(* The types that argument has no need of.                                   *)
OtherTypes ==
    /\ follows \in [Links -> Processes \cup {None}]
    /\ state \in [Links -> {"connecting", "reconnecting", "attached", "unavailable"}]
    /\ retry \in [Links -> BOOLEAN]
    /\ asked \in [Links -> Processes \cup {None}]
    /\ owner \in [Links -> {"idle", "accepted", "waiting", "done"}]

LEMMA OtherTypesStay == OtherTypes /\ [LinkNext]_linkVars => OtherTypes'
  <1>. SUFFICES ASSUME OtherTypes, [LinkNext]_linkVars PROVE OtherTypes'
    OBVIOUS
  <1>1. ASSUME NEW p \in Processes, Process(p) PROVE OtherTypes'
    BY <1>1 DEF Process, Bind, Quits, Crash, StartedElsewhere, AskedElsewhere, watching,
           control, exit, OtherTypes
  <1>2. ASSUME NEW l \in Links, Watches(l) PROVE OtherTypes'
    <2>1. UNCHANGED exit /\ retry' \in [Links -> BOOLEAN]
      BY <1>2 DEF Watches, Stops, Looks, BacksOff, DelayPasses, GivesUp, Retries, Finds,
             Spawns, Fails, CannotServe, Subscribes, Reads, Detaches, control, exit, OtherTypes
    <2>2. follows' \in [Links -> Processes \cup {None}]
      BY <1>2 DEF Watches, Stops, Looks, BacksOff, DelayPasses, GivesUp, Retries, Finds,
             Spawns, Fails, CannotServe, Subscribes, Reads, Detaches, Serving, OtherTypes
    <2>3. state' \in [Links -> {"connecting", "reconnecting", "attached", "unavailable"}]
      BY <1>2 DEF Watches, Stops, Looks, BacksOff, DelayPasses, GivesUp, Retries, Finds,
             Spawns, Fails, CannotServe, Subscribes, Reads, Detaches, Publishes, OtherTypes
    <2>. QED BY <2>1, <2>2, <2>3 DEF exit, OtherTypes
  <1>3. ASSUME NEW l \in Links, Owns(l) PROVE OtherTypes'
    BY <1>3 DEF Owns, RequestRetry, RequestStop, AskToExit, StopAfter, NothingRunning,
           SeesItGone, Publishes, Serving, watching, control, exit, OtherTypes
  <1>4. CASE UNCHANGED linkVars
    BY <1>4 DEF linkVars, watching, control, exit, OtherTypes
  <1>. QED BY <1>1, <1>2, <1>3, <1>4 DEF LinkNext

(* Whatever recorders do, one at a time has the endpoint, and each link      *)
(* starts at most one more of them than its policy allows attempts, until an *)
(* attachment lasts or the user asks again.                                  *)
THEOREM BudgetIsKept == LinkSpec => []LinkIsSound
  <1>1. ASSUME LinkInv PROVE BudgetHolds
    <2>1. SUFFICES ASSUME NEW l \in Links PROVE spent[l] <= Attempts + 1
      BY DEF BudgetHolds
    <2>2. spent[l] <= attempt[l] + 1 /\ attempt[l] \in 0..Attempts /\ spent[l] \in Nat
      BY <1>1 DEF LinkInv, LinkTyped, Counted
    <2>. QED BY <2>2, LinkAssumption
  <1>2. LinkInv /\ OtherTypes => LinkTypeOK /\ OneEndpoint
    BY DEF LinkInv, LinkTyped, OtherTypes, LinkTypeOK, LinkPlaces
  <1>3. LinkInit => OtherTypes
    BY DEF LinkInit, OtherTypes
  <1>4. LinkInv /\ OtherTypes => LinkIsSound
    BY <1>1, <1>2 DEF LinkIsSound
  <1>. QED BY LinkInvariance, OtherTypesStay, <1>3, <1>4, PTL DEF LinkSpec

(* A link that was stopped, at any point of an attempt, starts at most one.  *)
THEOREM StopIsKept == LinkSpec => []StopIsHeeded
  <1>1. LinkInv => StopIsHeeded
    BY DEF LinkInv, Looked, StopIsHeeded
  <1>. QED BY LinkInvariance, <1>1, PTL
=============================================================================
