--------------------------- MODULE RecorderServer ---------------------------
(* `clipped-recorder serve`: the pipe it listens on, the threads that serve *)
(* its control connections, and how it leaves                               *)
(* (crates/ipc/src/server.rs, crates/ipc/src/transport/windows.rs,          *)
(* apps/recorder/src/serve.rs).                                             *)
(*                                                                          *)
(* Four kinds of thread run: the main thread, which accepts and then winds  *)
(* up; one thread per connection, none of which is joined; the recording's; *)
(* and the console's, which turns Ctrl+C into a stop.  A client may hang up *)
(* at any moment.  Requests that touch neither the recording nor the        *)
(* shutdown, the event connections and the automatic recorder are left out. *)
EXTENDS Naturals, FiniteSets

CONSTANTS
    Clients,         \* who opens control connections
    MaxConnections,  \* MAX_CONCURRENT_CONNECTIONS
    MaxRecordings,   \* bounds how many recordings are started
    Free, Waker      \* what a pipe instance is to: nobody, a stop's own client

ASSUME ServerAssumption ==
    /\ IsFiniteSet(Clients) /\ {Free, Waker} \cap Clients = {} /\ Free # Waker
    /\ MaxConnections \in Nat \ {0} /\ MaxRecordings \in Nat

VARIABLES
    stopping,    \* Listener::stopping
    requested,   \* ShutdownState::requested
    deciding,    \* ShutdownState::deciding: the door is shut
    pending,     \* whose the instance is that waits for its client
    main,        \* where the main thread is
    console,     \* where "clipped-serve-shutdown" is
    live,        \* Server::live_connections
    thread,      \* where the thread of each client's connection is
    here,        \* whose clients hold their end open
    recording,   \* RecordingState::current
    started,     \* how many recordings were started
    unheard      \* an accepted shutdown could not be answered

door == <<requested, deciding, unheard>>
recorder == <<recording, started>>
connections == <<live, thread, here>>
vars == <<stopping, pending, main, console, door, connections, recorder>>

(* `current`: [is] "none", "running", or "ended" with its outcome stored and *)
(* nobody having taken it; [told] its stop signal is raised; [late] it       *)
(* started after the service had looked for a recording for the last time.   *)
NoRecording == [is |-> "none", told |-> FALSE, late |-> FALSE]
Running == recording.is = "running"

Init ==
    /\ stopping = FALSE /\ requested = FALSE /\ deciding = FALSE
    /\ pending = Free /\ main = "checking" /\ console = "waiting"
    /\ live = 0 /\ thread = [c \in Clients |-> "none"] /\ here = {}
    /\ recording = NoRecording /\ started = 0 /\ unheard = FALSE

Up == main # "exited"

-----------------------------------------------------------------------------
(* The clients.                                                             *)

(* open_client finds the one instance that waits; otherwise the pipe is     *)
(* busy and connect() tries again.                                          *)
Open(c) ==
    /\ Up /\ pending = Free /\ c \notin here /\ thread[c] = "none"
    /\ pending' = c /\ here' = here \cup {c}
    /\ UNCHANGED <<stopping, main, console, door, live, thread, recorder>>

HangUp(c) ==
    /\ Up /\ c \in here /\ here' = here \ {c}
    /\ UNCHANGED <<stopping, pending, main, console, door, live, thread,
                   recorder>>

-----------------------------------------------------------------------------
(* The main thread in Server::serve: Listener::accept and what follows it.  *)

AcceptChecks ==
    /\ main = "checking"
    /\ main' = IF stopping THEN "stopped" ELSE "connecting"
    /\ UNCHANGED <<stopping, pending, console, door, connections, recorder>>

(* ConnectNamedPipe: it waits on an instance nobody opened, succeeds on one  *)
(* its client already holds, and fails on one whose client has left again    *)
(* (ERROR_NO_DATA), which ends the accept loop with an error.                *)
ConnectInstance ==
    /\ main = "connecting"
    /\ main' = CASE pending = Free -> "blocked"
                 [] pending \in here -> "connected"
                 [] OTHER -> "stopped"
    /\ UNCHANGED <<stopping, pending, console, door, connections, recorder>>

Woken ==
    /\ main = "blocked" /\ pending # Free /\ main' = "connected"
    /\ UNCHANGED <<stopping, pending, console, door, connections, recorder>>

(* The second look at the flag: what woke us may be the stop's own client.   *)
AcceptEnds ==
    /\ main = "connected" /\ stopping /\ main' = "stopped"
    /\ UNCHANGED <<stopping, pending, console, door, connections, recorder>>

(* The next instance cannot be created: an error of accept, which ends the   *)
(* loop with the connection not handed over.                                 *)
NoNextInstance ==
    /\ main = "connected" /\ ~stopping /\ main' = "stopped"
    /\ UNCHANGED <<stopping, pending, console, door, connections, recorder>>

(* Mutant: a thread that cannot be made keeps its count.                     *)
HandOverCounted ==
    /\ main = "connected" /\ ~stopping
    /\ main' = "checking" /\ pending' = Free
    /\ \/ /\ live < MaxConnections
          /\ live' = live + 1
          /\ \/ /\ thread' = [thread EXCEPT ![pending] = "greeting"]
                /\ UNCHANGED here
             \/ here' = here \ {pending} /\ UNCHANGED thread
       \/ here' = here \ {pending} /\ UNCHANGED <<live, thread>>
    /\ UNCHANGED <<stopping, console, door, recorder>>

(* The next instance stands before this one is handed to a thread, or is     *)
(* refused for being one too many, or its thread cannot be made.             *)
HandOver ==
    /\ main = "connected" /\ ~stopping
    /\ main' = "checking" /\ pending' = Free
    /\ \/ /\ live < MaxConnections
          /\ live' = live + 1
          /\ thread' = [thread EXCEPT ![pending] = "greeting"]
          /\ UNCHANGED here
       \/ here' = here \ {pending} /\ UNCHANGED <<live, thread>>
    /\ UNCHANGED <<stopping, console, door, recorder>>

Accept == \/ AcceptChecks \/ ConnectInstance \/ Woken
          \/ AcceptEnds \/ NoNextInstance \/ HandOver

-----------------------------------------------------------------------------
(* A connection's thread (serve_connection, serve_commands, dispatch).       *)

(* The thread goes on to `place`, or, when its connection ends with this     *)
(* step, lets go of it and of its count (ConnectionCount's drop).            *)
Goes(c, place) ==
    /\ thread' = [thread EXCEPT ![c] = place] /\ UNCHANGED <<live, here>>
Ends(c) ==
    /\ thread' = [thread EXCEPT ![c] = "none"]
    /\ live' = live - 1 /\ here' = here \ {c}

(* A reply that cannot be written ends the connection.                       *)
Answers(c) == IF c \in here THEN Goes(c, "reading") ELSE Ends(c)

(* A handshake that is refused, or a client that has left, ends it.          *)
Greet(c) ==
    /\ Up /\ thread[c] = "greeting"
    /\ (c \in here /\ Goes(c, "reading")) \/ Ends(c)
    /\ UNCHANGED <<stopping, pending, main, console, door, recorder>>

(* A closed connection, and one that sent something unreadable.              *)
Leaves(c) ==
    /\ Up /\ thread[c] = "reading" /\ Ends(c)
    /\ UNCHANGED <<stopping, pending, main, console, door, recorder>>

(* start_recording is looked at before it is carried out.                    *)
PassTheDoor(c) ==
    /\ Up /\ thread[c] = "reading" /\ c \in here /\ ~deciding
    /\ Goes(c, "starting")
    /\ UNCHANGED <<stopping, pending, main, console, door, recorder>>

LookedForTheLast == main \in {"closing", "joining"}

(* RecordingState::start, one critical section on `current`.                 *)
Start(c) ==
    /\ Up /\ thread[c] = "starting"
    /\ \/ /\ ~Running /\ started < MaxRecordings
          /\ started' = started + 1
          /\ recording' = [is |-> "running", told |-> FALSE,
                           late |-> LookedForTheLast]
       \/ (Running \/ started = MaxRecordings) /\ UNCHANGED recorder
    /\ Answers(c)
    /\ UNCHANGED <<stopping, pending, main, console, door>>

(* RecordingState::stop raises the signal of whatever is current and then    *)
(* waits, with the lock let go, until whatever is current has its outcome.   *)
Tell == recording' = [recording EXCEPT !.told = TRUE] /\ UNCHANGED started
StopRecording(c) ==
    /\ Up /\ thread[c] = "reading" /\ c \in here
    /\ IF recording.is = "none" THEN UNCHANGED <<recorder, connections>>
                                ELSE Tell /\ Goes(c, "waiting")
    /\ UNCHANGED <<stopping, pending, main, console, door>>

Take == recording' = NoRecording /\ UNCHANGED started
Collect(c) ==
    /\ Up /\ thread[c] = "waiting" /\ ~Running /\ Take /\ Answers(c)
    /\ UNCHANGED <<stopping, pending, main, console, door>>

(* accept_shutdown shuts the door and then reads the status.                 *)
Begin(c) ==
    /\ Up /\ thread[c] = "reading" /\ c \in here
    /\ deciding' = TRUE /\ Goes(c, "deciding")
    /\ UNCHANGED <<stopping, pending, main, console, requested, unheard,
                   recorder>>

(* Mutant: a refusal leaves the door as it is.                               *)
RefuseShut(c) ==
    /\ Up /\ thread[c] = "deciding" /\ Running
    /\ Answers(c)
    /\ UNCHANGED <<stopping, pending, main, console, door, recorder>>

(* Refused: something is recorded and the request did not say it may end it. *)
Refuse(c) ==
    /\ Up /\ thread[c] = "deciding" /\ Running
    /\ deciding' = FALSE /\ Answers(c)
    /\ UNCHANGED <<stopping, pending, main, console, requested, unheard,
                   recorder>>

(* Accepted: nothing is recorded, or the request has finalise_recording.  The *)
(* stop follows the reply, and does not happen when that cannot be written.  *)
AcceptShutdown(c) ==
    /\ Up /\ thread[c] = "deciding"
    /\ IF c \in here THEN Goes(c, "requesting") /\ UNCHANGED unheard
                     ELSE Ends(c) /\ unheard' = TRUE
    /\ UNCHANGED <<stopping, pending, main, console, requested, deciding,
                   recorder>>

(* ListenerStopper::stop raises the flag, then opens a client end to wake    *)
(* the accept; that the instance may be busy is ignored.                     *)
Knock == pending' = IF pending = Free THEN Waker ELSE pending

(* Mutant: the stop only knocks.                                             *)
RequestUnraised(c) ==
    /\ Up /\ thread[c] = "requesting"
    /\ requested' = TRUE /\ deciding' = TRUE /\ Goes(c, "knocking")
    /\ UNCHANGED <<stopping, pending, main, console, unheard, recorder>>

Request(c) ==
    /\ Up /\ thread[c] = "requesting"
    /\ requested' = TRUE /\ deciding' = TRUE /\ stopping' = TRUE
    /\ Goes(c, "knocking")
    /\ UNCHANGED <<pending, main, console, unheard, recorder>>

KnockAndLeave(c) ==
    /\ Up /\ thread[c] = "knocking" /\ Knock /\ Ends(c)
    /\ UNCHANGED <<stopping, main, console, door, recorder>>

(* What a thread does of itself; the rest waits for its client.              *)
Serves(c) == \/ Greet(c) \/ Start(c) \/ Collect(c) \/ Refuse(c)
             \/ AcceptShutdown(c) \/ Request(c) \/ KnockAndLeave(c)

-----------------------------------------------------------------------------
(* The recording's thread: finish stores the outcome and wakes who waits.    *)
Finish ==
    /\ Up /\ Running /\ recording' = [recording EXCEPT !.is = "ended"]
    /\ UNCHANGED <<stopping, pending, main, console, door, connections, started>>

(* Ctrl+C, and the signal raised as the main thread leaves.                  *)
Interrupt ==
    /\ Up /\ console = "waiting" /\ console' = "stopping"
    /\ UNCHANGED <<stopping, pending, main, door, connections, recorder>>
ConsoleStops ==
    /\ console = "stopping" /\ stopping' = TRUE /\ console' = "knocking"
    /\ UNCHANGED <<pending, main, door, connections, recorder>>
ConsoleKnocks ==
    /\ console = "knocking" /\ Knock /\ console' = "ended"
    /\ UNCHANGED <<stopping, main, door, connections, recorder>>

-----------------------------------------------------------------------------
(* The main thread after the accept loop: RecorderService::shut_down stops   *)
(* whatever is recorded and waits for it, the console's thread is joined,    *)
(* and the process ends with every thread that is left in it.                *)

(* Mutant: shut_down does not wait for the outcome.                          *)
ShutDownAtOnce ==
    /\ main = "stopped" /\ main' = "closing"
    /\ IF recording.is = "none" THEN UNCHANGED recorder ELSE Tell
    /\ UNCHANGED <<stopping, pending, console, door, connections>>

ShutDown ==
    /\ main = "stopped"
    /\ IF recording.is = "none" THEN main' = "closing" /\ UNCHANGED recorder
                                ELSE main' = "waiting" /\ Tell
    /\ UNCHANGED <<stopping, pending, console, door, connections>>
CollectLast ==
    /\ main = "waiting" /\ ~Running /\ Take /\ main' = "closing"
    /\ UNCHANGED <<stopping, pending, console, door, connections>>
Close ==
    /\ main = "closing" /\ main' = "joining"
    /\ console' = IF console = "waiting" THEN "stopping" ELSE console
    /\ UNCHANGED <<stopping, pending, door, connections, recorder>>
Exit ==
    /\ main = "joining" /\ console = "ended" /\ main' = "exited"
    /\ UNCHANGED <<stopping, pending, console, door, connections, recorder>>

Console == ConsoleStops \/ ConsoleKnocks
Main == Accept \/ ShutDown \/ CollectLast \/ Close \/ Exit
Connection(c) == Serves(c) \/ Leaves(c) \/ PassTheDoor(c) \/ StopRecording(c)
                     \/ Begin(c)
Client(c) == Open(c) \/ HangUp(c)

Next == \/ Main \/ Console \/ Interrupt \/ Finish
        \/ \E c \in Clients : Connection(c) \/ Client(c)

Spec == Init /\ [][Next]_vars

(* Every thread runs when it can, and a recording that is told to stop does. *)
(* Nothing is asked of the clients, nor of a recording nobody stops.         *)
FairSpec ==
    /\ Spec /\ WF_vars(Main) /\ WF_vars(Console)
    /\ WF_vars(recording.told /\ Finish)
    /\ \A c \in Clients : WF_vars(Serves(c))

-----------------------------------------------------------------------------
Accepting == {"checking", "connecting", "blocked", "connected"}
Leaving == {"stopped", "waiting", "closing", "joining", "exited"}
Places == {"none", "greeting", "reading", "starting", "waiting", "deciding",
           "requesting", "knocking"}

ServerTypeOK ==
    /\ stopping \in BOOLEAN /\ requested \in BOOLEAN /\ deciding \in BOOLEAN
    /\ unheard \in BOOLEAN /\ pending \in Clients \cup {Free, Waker}
    /\ main \in Accepting \cup Leaving
    /\ console \in {"waiting", "stopping", "knocking", "ended"}
    /\ live \in Nat /\ thread \in [Clients -> Places] /\ here \subseteq Clients
    /\ recording \in [is : {"none", "running", "ended"}, told : BOOLEAN,
                      late : BOOLEAN]
    /\ started \in 0..MaxRecordings

(* live_connections is the number of threads that serve one, however they    *)
(* end, and never above its limit: a count that drifts would refuse clients   *)
(* for the rest of the process's life.                                       *)
LiveIsHonest ==
    /\ live = Cardinality({c \in Clients : thread[c] # "none"})
    /\ live <= MaxConnections

(* The server keeps to its types and to its count.                           *)
CountIsKept == ServerTypeOK /\ LiveIsHonest

(* The door is shut only while a shutdown is decided or carried out, or when *)
(* one was accepted whose client did not hear of it.                         *)
DoorIsAccountedFor ==
    deciding => \/ requested \/ unheard
                \/ \E c \in Clients : thread[c] \in {"deciding", "requesting"}

(* What the service finds recorded when it looks for the last time has its   *)
(* outcome before the process ends; only a recording that an open connection *)
(* starts after that is still running then.                                  *)
WhatRanIsFinished ==
    main \in {"closing", "joining", "exited"} /\ Running => recording.late

(* A stop, whoever asked and wherever the accept loop was, ends the process; *)
(* it is held up only where the wait of stop() found a recording that         *)
(* another connection started in between, and that nobody stops.             *)
StopEnds ==
    stopping \/ (\E c \in Clients : thread[c] = "requesting")
        ~> main = "exited" \/ (main = "waiting" /\ Running /\ ~recording.told)

(* As the code's comment has it: what is recorded is finished properly       *)
(* rather than abandoned, whatever open connections ask for meanwhile.       *)
NothingIsAbandoned == main = "exited" => ~Running

(* As serve's comment has it: a failure on one connection does not stop the  *)
(* recorder serving anybody else; the accept loop ends for a stop.           *)
OnlyAStopEndsServing == main \in Leaving => stopping
=============================================================================
