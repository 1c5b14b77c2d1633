---------------------------- MODULE RecorderLink ----------------------------
(* The desktop application's link with the recorder: probing, starting,     *)
(* following and replacing it, and asking it to exit                         *)
(* (crates/ipc/src/supervisor.rs, crates/ipc/src/supervisor/link.rs).        *)
(*                                                                           *)
(* A link is one window's watching thread together with the thread that      *)
(* calls the link's methods.  Links share nothing but the endpoint, which    *)
(* the system gives to one process at a time (FILE_FLAG_FIRST_PIPE_INSTANCE).*)
(* A recorder that winds up keeps the endpoint and answers nobody on it: a   *)
(* client is told the pipe is busy, and connect() reports that as nobody     *)
(* listening.  Delays and the settled time are nondeterministic.             *)
(* No name here is one of RecorderServer's: RecorderEndpoint_proofs is about *)
(* both ends of the endpoint.                                                *)
EXTENDS Naturals

CONSTANTS
    Links,
    MaxProcesses,  \* bounds how many recorders are spawned
    Attempts,      \* RestartPolicy::attempts
    None

ASSUME LinkAssumption == /\ MaxProcesses \in Nat /\ Attempts \in Nat
                         /\ None \notin 1..MaxProcesses

Processes == 1..MaxProcesses

VARIABLES
    proc,       \* what each recorder process does
    at,         \* where each link's watching thread is
    lost,       \* `loss` holds a reason
    attempt,    \* consecutive attempts
    follows,    \* the process whose events it reads
    state,      \* RecorderLinkState
    stop, retry,\* Control
    asked,      \* the process that accepted a shutdown of this link's owner
    owner,      \* where the owner's thread is
    spent,      \* recorders started since the budget was last renewed
    strays      \* recorders started after this link was stopped

watching == <<at, lost, attempt, follows, spent, strays>>
control == <<stop, retry>>
exit == <<asked, owner>>
linkVars == <<proc, watching, state, control, exit>>

LinkInit ==
    /\ proc = [p \in Processes |-> "unborn"]
    /\ at = [l \in Links |-> "top"] /\ lost = [l \in Links |-> FALSE]
    /\ attempt = [l \in Links |-> 0]
    /\ follows = [l \in Links |-> None]
    /\ state = [l \in Links |-> "connecting"]
    /\ stop = [l \in Links |-> FALSE] /\ retry = [l \in Links |-> FALSE]
    /\ asked = [l \in Links |-> None] /\ owner = [l \in Links |-> "idle"]
    /\ spent = [l \in Links |-> 0] /\ strays = [l \in Links |-> 0]

Holds(p) == proc[p] \in {"serving", "winding"}
Serving == {p \in Processes : proc[p] = "serving"}

-----------------------------------------------------------------------------
(* The recorders.                                                            *)

(* Listener::bind: the second process on an endpoint is refused and exits.   *)
Bind(p) ==
    /\ proc[p] = "starting"
    /\ proc' = [proc EXCEPT ![p] =
                  IF \E q \in Processes : Holds(q) THEN "dead" ELSE "serving"]
    /\ UNCHANGED <<watching, state, control, exit>>

(* A recorder that was asked to exit has finished its file.                  *)
Quits(p) ==
    /\ proc[p] = "winding"
    /\ proc' = [proc EXCEPT ![p] = "dead"]
    /\ UNCHANGED <<watching, state, control, exit>>

(* What else starts and stops recorders: a terminal, Ctrl+C, other windows.  *)
StartedElsewhere(p) ==
    /\ proc[p] = "unborn" /\ \A q \in 1..(p - 1) : proc[q] # "unborn"
    /\ proc' = [proc EXCEPT ![p] = "starting"]
    /\ UNCHANGED <<watching, state, control, exit>>
AskedElsewhere(p) ==
    /\ proc[p] = "serving" /\ proc' = [proc EXCEPT ![p] = "winding"]
    /\ UNCHANGED <<watching, state, control, exit>>

(* A crash, or a process that never listens.                         *)
Crash(p) ==
    /\ proc[p] \in {"starting", "serving", "winding"}
    /\ proc' = [proc EXCEPT ![p] = "dead"]
    /\ UNCHANGED <<watching, state, control, exit>>

-----------------------------------------------------------------------------
(* The watching thread (supervise).                                          *)

(* Mutant: only the wait for a retry looks at the stop.                      *)
StoppingWhenIdle(l) == stop[l] /\ at[l] = "gaveUp"

(* Shared::is_stopping.                                                      *)
Stopping(l) == stop[l]

MovesTo(l, place) == at' = [at EXCEPT ![l] = place]
Publishes(l, what) == state' = [state EXCEPT ![l] = what]
Renews(l) == /\ attempt' = [attempt EXCEPT ![l] = 0]
             /\ spent' = [spent EXCEPT ![l] = 0]
Loses(l) == MovesTo(l, "top") /\ lost' = [lost EXCEPT ![l] = TRUE]

(* Every wait, and the top of the loop, look at the stop; an attempt that    *)
(* has begun does not.                                                       *)
Stops(l) ==
    /\ at[l] \in {"top", "backoff", "gaveUp"} /\ Stopping(l) /\ MovesTo(l, "ended")
    /\ UNCHANGED <<proc, lost, attempt, follows, spent, strays,
                   state, control, exit>>

(* Without a loss the thread goes straight to ensure_recorder.               *)
Looks(l) ==
    /\ at[l] = "top" /\ ~Stopping(l) /\ ~lost[l] /\ MovesTo(l, "probing")
    /\ UNCHANGED <<proc, lost, attempt, follows, spent, strays,
                   state, control, exit>>

(* Mutant: attempts are not counted.                                         *)
BacksOffUncounted(l) ==
    /\ at[l] = "top" /\ ~Stopping(l) /\ lost[l] /\ attempt[l] < Attempts
    /\ lost' = [lost EXCEPT ![l] = FALSE] /\ MovesTo(l, "backoff")
    /\ Publishes(l, "reconnecting")
    /\ UNCHANGED <<proc, attempt, follows, spent, strays, control, exit>>

BacksOff(l) ==
    /\ at[l] = "top" /\ ~Stopping(l) /\ lost[l] /\ attempt[l] < Attempts
    /\ lost' = [lost EXCEPT ![l] = FALSE] /\ MovesTo(l, "backoff")
    /\ attempt' = [attempt EXCEPT ![l] = @ + 1] /\ Publishes(l, "reconnecting")
    /\ UNCHANGED <<proc, follows, spent, strays, control, exit>>

DelayPasses(l) ==
    /\ at[l] = "backoff" /\ ~Stopping(l) /\ MovesTo(l, "probing")
    /\ UNCHANGED <<proc, lost, attempt, follows, spent, strays,
                   state, control, exit>>

GivesUp(l) ==
    /\ at[l] = "top" /\ ~Stopping(l) /\ lost[l] /\ attempt[l] = Attempts
    /\ lost' = [lost EXCEPT ![l] = FALSE] /\ MovesTo(l, "gaveUp")
    /\ Publishes(l, "unavailable")
    /\ UNCHANGED <<proc, attempt, follows, spent, strays,
                   control, exit>>

(* A retry asked for at any time before counts.                              *)
Retries(l) ==
    /\ at[l] = "gaveUp" /\ ~Stopping(l) /\ retry[l]
    /\ retry' = [retry EXCEPT ![l] = FALSE] /\ Renews(l)
    /\ MovesTo(l, "top") /\ Publishes(l, "connecting")
    /\ UNCHANGED <<proc, lost, follows, strays, stop, exit>>

(* ensure_recorder.  Somebody answers: the thread attaches.                  *)
Finds(l) ==
    /\ at[l] \in {"probing", "waiting"} /\ Serving # {}
    /\ MovesTo(l, "subscribing")
    /\ UNCHANGED <<proc, lost, attempt, follows, spent, strays, state,
                   control, exit>>

(* Nobody answers, or nobody could for being busy: one is started.  When the *)
(* bound is reached the spawn fails instead, as any spawn may.               *)
Spawns(l) ==
    /\ at[l] = "probing" /\ Serving = {}
    /\ \E p \in Processes :
          /\ proc[p] = "unborn" /\ \A q \in 1..(p - 1) : proc[q] # "unborn"
          /\ proc' = [proc EXCEPT ![p] = "starting"]
    /\ spent' = [spent EXCEPT ![l] = @ + 1]
    /\ strays' = [strays EXCEPT ![l] = IF stop[l] THEN @ + 1 ELSE @]
    /\ MovesTo(l, "waiting")
    /\ UNCHANGED <<lost, attempt, follows, state, control, exit>>

(* Errors worth trying again: a spawn or a probe that failed, a child that   *)
(* ended or did not listen in time.                                          *)
Fails(l) ==
    /\ at[l] \in {"probing", "waiting"}
    /\ Loses(l)
    /\ UNCHANGED <<proc, attempt, follows, spent, strays, state,
                   control, exit>>

(* The executable is missing or cannot be loaded, or the recorder speaks     *)
(* another version.                                                          *)
CannotServe(l) ==
    /\ at[l] \in {"probing", "waiting"}
    /\ MovesTo(l, "gaveUp") /\ Publishes(l, "unavailable")
    /\ UNCHANGED <<proc, lost, attempt, follows, spent, strays,
                   control, exit>>

(* follow opens a connection of its own, to whoever answers by then.         *)
Subscribes(l) ==
    /\ at[l] = "subscribing"
    /\ \/ \E p \in Serving : /\ follows' = [follows EXCEPT ![l] = p]
                             /\ MovesTo(l, "following") /\ UNCHANGED lost
       \/ Serving = {} /\ Loses(l) /\ UNCHANGED follows
    /\ UNCHANGED <<proc, attempt, spent, strays, state, control, exit>>

Reads(l) ==
    /\ at[l] = "following" /\ Holds(follows[l])
    /\ Publishes(l, "attached")
    /\ UNCHANGED <<proc, at, lost, attempt, follows, spent, strays,
                   control, exit>>

(* Mutant: a spent budget is noticed before anything is published.           *)
EndsSilently(l) ==
    /\ at[l] = "following" /\ ~Holds(follows[l])
    /\ follows' = [follows EXCEPT ![l] = None]
    /\ IF stop[l] THEN MovesTo(l, "ended") /\ UNCHANGED lost
       ELSE IF attempt[l] = Attempts THEN MovesTo(l, "gaveUp") /\ UNCHANGED lost
       ELSE Loses(l)
    /\ UNCHANGED <<proc, attempt, spent, strays, state, control, exit>>

(* The connection ends.  An attachment that lasted renews the budget.        *)
Detaches(l) ==
    /\ at[l] = "following" /\ ~Holds(follows[l])
    /\ follows' = [follows EXCEPT ![l] = None]
    /\ IF stop[l] THEN MovesTo(l, "ended") /\ UNCHANGED <<lost, attempt, spent>>
       ELSE Loses(l) /\ (Renews(l) \/ UNCHANGED <<attempt, spent>>)
    /\ UNCHANGED <<proc, strays, state, control, exit>>

Watches(l) ==
    \/ Stops(l) \/ Looks(l) \/ BacksOff(l) \/ DelayPasses(l) \/ GivesUp(l)
    \/ Retries(l) \/ Finds(l) \/ Spawns(l) \/ Fails(l) \/ CannotServe(l)
    \/ Subscribes(l) \/ Reads(l) \/ Detaches(l)

-----------------------------------------------------------------------------
(* The owner's thread.                                                       *)

RequestRetry(l) ==
    /\ ~retry[l] /\ retry' = [retry EXCEPT ![l] = TRUE]
    /\ UNCHANGED <<proc, watching, state, stop, exit>>

(* The window closes: the recorder is left alone.                            *)
RequestStop(l) ==
    /\ owner[l] = "idle" /\ ~stop[l] /\ stop' = [stop EXCEPT ![l] = TRUE]
    /\ UNCHANGED <<proc, watching, state, retry, exit>>

(* shut_down_recorder.  A recorder that records may refuse; one that accepts *)
(* winds up, and the stop follows its answer.                                *)
AskToExit(l) ==
    /\ owner[l] = "idle"
    /\ \E p \in Serving :
          /\ proc' = [proc EXCEPT ![p] = "winding"]
          /\ asked' = [asked EXCEPT ![l] = p]
    /\ owner' = [owner EXCEPT ![l] = "accepted"]
    /\ UNCHANGED <<watching, state, control>>

StopAfter(l) ==
    /\ owner[l] = "accepted" /\ stop' = [stop EXCEPT ![l] = TRUE]
    /\ Publishes(l, "unavailable")
    /\ owner' = [owner EXCEPT ![l] = "waiting"]
    /\ UNCHANGED <<proc, watching, retry, asked>>

(* Nobody answers: there is nothing to stop.                                 *)
NothingRunning(l) ==
    /\ owner[l] = "idle" /\ Serving = {} /\ stop' = [stop EXCEPT ![l] = TRUE]
    /\ owner' = [owner EXCEPT ![l] = "done"]
    /\ UNCHANGED <<proc, watching, state, retry, asked>>

(* wait_for_recorder_to_exit: the endpoint does not answer.                  *)
SeesItGone(l) ==
    /\ owner[l] = "waiting" /\ Serving = {}
    /\ owner' = [owner EXCEPT ![l] = "done"]
    /\ UNCHANGED <<proc, watching, state, control, asked>>

Owns(l) == \/ RequestRetry(l) \/ RequestStop(l) \/ AskToExit(l)
           \/ StopAfter(l) \/ NothingRunning(l) \/ SeesItGone(l)

Process(p) == \/ Bind(p) \/ Quits(p) \/ Crash(p)
              \/ StartedElsewhere(p) \/ AskedElsewhere(p)

LinkNext == (\E p \in Processes : Process(p)) \/ (\E l \in Links : Watches(l) \/ Owns(l))

LinkSpec == LinkInit /\ [][LinkNext]_linkVars

(* The link's threads run when they can; a recorder that started binds, or   *)
(* ends, and one that winds up ends.                                         *)
FairLinkSpec ==
    /\ LinkSpec
    /\ \A l \in Links : WF_linkVars(Watches(l)) /\ WF_linkVars(StopAfter(l))
    /\ \A p \in Processes : WF_linkVars(Bind(p)) /\ WF_linkVars(Quits(p))

-----------------------------------------------------------------------------
LinkTypeOK ==
    /\ proc \in [Processes -> {"unborn", "starting", "serving", "winding", "dead"}]
    /\ at \in [Links -> {"top", "backoff", "probing", "waiting", "subscribing",
                         "following", "gaveUp", "ended"}]
    /\ lost \in [Links -> BOOLEAN] /\ attempt \in [Links -> 0..Attempts]
    /\ follows \in [Links -> Processes \cup {None}]
    /\ state \in [Links -> {"connecting", "reconnecting", "attached", "unavailable"}]
    /\ stop \in [Links -> BOOLEAN] /\ retry \in [Links -> BOOLEAN]
    /\ asked \in [Links -> Processes \cup {None}]
    /\ owner \in [Links -> {"idle", "accepted", "waiting", "done"}]
    /\ spent \in [Links -> Nat] /\ strays \in [Links -> Nat]

(* One recorder at a time has the endpoint, whoever starts how many.         *)
OneEndpoint == \A p, q \in Processes : Holds(p) /\ Holds(q) => p = q

(* A recorder that keeps failing is replaced as often as the policy allows   *)
(* and no more, until an attachment lasts or the user asks.                  *)
BudgetHolds == \A l \in Links : spent[l] <= Attempts + 1

(* A link keeps to its types, to the one endpoint and to its budget.         *)
LinkIsSound == LinkTypeOK /\ OneEndpoint /\ BudgetHolds

(* What a link that was told to stop still does is at most one attempt: the *)
(* one whose look at the stop came before it.                                *)
StopIsHeeded == \A l \in Links : strays[l] <= 1

(* A loss comes to an end: the link follows a recorder again, or says that   *)
(* it gave up, or was stopped.                                               *)
LossIsAnswered ==
    \A l \in Links : lost[l] ~> at[l] \in {"following", "gaveUp", "ended"}

(* Nobody is told of an attachment that is over.                             *)
AttachedIsHonest ==
    \A l \in Links : state[l] = "attached" /\ at[l] # "following"
                        ~> state[l] # "attached" \/ at[l] = "following" \/ stop[l]

(* A loss comes to an end, and whoever listens to the link is told of it.    *)
LossIsTold == LossIsAnswered /\ AttachedIsHonest

(* As the doc of wait_for_recorder_to_exit has it: when the endpoint stopped *)
(* answering, the recorder that was asked to exit has finished and gone.     *)
GoneMeansGone ==
    \A l \in Links : owner[l] = "done" /\ asked[l] # None => proc[asked[l]] = "dead"

(* As the doc of shut_down_recorder has it: after the exit of the recorder   *)
(* there is no window in which a replacement could be started.               *)
NoReplacement == \A l \in Links : strays[l] = 0
=============================================================================
