-------------------------- MODULE MCProcessWatcher --------------------------
(* Small machines for ProcessWatcher.                                      *)
EXTENDS ProcessWatcher

Process(name, pid, parent) == [name |-> name, pid |-> pid, parent |-> parent]

(* A launcher, the game it starts, and another with the game's process id. *)
MCProcesses == {Process("launcher", 1, 9), Process("game", 2, 1),
                Process("again", 2, 1)}

(* The game runs first; its id is reused by a child of a busy launcher.    *)
MCReuse == {Process("old", 2, 9), Process("launcher", 1, 9),
            Process("helper", 3, 1), Process("new", 2, 1)}

MCNone == {}
MCOld == {Process("old", 2, 9)}
MCGame == {Process("game", 2, 1)}
=============================================================================
