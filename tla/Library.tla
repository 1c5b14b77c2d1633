------------------------------ MODULE Library ------------------------------
(***************************************************************************)
(* The recorder's library while it runs: the indexer thread, which          *)
(* reconciles the database with the session records and sweeps recordings   *)
(* into the trash to stay inside the storage limits, and the window's       *)
(* commands, which restore, empty and lock.  Each has a database connection *)
(* of its own, so what one read another may change before it acts on it; a  *)
(* rename and the row that goes with it are two steps; and the process, the *)
(* database and a person in Explorer may come between the two.              *)
(*                                                                          *)
(* crates/library/src/trash, crates/library/src/index,                      *)
(* crates/library/src/accounting/cleanup.rs, crates/session/src/cleanup.rs, *)
(* apps/recorder/src/library.rs.                                            *)
(***************************************************************************)
EXTENDS Integers, FiniteSets

CONSTANTS Recordings,   \* recordings with a session record, oldest first
          Entries,      \* directories of the trash, one to a deletion
          MaxEvents     \* how often the recorder dies, a person acts in Explorer or locks

ASSUME RecordingsAssumption == Recordings \subseteq Nat /\ IsFiniteSet(Recordings)
ASSUME EntriesAssumption == Entries \cap {"home", "beside", "nowhere"} = {}

(* "home" is where the session record says the file is and "beside" the     *)
(* first name tried when that is taken.                                     *)
Names == {"home", "beside"}
Places == Names \cup Entries
Contents == {"nothing", "footage", "placeholder", "other"}

NoRow == [there |-> FALSE]
Rows == [there : {TRUE}, path : Places, from : Places \cup {"nowhere"},
         deleted : BOOLEAN, missing : BOOLEAN, locked : BOOLEAN]

VARIABLES disk,       \* what is at each place of each recording
          row,        \* the recording's row of the index
          requested,  \* a run of the indexer has been asked for
          stopping,   \* no further run will be started
          idx,        \* where the indexer thread is
          win,        \* where the window's command is
          stranded,   \* files a crash or two failures left in the trash unnamed
          byHand,     \* recordings whose footage a person removed
          events

vars == <<disk, row, requested, stopping, idx, win, stranded, byHand, events>>

files == <<stranded, byHand, events>>
flags == <<requested, stopping>>

AtRest == [step |-> "idle", seen |-> {}, plan |-> {}, item |-> {},
           from |-> "nowhere", entry |-> "nowhere"]
NoCommand == [step |-> "idle", item |-> {}, here |-> "nowhere", name |-> "nowhere",
              moved |-> FALSE, list |-> {}]

Present(r, p) == disk[r][p] # "nothing"
Renamed(r, p, q) == [disk EXCEPT ![r][q] = disk[r][p], ![r][p] = "nothing"]
InTrash(r) == row[r].there /\ row[r].deleted

Init == /\ disk = [r \in Recordings |->
                    [p \in Places |-> IF p = "home" THEN "footage" ELSE "nothing"]]
        /\ row = [r \in Recordings |-> NoRow]
        /\ requested = TRUE /\ stopping = FALSE
        /\ idx = AtRest /\ win = NoCommand
        /\ stranded = {} /\ byHand = {} /\ events = 0

-----------------------------------------------------------------------------
(* The indexer thread: wait to be asked, reconcile, sweep, repeat.          *)

Request == /\ ~stopping /\ ~requested
           /\ requested' = TRUE
           /\ UNCHANGED <<disk, row, stopping, idx, win, files>>

ShutDown == /\ ~stopping
            /\ stopping' = TRUE /\ requested' = FALSE
            /\ UNCHANGED <<disk, row, idx, win, files>>

Wake == /\ idx.step = "idle" /\ (requested \/ stopping)
        /\ idx' = [idx EXCEPT !.step = IF stopping THEN "ended" ELSE "looking"]
        /\ requested' = FALSE
        /\ UNCHANGED <<disk, row, stopping, win, files>>

(* Every file a batch needs is looked at before its transaction opens; a    *)
(* cancelled run looks at nothing more, and is swept after all the same.    *)
Look == /\ idx.step = "looking"
        /\ idx' = IF stopping
                    THEN [idx EXCEPT !.step = "written"]
                    ELSE [idx EXCEPT !.step = "looked",
                                     !.seen = {r \in Recordings : Present(r, "home")}]
        /\ UNCHANGED <<disk, row, flags, win, files>>

(* Mutants: every column is written, and the session record's path is.      *)
IndexedAfresh(r) ==
  [there |-> TRUE, path |-> "home", from |-> "nowhere", deleted |-> FALSE,
   missing |-> r \notin idx.seen, locked |-> FALSE]
IndexedFromRecord(r) ==
  IF row[r].there THEN [row[r] EXCEPT !.path = "home", !.missing = r \notin idx.seen]
                  ELSE IndexedAfresh(r)

(* Where the session record says the file is, and whether it was there when *)
(* it was looked at.  A row in the trash keeps its path, its mark and what  *)
(* it says of its file.                                                     *)
Indexed(r) ==
  IF ~row[r].there
    THEN [there |-> TRUE, path |-> "home", from |-> "nowhere", deleted |-> FALSE,
          missing |-> r \notin idx.seen, locked |-> FALSE]
    ELSE IF row[r].deleted
           THEN row[r]
           ELSE [row[r] EXCEPT !.path = "home", !.missing = r \notin idx.seen]

(* Each session of the batch has a savepoint: one that is refused leaves    *)
(* its rows as they were, and the others are written.                       *)
Write == /\ idx.step = "looked"
         /\ \E refused \in SUBSET Recordings :
              row' = [r \in Recordings |-> IF r \in refused THEN row[r] ELSE Indexed(r)]
         /\ idx' = [AtRest EXCEPT !.step = "written"]
         /\ UNCHANGED <<disk, flags, win, files>>

(* The batch met another writer: it is rolled back whole and the run ends.  *)
WriteRefused == /\ idx.step = "looked"
                /\ idx' = AtRest
                /\ UNCHANGED <<disk, row, flags, win, files>>

(* What the sweep may take, read once; the limits take the oldest of it.    *)
Deletable(r) == /\ row[r].there
                /\ ~row[r].locked /\ ~row[r].deleted /\ ~row[r].missing

Plan == /\ idx.step = "written"
        /\ \E newest \in Recordings \cup {0} :
             idx' = [idx EXCEPT !.step = "sending",
                                !.plan = {r \in Recordings : Deletable(r) /\ r <= newest}]
        /\ UNCHANGED <<disk, row, flags, win, files>>

Oldest(r) == r \in idx.plan /\ \A q \in idx.plan : r <= q

(* The row is read again before its file is moved; one that is in the trash *)
(* by now, or is no longer there, is refused and the sweep carries on.      *)
SendRead(r) == /\ idx.step = "sending" /\ Oldest(r)
               /\ idx' = IF row[r].there /\ ~row[r].deleted
                           THEN [idx EXCEPT !.step = "stow", !.item = {r},
                                            !.from = row[r].path, !.plan = @ \ {r}]
                           ELSE [idx EXCEPT !.plan = @ \ {r}]
               /\ UNCHANGED <<disk, row, flags, win, files>>

(* Mutant: what was asked for while the run went on is taken as answered.   *)
FinishRunAnswered == /\ idx.step = "sending" /\ idx.plan = {}
                     /\ idx' = AtRest
                     /\ requested' = FALSE
                     /\ UNCHANGED <<disk, row, stopping, win, files>>

FinishRun == /\ idx.step = "sending" /\ idx.plan = {}
             /\ idx' = AtRest
             /\ UNCHANGED <<disk, row, flags, win, files>>

NextItem == [idx EXCEPT !.step = "sending", !.item = {}, !.from = "nowhere",
                        !.entry = "nowhere"]

(* Mutant: the directory is not made with "is it there already" answered.   *)
StowOver(r) == /\ idx.step = "stow" /\ idx.item = {r}
               /\ IF Present(r, idx.from)
                    THEN \E e \in Entries :
                           /\ disk' = Renamed(r, idx.from, e)
                           /\ idx' = [idx EXCEPT !.step = "mark", !.entry = e]
                    ELSE /\ idx' = [idx EXCEPT !.step = "mark"]
                         /\ UNCHANGED disk
               /\ UNCHANGED <<row, flags, win, files>>

(* Whatever is at the path the row named is renamed into a directory of its *)
(* own; nothing there is an item whose file has already gone.               *)
Stow(r) == /\ idx.step = "stow" /\ idx.item = {r}
           /\ IF Present(r, idx.from)
                THEN \E e \in Entries :
                       /\ ~Present(r, e)
                       /\ disk' = Renamed(r, idx.from, e)
                       /\ idx' = [idx EXCEPT !.step = "mark", !.entry = e]
                ELSE /\ idx' = [idx EXCEPT !.step = "mark"]
                     /\ UNCHANGED disk
           /\ UNCHANGED <<row, flags, win, files>>

StowRefused(r) == /\ idx.step = "stow" /\ idx.item = {r} /\ Present(r, idx.from)
                  /\ idx' = NextItem
                  /\ UNCHANGED <<disk, row, flags, win, files>>

Mark(r) == /\ idx.step = "mark" /\ idx.item = {r}
           /\ row' = IF row[r].there
                       THEN [row EXCEPT ![r].deleted = TRUE, ![r].from = idx.from,
                                        ![r].path = IF idx.entry = "nowhere" THEN idx.from
                                                                             ELSE idx.entry]
                       ELSE row
           /\ idx' = NextItem
           /\ UNCHANGED <<disk, flags, win, files>>

(* The index refuses, and the file is put back where it was, whatever is    *)
(* there now.                                                               *)
PutBack(r) == /\ idx.step = "mark" /\ idx.item = {r}
              /\ disk' = IF idx.entry = "nowhere" THEN disk
                                                  ELSE Renamed(r, idx.entry, idx.from)
              /\ idx' = NextItem
              /\ UNCHANGED <<row, flags, win, files>>

(* The index refuses and the file will not go back either.                  *)
Stranded(r) == /\ idx.step = "mark" /\ idx.item = {r} /\ idx.entry # "nowhere"
               /\ stranded' = stranded \cup {r}
               /\ idx' = NextItem
               /\ UNCHANGED <<disk, row, flags, win, byHand, events>>

IndexerStep == \/ Wake \/ Look \/ Write \/ WriteRefused \/ Plan \/ FinishRun
               \/ \E r \in Recordings : \/ SendRead(r) \/ Stow(r) \/ StowRefused(r)
                                        \/ Mark(r) \/ PutBack(r) \/ Stranded(r)

-----------------------------------------------------------------------------
(* The window's commands, one at a time behind the reader's own lock.       *)

(* Restoring reads the row and asks whether its file is there; with nothing *)
(* to move the row goes back to where it came from by itself.               *)
RestoreRead(r) ==
  /\ win.step = "idle" /\ InTrash(r)
  /\ LET here  == row[r].path
         there == IF row[r].from = "nowhere" THEN row[r].path ELSE row[r].from
         moves == here # there /\ Present(r, here)
     IN win' = [win EXCEPT !.step = IF moves THEN "claim" ELSE "clear", !.item = {r},
                           !.here = here, !.name = there]
  /\ UNCHANGED <<disk, row, flags, idx, files>>

(* The first free name at or beside where it came from, taken by creating   *)
(* an empty file there; only the first two of the thousand names are here.  *)
NamesAt(there) == IF there = "home" THEN Names ELSE {there}
(* Mutant: the name is asked about and not claimed.                         *)
FirstName(r, there, name) == name = there

FirstFree(r, there, name) ==
  /\ name \in NamesAt(there) /\ ~Present(r, name)
  /\ name # there => Present(r, there)

RestoreClaim(r) == /\ win.step = "claim" /\ win.item = {r}
                   /\ \E name \in Places :
                        /\ FirstFree(r, win.name, name)
                        /\ disk' = [disk EXCEPT ![r][name] = "placeholder"]
                        /\ win' = [win EXCEPT !.step = "move", !.name = name]
                   /\ UNCHANGED <<row, flags, idx, files>>

(* The drive is not there, or no name is free: nothing has changed.         *)
RestoreClaimFails(r) == /\ win.step = "claim" /\ win.item = {r}
                        /\ win' = NoCommand
                        /\ UNCHANGED <<disk, row, flags, idx, files>>

RestoreMove(r) == /\ win.step = "move" /\ win.item = {r} /\ Present(r, win.here)
                  /\ disk' = Renamed(r, win.here, win.name)
                  /\ win' = [win EXCEPT !.step = "clear", !.moved = TRUE]
                  /\ UNCHANGED <<row, flags, idx, files>>

(* The rename fails, for one because the trash was emptied by hand since;   *)
(* the empty file is removed again.                                         *)
RestoreMoveFails(r) == /\ win.step = "move" /\ win.item = {r}
                       /\ disk' = [disk EXCEPT ![r][win.name] = "nothing"]
                       /\ win' = NoCommand
                       /\ UNCHANGED <<row, flags, idx, files>>

RestoreClear(r) == /\ win.step = "clear" /\ win.item = {r}
                   /\ row' = IF row[r].there
                               THEN [row EXCEPT ![r].deleted = FALSE, ![r].from = "nowhere",
                                                ![r].path = win.name]
                               ELSE row
                   /\ win' = NoCommand
                   /\ UNCHANGED <<disk, flags, idx, files>>

(* The index refuses: the file goes back into the trash, or will not.       *)
RestoreRefused(r) == /\ win.step = "clear" /\ win.item = {r}
                     /\ \/ disk' = IF win.moved THEN Renamed(r, win.name, win.here) ELSE disk
                        \/ UNCHANGED disk
                     /\ win' = NoCommand
                     /\ UNCHANGED <<row, flags, idx, files>>

(* Emptying works down the listing it was confirmed against.                *)
EmptyTrash == /\ win.step = "idle"
              /\ \E r \in Recordings : InTrash(r)
              /\ win' = [win EXCEPT !.step = "emptying",
                           !.list = {[item |-> r, path |-> row[r].path] :
                                       r \in {q \in Recordings : InTrash(q)}}]
              /\ UNCHANGED <<disk, row, flags, idx, files>>

(* The file first: gone already, left where it is because it is not inside  *)
(* the trash, or unlinked.                                                  *)
Discard(entry) == /\ win.step = "emptying" /\ entry \in win.list
                  /\ disk' = IF entry.path \in Entries
                               THEN [disk EXCEPT ![entry.item][entry.path] = "nothing"]
                               ELSE disk
                  /\ win' = [win EXCEPT !.step = "drop", !.item = {entry.item},
                                        !.list = @ \ {entry}]
                  /\ UNCHANGED <<row, flags, idx, files>>

DiscardFails(entry) == /\ win.step = "emptying" /\ entry \in win.list
                       /\ entry.path \in Entries /\ Present(entry.item, entry.path)
                       /\ win' = [win EXCEPT !.list = @ \ {entry}]
                       /\ UNCHANGED <<disk, row, flags, idx, files>>

(* Then the row, which the index may refuse to let go.                      *)
Drop(r) == /\ win.step = "drop" /\ win.item = {r}
           /\ \/ row' = [row EXCEPT ![r] = NoRow]
              \/ UNCHANGED row
           /\ win' = [win EXCEPT !.step = "emptying", !.item = {}]
           /\ UNCHANGED <<disk, flags, idx, files>>

EmptyEnds == /\ win.step = "emptying" /\ win.list = {}
             /\ win' = NoCommand
             /\ UNCHANGED <<disk, row, flags, idx, files>>

(* Locking a recording, or unlocking it, is one statement.                  *)
SetLock(r) == /\ win.step = "idle" /\ row[r].there
              /\ events < MaxEvents /\ events' = events + 1
              /\ row' = [row EXCEPT ![r].locked = ~@]
              /\ UNCHANGED <<disk, flags, idx, win, stranded, byHand>>

WindowStep == \/ EmptyTrash \/ EmptyEnds
              \/ \E r \in Recordings : \/ RestoreRead(r) \/ RestoreClaim(r) \/ RestoreClaimFails(r)
                                       \/ RestoreMove(r) \/ RestoreMoveFails(r) \/ RestoreClear(r)
                                       \/ RestoreRefused(r) \/ Drop(r) \/ SetLock(r)
              \/ \E entry \in win.list : Discard(entry) \/ DiscardFails(entry)

-----------------------------------------------------------------------------
(* What comes between: a person in Explorer, and the end of the process.    *)

PutCopyByHand(r) == /\ events < MaxEvents /\ ~Present(r, "home")
                    /\ disk' = [disk EXCEPT ![r]["home"] = "other"]
                    /\ events' = events + 1
                    /\ UNCHANGED <<row, flags, idx, win, stranded, byHand>>

RemoveByHand(r, p) == /\ events < MaxEvents /\ disk[r][p] \in {"footage", "other"}
                      /\ disk' = [disk EXCEPT ![r][p] = "nothing"]
                      /\ byHand' = IF disk[r][p] = "footage" THEN byHand \cup {r} ELSE byHand
                      /\ events' = events + 1
                      /\ UNCHANGED <<row, flags, idx, win, stranded>>

(* The process dies and is started again, with every command and run gone,  *)
(* and a start asks for a run.  Nothing on the disk says a move was on.     *)
Crash == /\ events < MaxEvents
         /\ events' = events + 1
         /\ idx' = AtRest /\ win' = NoCommand
         /\ requested' = TRUE /\ stopping' = FALSE
         /\ stranded' = IF idx.step = "mark" /\ idx.entry # "nowhere"
                          THEN stranded \cup idx.item ELSE stranded
         /\ UNCHANGED <<disk, row, byHand>>

ByHand == \E r \in Recordings : \/ PutCopyByHand(r)
                                \/ \E p \in Places : RemoveByHand(r, p)

Next == Request \/ ShutDown \/ IndexerStep \/ WindowStep \/ ByHand \/ Crash

Spec == Init /\ [][Next]_vars

(* The indexer's thread is scheduled.                                       *)
FairSpec == Spec /\ WF_vars(IndexerStep)

-----------------------------------------------------------------------------
LibraryTypeOK ==
  /\ disk \in [Recordings -> [Places -> Contents]]
  /\ row \in [Recordings -> Rows \cup {NoRow}]
  /\ requested \in BOOLEAN /\ stopping \in BOOLEAN
  /\ idx \in [step : {"idle", "looking", "looked", "written", "sending", "stow", "mark", "ended"},
              seen : SUBSET Recordings, plan : SUBSET Recordings,
              item : SUBSET Recordings, from : Places \cup {"nowhere"},
              entry : Entries \cup {"nowhere"}]
  /\ win \in [step : {"idle", "claim", "move", "clear", "emptying", "drop"},
              item : SUBSET Recordings, here : Places \cup {"nowhere"},
              name : Places \cup {"nowhere"}, moved : BOOLEAN,
              list : SUBSET [item : Recordings, path : Places]]
  /\ stranded \subseteq Recordings /\ byHand \subseteq Recordings
  /\ events \in Nat

(* Two database connections move files with no lock between them.  What     *)
(* keeps them off one another's file is the row's mark alone: the sweep is  *)
(* at work only on a recording whose row is not in the trash, and the       *)
(* window only on one whose row is.                                         *)
Sweeping(r) == idx.step \in {"stow", "mark"} /\ idx.item = {r}
AtWork(r) == \/ win.step \in {"claim", "move", "clear", "drop"} /\ win.item = {r}
             \/ \E entry \in win.list : entry.item = r
MarkKeepsApart == \A r \in Recordings : /\ Sweeping(r) => row[r].there /\ ~row[r].deleted
                                        /\ AtWork(r) => InTrash(r)

(* The library keeps to its types, and the sweep and the window apart.      *)
HandsKeepApart == LibraryTypeOK /\ MarkKeepsApart

(* Footage in the trash that nobody is moving is named by a row that says   *)
(* so, and can be listed and restored, whatever the index refused and       *)
(* whatever was done by hand; only a process that died between the rename   *)
(* and the row, or two failures in a row, leave a file there nothing names. *)
TrashIsNamed ==
  \A r \in Recordings : \A e \in Entries :
    disk[r][e] = "footage" /\ ~Sweeping(r) /\ r \notin stranded
      => InTrash(r) /\ row[r].path = e

(* A file somebody else put where a recording was is never replaced: not by *)
(* a restore, which claims a free name first.  Only undoing a move whose    *)
(* row was refused renames onto what came there in between.                 *)
OthersSurvive ==
  [][\A r \in Recordings :
       disk[r]["home"] = "other" /\ disk'[r]["home"] # "other"
         => \/ disk'[r]["home"] = "nothing"
            \/ PutBack(r)]_vars

(* The promise of a recoverable deletion is kept: footage leaves the        *)
(* library only for the trash, and is destroyed only out of the trash and   *)
(* under a row that is in it, or by hand.                                   *)
FootageAt(r, where) == \E p \in where : disk[r][p] = "footage"
Place == [r \in Recordings |-> IF FootageAt(r, Entries) THEN "trash"
                               ELSE IF FootageAt(r, Names) THEN "library" ELSE "gone"]
Promise == INSTANCE RecoverableDeletion
             WITH place <- Place, marked <- {r \in Recordings : InTrash(r)}, byHand <- byHand
DeletionIsRecoverable == Promise!Spec

(* Being asked to stop ends the thread, in the middle of a run and of the   *)
(* sweep after it, unless the process dies first; and a run that was asked  *)
(* for, also while one was going on, is begun.                              *)
IndexerAnswers == /\ stopping ~> (idx.step = "ended" \/ ~stopping)
                  /\ requested ~> (idx.step = "looking" \/ stopping)

(* What the trash says of emptying it: a destroyed recording has no row any *)
(* more, because an entry that can never be restored or played is not a     *)
(* record of anything.  Its session record still names it, and the next run *)
(* of the indexer makes a row again, of a recording that is missing.        *)
Destroyed(r) == Place[r] = "gone" /\ r \notin byHand /\ ~row[r].there
DestroyedIsForgotten == \A r \in Recordings : [](Destroyed(r) => [](~row[r].there))
=============================================================================
