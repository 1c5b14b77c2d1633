--------------------------- MODULE Library_proofs ---------------------------
EXTENDS Library, TLAPS
(* A row in the trash names where its file went or, with no file to move,   *)
(* where it was; one in the library names a file of the library.            *)
RowsAreSound ==
  \A r \in Recordings : row[r].there =>
    IF row[r].deleted
      THEN row[r].from \in Names /\ (row[r].path \in Entries \/ row[r].path = row[r].from)
      ELSE row[r].path \in Names

(* What the sweep moves came from the library, and once it is moved no      *)
(* other footage is where it was; until then none of it is in the trash.    *)
SweepIsSound ==
  /\ idx.step # "mark" => idx.entry = "nowhere"
  /\ \A r \in Recordings : Sweeping(r) =>
    /\ idx.from \in Names
    /\ idx.entry # "nowhere" => disk[r][idx.from] # "footage"
    /\ \A e \in Entries : disk[r][e] = "footage" /\ r \notin stranded => e = idx.entry

(* A restore holds the name it claimed, moves what its row names, and once  *)
(* it has, the trash no longer holds it.                                    *)
Restoring(r) == win.step \in {"claim", "move", "clear"} /\ win.item = {r}
RestoreIsSound ==
  /\ win.moved => win.step = "clear" /\ win.here \in Entries
  /\ \A r \in Recordings : Restoring(r) =>
       /\ win.name \in Names
       /\ win.here = row[r].path
       /\ win.step \in {"claim", "move"} => win.here \in Entries
       /\ win.step = "move" => disk[r][win.name] = "placeholder"
       /\ win.step = "clear" /\ win.here \in Entries => disk[r][win.here] # "footage"

(* The listing that is being destroyed still says where its files are, and  *)
(* a row is dropped only when the trash holds no footage of it.             *)
EmptyIsSound ==
  /\ win.list # {} => win.step \in {"emptying", "drop"}
  /\ \A entry \in win.list : entry.path = row[entry.item].path
  /\ \A r \in Recordings : win.step = "drop" /\ win.item = {r} =>
       /\ \A entry \in win.list : entry.item # r
       /\ \A e \in Entries : disk[r][e] = "footage" => r \in stranded

(* Footage is in one place.                                                 *)
OneFile == \A r \in Recordings : \A p, q \in Places :
             disk[r][p] = "footage" /\ disk[r][q] = "footage" => p = q

IInv == /\ LibraryTypeOK /\ MarkKeepsApart /\ OneFile /\ RowsAreSound
        /\ SweepIsSound /\ RestoreIsSound /\ EmptyIsSound /\ TrashIsNamed

(* The type of the two threads' own state.                                  *)
IdxTyped ==
  idx \in [step : {"idle", "looking", "looked", "written", "sending", "stow", "mark", "ended"},
           seen : SUBSET Recordings, plan : SUBSET Recordings,
           item : SUBSET Recordings, from : Places \cup {"nowhere"},
           entry : Entries \cup {"nowhere"}]
WinTyped ==
  win \in [step : {"idle", "claim", "move", "clear", "emptying", "drop"},
           item : SUBSET Recordings, here : Places \cup {"nowhere"},
           name : Places \cup {"nowhere"}, moved : BOOLEAN,
           list : SUBSET [item : Recordings, path : Places]]
(* The type of the disk.                                                    *)
DiskTyped == disk \in [Recordings -> [Places -> Contents]]

(* An entry of the trash is no name of the library, and is somewhere.       *)
LEMMA PlacesApart ==
  /\ \A e \in Entries : e \in Places /\ e \notin Names /\ e # "nowhere"
  /\ \A n \in Names : n \in Places /\ n \notin Entries /\ n # "nowhere"
  /\ "home" \in Names
BY EntriesAssumption DEF Places, Names

(* What a rename leaves where: nothing at the old place, and at the new one *)
(* what was at the old.                                                     *)
LEMMA RenamedTo ==
  ASSUME DiskTyped, NEW r \in Recordings, NEW p \in Places, NEW q \in Places, p # q
  PROVE  /\ Renamed(r, p, q) \in [Recordings -> [Places -> Contents]]
         /\ \A s \in Recordings : \A x \in Places :
              Renamed(r, p, q)[s][x] = IF s = r /\ x = p THEN "nothing"
                                       ELSE IF s = r /\ x = q THEN disk[r][p]
                                       ELSE disk[s][x]
BY DEF DiskTyped, Renamed, Contents

(* One place is given other contents.                                       *)
LEMMA PutThere ==
  ASSUME DiskTyped, NEW r \in Recordings, NEW p \in Places, NEW c \in Contents
  PROVE  /\ [disk EXCEPT ![r][p] = c] \in [Recordings -> [Places -> Contents]]
         /\ \A s \in Recordings : \A x \in Places :
              [disk EXCEPT ![r][p] = c][s][x] = IF s = r /\ x = p THEN c ELSE disk[s][x]
BY DEF DiskTyped


(* The type of the index, and what a batch writes of a recording: all of it *)
(* or, of one in the trash, nothing.                                        *)
RowTyped == row \in [Recordings -> Rows \cup {NoRow}]

LEMMA IndexedIsSound ==
  ASSUME RowTyped, NEW r \in Recordings
  PROVE  /\ Indexed(r) \in Rows
         /\ Indexed(r).there
         /\ InTrash(r) => Indexed(r) = row[r]
         /\ ~InTrash(r) => ~Indexed(r).deleted /\ Indexed(r).path = "home"
<1>1. CASE ~row[r].there
  BY <1>1 DEF Indexed, InTrash, Rows, Places, Names
<1>2. CASE row[r].there
  <2>1. row[r] \in Rows
    BY <1>2 DEF RowTyped, NoRow
  <2>2. [row[r] EXCEPT !.path = "home", !.missing = r \notin idx.seen] \in Rows
    BY <2>1 DEF Rows, Places, Names
  <2>3. CASE row[r].deleted
    BY <1>2, <2>1, <2>3 DEF Indexed, InTrash
  <2>4. CASE ~row[r].deleted
    BY <1>2, <2>1, <2>2, <2>4 DEF Indexed, InTrash, Rows
  <2> QED BY <2>3, <2>4
<1> QED BY <1>1, <1>2

(* A run is asked for.                                                      *)
LEMMA RequestKeeps ==
  ASSUME IInv, Request
  PROVE  IInv'
<1>1. LibraryTypeOK'
  BY DEF Request, IInv, LibraryTypeOK, files, flags
<1>2. /\ MarkKeepsApart' /\ OneFile' /\ RowsAreSound' /\ SweepIsSound'
      /\ RestoreIsSound' /\ EmptyIsSound' /\ TrashIsNamed'
  BY DEF Request, IInv, files, flags, MarkKeepsApart, Sweeping, AtWork, InTrash,
    OneFile, RowsAreSound, SweepIsSound, RestoreIsSound, Restoring, EmptyIsSound,
    TrashIsNamed
<1> QED BY <1>1, <1>2 DEF IInv

(* The recorder is ending: no further run is started.                       *)
LEMMA ShutDownKeeps ==
  ASSUME IInv, ShutDown
  PROVE  IInv'
<1>1. LibraryTypeOK'
  BY DEF ShutDown, IInv, LibraryTypeOK, files, flags
<1>2. /\ MarkKeepsApart' /\ OneFile' /\ RowsAreSound' /\ SweepIsSound'
      /\ RestoreIsSound' /\ EmptyIsSound' /\ TrashIsNamed'
  BY DEF ShutDown, IInv, files, flags, MarkKeepsApart, Sweeping, AtWork, InTrash,
    OneFile, RowsAreSound, SweepIsSound, RestoreIsSound, Restoring, EmptyIsSound,
    TrashIsNamed
<1> QED BY <1>1, <1>2 DEF IInv

(* The indexer's thread takes up a request, or ends.                        *)
LEMMA WakeKeeps ==
  ASSUME IInv, Wake
  PROVE  IInv'
<1>1. LibraryTypeOK'
  <2>1. IdxTyped'
    BY DEF Wake, IInv, IdxTyped, LibraryTypeOK
  <2>2. UNCHANGED <<disk, row, stopping, win, stranded, byHand, events>>
    BY DEF Wake, files, flags
  <2>3. requested' \in BOOLEAN
    BY DEF Wake, IInv, LibraryTypeOK
  <2> QED BY <2>1, <2>2, <2>3 DEF IInv, LibraryTypeOK, IdxTyped
<1>2. OneFile' /\ RowsAreSound' /\ RestoreIsSound' /\ EmptyIsSound'
  BY DEF Wake, IInv, files, flags, OneFile, RowsAreSound, RestoreIsSound,
    Restoring, EmptyIsSound
<1>3. MarkKeepsApart'
  BY DEF Wake, IInv, MarkKeepsApart, Sweeping, AtWork, InTrash
<1>4. SweepIsSound'
  BY DEF Wake, IInv, SweepIsSound, Sweeping
<1>5. TrashIsNamed'
  <2> SUFFICES ASSUME NEW s \in Recordings, NEW e \in Entries,
                      disk'[s][e] = "footage", ~Sweeping(s)', s \notin stranded'
               PROVE  InTrash(s)' /\ row'[s].path = e
    BY DEF TrashIsNamed
  <2>1. ~Sweeping(s) /\ UNCHANGED <<disk, row, stranded>>
    BY DEF Wake, Sweeping, files, IInv, LibraryTypeOK
  <2> QED BY <2>1 DEF IInv, TrashIsNamed, InTrash
<1> QED BY <1>1, <1>2, <1>3, <1>4, <1>5 DEF IInv

(* A run looks at the files.                                                *)
LEMMA LookKeeps ==
  ASSUME IInv, Look
  PROVE  IInv'
<1>1. LibraryTypeOK'
  <2>1. IdxTyped'
    BY DEF Look, IInv, Present, IdxTyped, LibraryTypeOK
  <2>2. UNCHANGED <<disk, row, requested, stopping, win, stranded, byHand, events>>
    BY DEF Look, files, flags
  <2> QED BY <2>1, <2>2 DEF IInv, LibraryTypeOK, IdxTyped
<1>2. OneFile' /\ RowsAreSound' /\ RestoreIsSound' /\ EmptyIsSound'
  BY DEF Look, IInv, files, flags, OneFile, RowsAreSound, RestoreIsSound,
    Restoring, EmptyIsSound
<1>3. MarkKeepsApart'
  BY DEF Look, IInv, Present, MarkKeepsApart, Sweeping, AtWork, InTrash
<1>4. SweepIsSound'
  BY DEF Look, IInv, Present, SweepIsSound, Sweeping
<1>5. TrashIsNamed'
  <2> SUFFICES ASSUME NEW s \in Recordings, NEW e \in Entries,
                      disk'[s][e] = "footage", ~Sweeping(s)', s \notin stranded'
               PROVE  InTrash(s)' /\ row'[s].path = e
    BY DEF TrashIsNamed
  <2>1. ~Sweeping(s) /\ UNCHANGED <<disk, row, stranded>>
    BY DEF Look, Sweeping, files, IInv, LibraryTypeOK
  <2> QED BY <2>1 DEF IInv, TrashIsNamed, InTrash
<1> QED BY <1>1, <1>2, <1>3, <1>4, <1>5 DEF IInv

(* The batch is written: a row in the trash keeps its path and its mark.    *)
LEMMA WriteDoes ==
  ASSUME IInv, Write
  PROVE  /\ RowTyped'
         /\ \A r \in Recordings :
              /\ InTrash(r) => row'[r] = row[r]
              /\ row'[r] # row[r] => /\ ~InTrash(r) /\ row'[r].there
                                    /\ ~row'[r].deleted /\ row'[r].path = "home"
<1>1. PICK refused \in SUBSET Recordings :
        row' = [r \in Recordings |-> IF r \in refused THEN row[r] ELSE Indexed(r)]
  BY DEF Write
<1>2. RowTyped
  BY DEF IInv, LibraryTypeOK, RowTyped
<1>3. ASSUME NEW r \in Recordings
      PROVE  /\ row'[r] \in Rows \cup {NoRow}
             /\ InTrash(r) => row'[r] = row[r]
             /\ row'[r] # row[r] => /\ ~InTrash(r) /\ row'[r].there
                                   /\ ~row'[r].deleted /\ row'[r].path = "home"
  <2>1. CASE r \in refused
    BY <1>1, <1>2, <2>1 DEF RowTyped
  <2>2. CASE r \notin refused
    <3>1. row'[r] = Indexed(r)
      BY <1>1, <2>2
    <3> QED BY <1>2, <3>1, IndexedIsSound
  <2> QED BY <2>1, <2>2
<1> QED BY <1>1, <1>3 DEF RowTyped

LEMMA WriteKeeps ==
  ASSUME IInv, Write
  PROVE  IInv'
<1>a. /\ RowTyped'
      /\ \A r \in Recordings :
           /\ InTrash(r) => row'[r] = row[r]
           /\ row'[r] # row[r] => /\ ~InTrash(r) /\ row'[r].there
                                 /\ ~row'[r].deleted /\ row'[r].path = "home"
  BY WriteDoes
<1>1. LibraryTypeOK'
  <2>1. RowTyped'
    BY <1>a DEF RowTyped
  <2>2. IdxTyped'
    BY DEF Write, IInv, AtRest, IdxTyped, LibraryTypeOK
  <2>3. UNCHANGED <<disk, requested, stopping, win, stranded, byHand, events>>
    BY DEF Write, files, flags
  <2> QED BY <2>1, <2>2, <2>3 DEF IInv, LibraryTypeOK, RowTyped, IdxTyped
<1>2. OneFile'
  BY DEF Write, IInv, files, flags, OneFile
<1>3. MarkKeepsApart'
  BY <1>a DEF Write, IInv, AtRest, MarkKeepsApart, Sweeping, AtWork,
    InTrash
<1>4. RowsAreSound'
  BY PlacesApart, <1>a DEF Write, IInv, AtRest, RowsAreSound,
    LibraryTypeOK, Rows, NoRow, Places, Names
<1>5. SweepIsSound'
  BY <1>a DEF Write, IInv, AtRest, SweepIsSound, Sweeping
<1>6. RestoreIsSound'
  <2>1. UNCHANGED <<disk, win>>
    BY DEF Write, files
  <2>2. ASSUME NEW s \in Recordings, Restoring(s)
        PROVE  row'[s] = row[s]
    BY <1>a, <2>2 DEF IInv, MarkKeepsApart, AtWork, Restoring
  <2> QED BY <2>1, <2>2 DEF IInv, RestoreIsSound, Restoring
<1>7. EmptyIsSound'
  <2>1. UNCHANGED <<disk, win, stranded>>
    BY DEF Write, files
  <2>2. ASSUME NEW entry \in win.list
        PROVE  row'[entry.item] = row[entry.item]
    <3>1. entry.item \in Recordings
      BY DEF IInv, LibraryTypeOK
    <3> QED BY <1>a, <3>1 DEF IInv, MarkKeepsApart, AtWork
  <2> QED BY <2>1, <2>2 DEF IInv, EmptyIsSound
<1>8. TrashIsNamed'
  <2> SUFFICES ASSUME NEW s \in Recordings, NEW e \in Entries,
                      disk'[s][e] = "footage", ~Sweeping(s)', s \notin stranded'
               PROVE  InTrash(s)' /\ row'[s].path = e
    BY DEF TrashIsNamed
  <2>1. InTrash(s) /\ row[s].path = e
    BY DEF Write, Sweeping, files, IInv, TrashIsNamed
  <2> QED BY <1>a, <2>1 DEF InTrash
<1> QED BY <1>1, <1>2, <1>3, <1>4, <1>5, <1>6, <1>7, <1>8 DEF IInv

(* The batch is rolled back.                                                *)
LEMMA WriteRefusedKeeps ==
  ASSUME IInv, WriteRefused
  PROVE  IInv'
<1>1. LibraryTypeOK'
  <2>1. IdxTyped'
    BY DEF WriteRefused, IInv, AtRest, IdxTyped, LibraryTypeOK
  <2>2. UNCHANGED <<disk, row, requested, stopping, win, stranded, byHand, events>>
    BY DEF WriteRefused, files, flags
  <2> QED BY <2>1, <2>2 DEF IInv, LibraryTypeOK, IdxTyped
<1>2. OneFile' /\ RowsAreSound' /\ RestoreIsSound' /\ EmptyIsSound'
  BY DEF WriteRefused, IInv, files, flags, OneFile, RowsAreSound, RestoreIsSound,
    Restoring, EmptyIsSound
<1>3. MarkKeepsApart'
  BY DEF WriteRefused, IInv, AtRest, MarkKeepsApart, Sweeping, AtWork, InTrash
<1>4. SweepIsSound'
  BY DEF WriteRefused, IInv, AtRest, SweepIsSound, Sweeping
<1>5. TrashIsNamed'
  <2> SUFFICES ASSUME NEW s \in Recordings, NEW e \in Entries,
                      disk'[s][e] = "footage", ~Sweeping(s)', s \notin stranded'
               PROVE  InTrash(s)' /\ row'[s].path = e
    BY DEF TrashIsNamed
  <2>1. ~Sweeping(s) /\ UNCHANGED <<disk, row, stranded>>
    BY DEF WriteRefused, Sweeping, files, IInv, LibraryTypeOK, AtRest
  <2> QED BY <2>1 DEF IInv, TrashIsNamed, InTrash
<1> QED BY <1>1, <1>2, <1>3, <1>4, <1>5 DEF IInv

(* The sweep reads once what it may take.                                   *)
LEMMA PlanKeeps ==
  ASSUME IInv, Plan
  PROVE  IInv'
<1>1. LibraryTypeOK'
  <2>1. IdxTyped'
    <3>1. PICK newest \in Recordings \cup {0} :
            idx' = [idx EXCEPT !.step = "sending",
                               !.plan = {r \in Recordings : Deletable(r) /\ r <= newest}]
      BY DEF Plan
    <3>2. {r \in Recordings : Deletable(r) /\ r <= newest} \in SUBSET Recordings
      OBVIOUS
    <3> QED BY <3>1, <3>2 DEF IInv, LibraryTypeOK, IdxTyped
  <2>2. UNCHANGED <<disk, row, requested, stopping, win, stranded, byHand, events>>
    BY DEF Plan, files, flags
  <2> QED BY <2>1, <2>2 DEF IInv, LibraryTypeOK, IdxTyped
<1>2. OneFile' /\ RowsAreSound' /\ RestoreIsSound' /\ EmptyIsSound'
  BY DEF Plan, IInv, files, flags, OneFile, RowsAreSound, RestoreIsSound,
    Restoring, EmptyIsSound
<1>3. MarkKeepsApart'
  BY DEF Plan, IInv, Deletable, MarkKeepsApart, Sweeping, AtWork, InTrash
<1>4. SweepIsSound'
  BY DEF Plan, IInv, Deletable, SweepIsSound, Sweeping
<1>5. TrashIsNamed'
  <2> SUFFICES ASSUME NEW s \in Recordings, NEW e \in Entries,
                      disk'[s][e] = "footage", ~Sweeping(s)', s \notin stranded'
               PROVE  InTrash(s)' /\ row'[s].path = e
    BY DEF TrashIsNamed
  <2>1. ~Sweeping(s) /\ UNCHANGED <<disk, row, stranded>>
    BY DEF Plan, Sweeping, files, IInv, LibraryTypeOK
  <2> QED BY <2>1 DEF IInv, TrashIsNamed, InTrash
<1> QED BY <1>1, <1>2, <1>3, <1>4, <1>5 DEF IInv

(* The run ends.                                                            *)
LEMMA FinishRunKeeps ==
  ASSUME IInv, FinishRun
  PROVE  IInv'
<1>1. LibraryTypeOK'
  <2>1. IdxTyped'
    BY DEF FinishRun, IInv, AtRest, IdxTyped, LibraryTypeOK
  <2>2. UNCHANGED <<disk, row, requested, stopping, win, stranded, byHand, events>>
    BY DEF FinishRun, files, flags
  <2> QED BY <2>1, <2>2 DEF IInv, LibraryTypeOK, IdxTyped
<1>2. OneFile' /\ RowsAreSound' /\ RestoreIsSound' /\ EmptyIsSound'
  BY DEF FinishRun, IInv, files, flags, OneFile, RowsAreSound, RestoreIsSound,
    Restoring, EmptyIsSound
<1>3. MarkKeepsApart'
  BY DEF FinishRun, IInv, AtRest, MarkKeepsApart, Sweeping, AtWork, InTrash
<1>4. SweepIsSound'
  BY DEF FinishRun, IInv, AtRest, SweepIsSound, Sweeping
<1>5. TrashIsNamed'
  <2> SUFFICES ASSUME NEW s \in Recordings, NEW e \in Entries,
                      disk'[s][e] = "footage", ~Sweeping(s)', s \notin stranded'
               PROVE  InTrash(s)' /\ row'[s].path = e
    BY DEF TrashIsNamed
  <2>1. ~Sweeping(s) /\ UNCHANGED <<disk, row, stranded>>
    BY DEF FinishRun, Sweeping, files, IInv, LibraryTypeOK, AtRest
  <2> QED BY <2>1 DEF IInv, TrashIsNamed, InTrash
<1> QED BY <1>1, <1>2, <1>3, <1>4, <1>5 DEF IInv

(* The sweep reads a row again: only one in the library is swept.           *)
LEMMA SendReadKeeps ==
  ASSUME IInv, NEW r \in Recordings, SendRead(r)
  PROVE  IInv'
<1>1. LibraryTypeOK'
  <2>1. IdxTyped'
    <3>1. row[r].there => row[r].path \in Places
      BY PlacesApart DEF IInv, RowsAreSound
    <3> QED BY <3>1 DEF SendRead, IInv, LibraryTypeOK, IdxTyped
  <2>2. UNCHANGED <<disk, row, requested, stopping, win, stranded, byHand, events>>
    BY DEF SendRead, files, flags
  <2> QED BY <2>1, <2>2 DEF IInv, LibraryTypeOK, IdxTyped
<1>2. OneFile' /\ RowsAreSound' /\ RestoreIsSound' /\ EmptyIsSound'
  BY DEF SendRead, IInv, files, flags, OneFile, RowsAreSound, RestoreIsSound,
    Restoring, EmptyIsSound
<1>3. MarkKeepsApart'
  BY DEF SendRead, IInv, Oldest, MarkKeepsApart, Sweeping, AtWork, InTrash
<1>4. SweepIsSound'
  <2>1. CASE row[r].there /\ ~row[r].deleted
    <3>1. /\ idx'.step = "stow" /\ idx'.item = {r} /\ idx'.entry = "nowhere"
          /\ idx'.from = row[r].path /\ UNCHANGED <<disk, stranded>>
      BY <2>1 DEF SendRead, files, IInv, LibraryTypeOK, SweepIsSound
    <3>2. row[r].path \in Names
      BY <2>1 DEF IInv, RowsAreSound
    <3>3. \A e \in Entries : ~(disk[r][e] = "footage" /\ r \notin stranded)
      BY <2>1 DEF SendRead, Sweeping, IInv, TrashIsNamed, InTrash
    <3> QED BY <3>1, <3>2, <3>3 DEF SweepIsSound, Sweeping
  <2>2. CASE ~(row[r].there /\ ~row[r].deleted)
    BY <2>2 DEF SendRead, files, IInv, LibraryTypeOK, SweepIsSound, Sweeping
  <2> QED BY <2>1, <2>2
<1>5. TrashIsNamed'
  <2> SUFFICES ASSUME NEW s \in Recordings, NEW e \in Entries,
                      disk'[s][e] = "footage", ~Sweeping(s)', s \notin stranded'
               PROVE  InTrash(s)' /\ row'[s].path = e
    BY DEF TrashIsNamed
  <2>1. ~Sweeping(s) /\ UNCHANGED <<disk, row, stranded>>
    BY DEF SendRead, Sweeping, files, IInv, LibraryTypeOK
  <2> QED BY <2>1 DEF IInv, TrashIsNamed, InTrash
<1> QED BY <1>1, <1>2, <1>3, <1>4, <1>5 DEF IInv

(* What was at the path the row named goes to a directory nobody else has.  *)
LEMMA StowDoes ==
  ASSUME IInv, NEW r \in Recordings, Stow(r)
  PROVE  /\ DiskTyped'
         /\ \/ ~Present(r, idx.from) /\ disk' = disk /\ idx'.entry = idx.entry
            \/ /\ idx'.entry \in Entries /\ disk[r][idx'.entry] = "nothing"
               /\ \A s \in Recordings : \A x \in Places :
                    disk'[s][x] = IF s = r /\ x = idx.from THEN "nothing"
                                  ELSE IF s = r /\ x = idx'.entry THEN disk[r][idx.from]
                                  ELSE disk[s][x]
<1>1. DiskTyped /\ idx.from \in Names /\ idx \in [DOMAIN idx -> {idx[k] : k \in DOMAIN idx}]
  BY DEF IInv, LibraryTypeOK, DiskTyped, SweepIsSound, Sweeping, Stow
<1>2. CASE ~Present(r, idx.from)
  BY <1>1, <1>2 DEF Stow, DiskTyped, IInv, LibraryTypeOK
<1>3. CASE Present(r, idx.from)
  <2>1. PICK e \in Entries : /\ ~Present(r, e)
                             /\ disk' = Renamed(r, idx.from, e)
                             /\ idx' = [idx EXCEPT !.step = "mark", !.entry = e]
    BY <1>3 DEF Stow
  <2>2. idx'.entry = e
    BY <2>1 DEF IInv, LibraryTypeOK
  <2>3. idx.from \in Places /\ e \in Places /\ idx.from # e
    BY <1>1, PlacesApart
  <2> QED BY <1>1, <2>1, <2>2, <2>3, RenamedTo DEF DiskTyped, Present
<1> QED BY <1>2, <1>3

LEMMA StowKeeps ==
  ASSUME IInv, NEW r \in Recordings, Stow(r)
  PROVE  IInv'
<1>a. /\ DiskTyped'
      /\ \/ ~Present(r, idx.from) /\ disk' = disk /\ idx'.entry = idx.entry
         \/ /\ idx'.entry \in Entries /\ disk[r][idx'.entry] = "nothing"
            /\ \A s \in Recordings : \A x \in Places :
                 disk'[s][x] = IF s = r /\ x = idx.from THEN "nothing"
                               ELSE IF s = r /\ x = idx'.entry THEN disk[r][idx.from]
                               ELSE disk[s][x]
  BY StowDoes
<1>1. LibraryTypeOK'
  <2>1. DiskTyped'
    BY <1>a DEF DiskTyped
  <2>2. IdxTyped'
    BY DEF Stow, IInv, Renamed, Present, IdxTyped, LibraryTypeOK
  <2>3. UNCHANGED <<row, requested, stopping, win, stranded, byHand, events>>
    BY DEF Stow, files, flags
  <2> QED BY <2>1, <2>2, <2>3 DEF IInv, LibraryTypeOK, DiskTyped, IdxTyped
<1>2. RowsAreSound'
  BY DEF Stow, IInv, files, flags, RowsAreSound
<1>3. MarkKeepsApart'
  <2>1. idx.item = {r} /\ idx'.item = {r} /\ Sweeping(r) /\ UNCHANGED <<row, win>>
    BY DEF Stow, Sweeping, files, IInv, LibraryTypeOK
  <2>2. ASSUME NEW s \in Recordings, Sweeping(s)'
        PROVE  Sweeping(s)
    BY <2>1, <2>2 DEF Sweeping
  <2> QED BY <2>1, <2>2 DEF IInv, MarkKeepsApart, AtWork, InTrash
<1>4. OneFile'
  <2> SUFFICES ASSUME NEW s \in Recordings, NEW p \in Places, NEW q \in Places,
                      disk'[s][p] = "footage", disk'[s][q] = "footage"
               PROVE  p = q
    BY DEF OneFile
  <2>1. \A x, y \in Places : disk[s][x] = "footage" /\ disk[s][y] = "footage" => x = y
    BY DEF IInv, OneFile
  <2>2. idx.from \in Places
    BY PlacesApart DEF Stow, IInv, SweepIsSound, Sweeping
  <2>3. CASE disk' = disk
    BY <2>1, <2>3
  <2>4. CASE disk' # disk
    BY <1>a, <2>1, <2>2, <2>4
  <2> QED BY <2>3, <2>4
<1>5. SweepIsSound'
  <2>1. /\ idx'.step = "mark" /\ idx'.item = {r} /\ idx'.from = idx.from /\ UNCHANGED stranded
        /\ idx.step = "stow" /\ idx.item = {r} /\ Sweeping(r)
    BY DEF Stow, Sweeping, files, IInv, LibraryTypeOK
  <2>2. /\ idx.entry = "nowhere" /\ idx.from \in Names
        /\ \A e \in Entries : ~(disk[r][e] = "footage" /\ r \notin stranded)
    BY <2>1, PlacesApart DEF IInv, SweepIsSound
  <2>3. idx'.entry # "nowhere" => disk'[r][idx.from] # "footage"
    BY <1>a, <2>2, PlacesApart
  <2>4. ASSUME NEW e \in Entries, disk'[r][e] = "footage", r \notin stranded
        PROVE  e = idx'.entry
    BY <1>a, <2>2, <2>4, PlacesApart
  <2>5. ASSUME NEW s \in Recordings, Sweeping(s)'
        PROVE  s = r
    BY <2>1, <2>5 DEF Sweeping
  <2> QED BY <2>1, <2>2, <2>3, <2>4, <2>5 DEF SweepIsSound
<1>6. RestoreIsSound'
  <2>1. UNCHANGED <<row, win>>
    BY DEF Stow, files
  <2>2. ASSUME NEW s \in Recordings, Restoring(s)
        PROVE  s # r
    BY <2>2 DEF Stow, IInv, MarkKeepsApart, Sweeping, AtWork, InTrash, Restoring
  <2>3. ASSUME NEW s \in Recordings, Restoring(s), NEW x \in Places
        PROVE  disk'[s][x] = disk[s][x]
    BY <1>a, <2>2, <2>3
  <2> QED BY <2>1, <2>3, PlacesApart DEF IInv, RestoreIsSound, Restoring
<1>7. EmptyIsSound'
  <2>1. UNCHANGED <<win, row, stranded>>
    BY DEF Stow, files
  <2>2. ASSUME NEW s \in Recordings, win.step = "drop", win.item = {s}
        PROVE  s # r
    BY <2>2 DEF Stow, IInv, MarkKeepsApart, Sweeping, AtWork, InTrash
  <2>3. ASSUME NEW s \in Recordings, s # r, NEW e \in Entries
        PROVE  disk'[s][e] = disk[s][e]
    BY <1>a, <2>3, PlacesApart
  <2> QED BY <2>1, <2>2, <2>3 DEF IInv, EmptyIsSound
<1>8. TrashIsNamed'
  <2> SUFFICES ASSUME NEW s \in Recordings, NEW e \in Entries,
                      disk'[s][e] = "footage", ~Sweeping(s)', s \notin stranded'
               PROVE  InTrash(s)' /\ row'[s].path = e
    BY DEF TrashIsNamed
  <2>1. s # r /\ ~Sweeping(s)
    BY DEF Stow, Sweeping, IInv, LibraryTypeOK
  <2>2. disk[s][e] = "footage"
    BY <1>a, <2>1, PlacesApart
  <2> QED BY <2>1, <2>2 DEF Stow, files, IInv, TrashIsNamed, InTrash
<1> QED BY <1>1, <1>2, <1>3, <1>4, <1>5, <1>6, <1>7, <1>8 DEF IInv

(* The rename fails and the file stays.                                     *)
LEMMA StowRefusedKeeps ==
  ASSUME IInv, NEW r \in Recordings, StowRefused(r)
  PROVE  IInv'
<1>1. LibraryTypeOK'
  <2>1. IdxTyped'
    BY DEF StowRefused, IInv, NextItem, IdxTyped, LibraryTypeOK
  <2>2. UNCHANGED <<disk, row, requested, stopping, win, stranded, byHand, events>>
    BY DEF StowRefused, files, flags
  <2> QED BY <2>1, <2>2 DEF IInv, LibraryTypeOK, IdxTyped
<1>2. OneFile' /\ RowsAreSound' /\ RestoreIsSound' /\ EmptyIsSound'
  BY DEF StowRefused, IInv, files, flags, OneFile, RowsAreSound, RestoreIsSound,
    Restoring, EmptyIsSound
<1>3. MarkKeepsApart'
  BY DEF StowRefused, IInv, NextItem, MarkKeepsApart, Sweeping, AtWork, InTrash
<1>4. SweepIsSound'
  BY DEF StowRefused, IInv, NextItem, SweepIsSound, Sweeping
<1>5. TrashIsNamed'
  <2> SUFFICES ASSUME NEW s \in Recordings, NEW e \in Entries,
                      disk'[s][e] = "footage", ~Sweeping(s)', s \notin stranded'
               PROVE  InTrash(s)' /\ row'[s].path = e
    BY DEF TrashIsNamed
  <2>1. ~Sweeping(s)
    BY PlacesApart DEF StowRefused, Sweeping, IInv, SweepIsSound, files
  <2> QED BY <2>1 DEF StowRefused, files, IInv, TrashIsNamed, InTrash
<1> QED BY <1>1, <1>2, <1>3, <1>4, <1>5 DEF IInv

(* The row follows the file into the trash.                                 *)
LEMMA MarkDoes ==
  ASSUME IInv, NEW r \in Recordings, Mark(r)
  PROVE  /\ RowTyped'
         /\ \A s \in Recordings : s # r => row'[s] = row[s]
         /\ row'[r].there /\ row'[r].deleted /\ row'[r].from = idx.from
         /\ row'[r].path = IF idx.entry = "nowhere" THEN idx.from ELSE idx.entry
<1>1. Sweeping(r) /\ row[r].there /\ row \in [Recordings -> Rows \cup {NoRow}]
  BY DEF Mark, Sweeping, IInv, MarkKeepsApart, LibraryTypeOK
<1>2. row[r] \in Rows
  BY <1>1 DEF NoRow
<1>3. /\ idx.from \in Places
      /\ (IF idx.entry = "nowhere" THEN idx.from ELSE idx.entry) \in Places
  BY <1>1, PlacesApart DEF IInv, SweepIsSound, LibraryTypeOK
<1>4. [row[r] EXCEPT !.deleted = TRUE, !.from = idx.from,
                     !.path = IF idx.entry = "nowhere" THEN idx.from ELSE idx.entry] \in Rows
  BY <1>2, <1>3 DEF Rows
<1>5. row' = [row EXCEPT ![r] =
               [row[r] EXCEPT !.deleted = TRUE, !.from = idx.from,
                              !.path = IF idx.entry = "nowhere" THEN idx.from ELSE idx.entry]]
  BY <1>1 DEF Mark
<1> QED BY <1>1, <1>2, <1>4, <1>5 DEF RowTyped, Rows

LEMMA MarkKeeps ==
  ASSUME IInv, NEW r \in Recordings, Mark(r)
  PROVE  IInv'
<1>a. /\ RowTyped'
      /\ \A s \in Recordings : s # r => row'[s] = row[s]
      /\ row'[r].there /\ row'[r].deleted /\ row'[r].from = idx.from
      /\ row'[r].path = IF idx.entry = "nowhere" THEN idx.from ELSE idx.entry
  BY MarkDoes
<1>1. LibraryTypeOK'
  <2>1. RowTyped'
    BY <1>a DEF RowTyped
  <2>2. IdxTyped'
    BY DEF Mark, IInv, NextItem, IdxTyped, LibraryTypeOK
  <2>3. UNCHANGED <<disk, requested, stopping, win, stranded, byHand, events>>
    BY DEF Mark, files, flags
  <2> QED BY <2>1, <2>2, <2>3 DEF IInv, LibraryTypeOK, RowTyped, IdxTyped
<1>2. OneFile'
  BY DEF Mark, IInv, files, flags, OneFile
<1>3. MarkKeepsApart'
  BY PlacesApart, <1>a DEF Mark, IInv, NextItem, MarkKeepsApart, Sweeping, AtWork,
    InTrash, LibraryTypeOK, Rows, NoRow, Places, Names
<1>4. RowsAreSound'
  <2>1. idx.from \in Names /\ idx.entry \in Entries \cup {"nowhere"}
    BY DEF Mark, IInv, SweepIsSound, Sweeping, LibraryTypeOK
  <2>2. ASSUME NEW s \in Recordings, s # r
        PROVE  row'[s] = row[s]
    BY <1>a, <2>2
  <2> QED BY <1>a, <2>1, <2>2 DEF IInv, RowsAreSound
<1>5. SweepIsSound'
  BY <1>a DEF Mark, IInv, NextItem, SweepIsSound, Sweeping
<1>6. RestoreIsSound'
  <2>1. UNCHANGED <<disk, win>>
    BY DEF Mark, files
  <2>2. ASSUME NEW s \in Recordings, Restoring(s)
        PROVE  row'[s] = row[s]
    <3>1. s # r
      BY <2>2 DEF Mark, IInv, MarkKeepsApart, Sweeping, AtWork, InTrash, Restoring
    <3> QED BY <1>a, <3>1
  <2> QED BY <2>1, <2>2 DEF IInv, RestoreIsSound, Restoring
<1>7. EmptyIsSound'
  <2>1. UNCHANGED <<disk, win, stranded>>
    BY DEF Mark, files
  <2>2. ASSUME NEW entry \in win.list
        PROVE  row'[entry.item] = row[entry.item]
    <3>1. entry.item \in Recordings
      BY DEF IInv, LibraryTypeOK
    <3>2. entry.item # r
      BY <3>1 DEF Mark, IInv, MarkKeepsApart, Sweeping, AtWork, InTrash
    <3> QED BY <1>a, <3>1, <3>2
  <2> QED BY <2>1, <2>2 DEF IInv, EmptyIsSound
<1>8. TrashIsNamed'
  <2> SUFFICES ASSUME NEW s \in Recordings, NEW e \in Entries,
                      disk'[s][e] = "footage", ~Sweeping(s)', s \notin stranded'
               PROVE  InTrash(s)' /\ row'[s].path = e
    BY DEF TrashIsNamed
  <2>1. CASE s = r
    <3>1. e = idx.entry
      BY <2>1 DEF Mark, Sweeping, files, IInv, SweepIsSound
    <3> QED BY <1>a, <2>1, <3>1, PlacesApart DEF InTrash
  <2>2. CASE s # r
    <3>1. ~Sweeping(s) /\ row'[s] = row[s]
      BY <1>a, <2>2 DEF Mark, Sweeping
    <3> QED BY <3>1 DEF Mark, files, IInv, TrashIsNamed, InTrash
  <2> QED BY <2>1, <2>2
<1> QED BY <1>1, <1>2, <1>3, <1>4, <1>5, <1>6, <1>7, <1>8 DEF IInv

(* The file follows the row back.                                           *)
LEMMA PutBackDoes ==
  ASSUME IInv, NEW r \in Recordings, PutBack(r)
  PROVE  /\ DiskTyped'
         /\ idx.from \in Names
         /\ \/ idx.entry = "nowhere" /\ disk' = disk
            \/ /\ idx.entry \in Entries
               /\ \A s \in Recordings : \A x \in Places :
                    disk'[s][x] = IF s = r /\ x = idx.entry THEN "nothing"
                                  ELSE IF s = r /\ x = idx.from THEN disk[r][idx.entry]
                                  ELSE disk[s][x]
<1>1. DiskTyped /\ idx.from \in Names /\ idx.entry \in Entries \cup {"nowhere"}
  BY DEF IInv, LibraryTypeOK, DiskTyped, SweepIsSound, Sweeping, PutBack
<1>2. CASE idx.entry = "nowhere"
  BY <1>1, <1>2 DEF PutBack, DiskTyped
<1>3. CASE idx.entry \in Entries
  <2>1. idx.from \in Places /\ idx.entry \in Places /\ idx.from # idx.entry
    BY <1>1, <1>3, PlacesApart
  <2>2. disk' = Renamed(r, idx.entry, idx.from)
    BY <1>3, PlacesApart DEF PutBack
  <2> QED BY <1>1, <1>3, <2>1, <2>2, RenamedTo DEF DiskTyped
<1> QED BY <1>1, <1>2, <1>3

LEMMA PutBackKeeps ==
  ASSUME IInv, NEW r \in Recordings, PutBack(r)
  PROVE  IInv'
<1>a. /\ DiskTyped'
      /\ idx.from \in Names
      /\ \/ idx.entry = "nowhere" /\ disk' = disk
         \/ /\ idx.entry \in Entries
            /\ \A s \in Recordings : \A x \in Places :
                 disk'[s][x] = IF s = r /\ x = idx.entry THEN "nothing"
                               ELSE IF s = r /\ x = idx.from THEN disk[r][idx.entry]
                               ELSE disk[s][x]
  BY PutBackDoes
<1>1. LibraryTypeOK'
  <2>1. DiskTyped'
    BY <1>a DEF DiskTyped
  <2>2. IdxTyped'
    BY DEF PutBack, IInv, NextItem, Renamed, IdxTyped, LibraryTypeOK
  <2>3. UNCHANGED <<row, requested, stopping, win, stranded, byHand, events>>
    BY DEF PutBack, files, flags
  <2> QED BY <2>1, <2>2, <2>3 DEF IInv, LibraryTypeOK, DiskTyped, IdxTyped
<1>2. RowsAreSound'
  BY DEF PutBack, IInv, files, flags, RowsAreSound
<1>3. MarkKeepsApart'
  BY <1>a DEF PutBack, IInv, NextItem, Renamed, MarkKeepsApart, Sweeping, AtWork,
    InTrash
<1>4. OneFile'
  BY PlacesApart, <1>a DEF PutBack, IInv, NextItem, Renamed, OneFile,
    LibraryTypeOK, Rows, NoRow, Places, Names
<1>5. SweepIsSound'
  BY <1>a DEF PutBack, IInv, NextItem, Renamed, SweepIsSound, Sweeping
<1>6. RestoreIsSound'
  <2>1. UNCHANGED <<row, win>>
    BY DEF PutBack, files
  <2>2. ASSUME NEW s \in Recordings, Restoring(s)
        PROVE  s # r
    BY <2>2 DEF PutBack, IInv, MarkKeepsApart, Sweeping, AtWork, InTrash, Restoring
  <2>3. ASSUME NEW s \in Recordings, Restoring(s), NEW x \in Places
        PROVE  disk'[s][x] = disk[s][x]
    BY <1>a, <2>2, <2>3
  <2> QED BY <2>1, <2>3, PlacesApart DEF IInv, RestoreIsSound, Restoring
<1>7. EmptyIsSound'
  <2>1. UNCHANGED <<win, row, stranded>>
    BY DEF PutBack, files
  <2>2. ASSUME NEW s \in Recordings, NEW e \in Entries, disk'[s][e] = "footage"
        PROVE  disk[s][e] = "footage"
    BY <1>a, <2>2, PlacesApart
  <2> QED BY <2>1, <2>2 DEF IInv, EmptyIsSound
<1>8. TrashIsNamed'
  <2> SUFFICES ASSUME NEW s \in Recordings, NEW e \in Entries,
                      disk'[s][e] = "footage", ~Sweeping(s)', s \notin stranded'
               PROVE  InTrash(s)' /\ row'[s].path = e
    BY DEF TrashIsNamed
  <2>1. disk[s][e] = "footage" /\ ~(s = r /\ e = idx.entry)
    BY <1>a, PlacesApart
  <2>2. ~Sweeping(s)
    BY <2>1 DEF PutBack, Sweeping, files, IInv, SweepIsSound
  <2> QED BY <2>1, <2>2 DEF PutBack, files, IInv, TrashIsNamed, InTrash
<1> QED BY <1>1, <1>2, <1>3, <1>4, <1>5, <1>6, <1>7, <1>8 DEF IInv

(* Neither the row nor the file: what stays in the trash is remembered.     *)
LEMMA StrandedKeeps ==
  ASSUME IInv, NEW r \in Recordings, Stranded(r)
  PROVE  IInv'
<1>1. LibraryTypeOK'
  <2>1. IdxTyped'
    BY DEF Stranded, IInv, NextItem, IdxTyped, LibraryTypeOK
  <2>2. UNCHANGED <<disk, row, requested, stopping, win, byHand, events>>
    BY DEF Stranded, files, flags
  <2>3. stranded' \subseteq Recordings
    BY DEF Stranded, IInv, LibraryTypeOK
  <2> QED BY <2>1, <2>2, <2>3 DEF IInv, LibraryTypeOK, IdxTyped
<1>2. OneFile' /\ RowsAreSound' /\ RestoreIsSound'
  BY DEF Stranded, IInv, files, flags, OneFile, RowsAreSound, RestoreIsSound,
    Restoring
<1>3. MarkKeepsApart'
  BY DEF Stranded, IInv, NextItem, MarkKeepsApart, Sweeping, AtWork, InTrash
<1>4. SweepIsSound'
  BY DEF Stranded, IInv, NextItem, SweepIsSound, Sweeping
<1>5. EmptyIsSound'
  BY DEF Stranded, IInv, NextItem, EmptyIsSound
<1>6. TrashIsNamed'
  <2> SUFFICES ASSUME NEW s \in Recordings, NEW e \in Entries,
                      disk'[s][e] = "footage", ~Sweeping(s)', s \notin stranded'
               PROVE  InTrash(s)' /\ row'[s].path = e
    BY DEF TrashIsNamed
  <2>1. ~Sweeping(s) /\ s \notin stranded
    BY DEF Stranded, Sweeping
  <2> QED BY <2>1 DEF Stranded, flags, IInv, TrashIsNamed, InTrash
<1> QED BY <1>1, <1>2, <1>3, <1>4, <1>5, <1>6 DEF IInv

(* A restore begins with what the row says.                                 *)
LEMMA RestoreReadKeeps ==
  ASSUME IInv, NEW r \in Recordings, RestoreRead(r)
  PROVE  IInv'
<1>1. LibraryTypeOK'
  <2>1. WinTyped'
    <3>1. row[r].path \in Places /\ row[r].from \in Places
      BY PlacesApart DEF RestoreRead, InTrash, IInv, RowsAreSound
    <3> QED BY <3>1 DEF RestoreRead, IInv, LibraryTypeOK, WinTyped
  <2>2. UNCHANGED <<disk, row, requested, stopping, idx, stranded, byHand, events>>
    BY DEF RestoreRead, files, flags
  <2> QED BY <2>1, <2>2 DEF IInv, LibraryTypeOK, WinTyped
<1>2. OneFile' /\ RowsAreSound' /\ SweepIsSound' /\ TrashIsNamed'
  BY DEF RestoreRead, IInv, files, flags, OneFile, RowsAreSound, SweepIsSound,
    Sweeping, TrashIsNamed, InTrash
<1>3. MarkKeepsApart'
  BY DEF RestoreRead, IInv, Present, InTrash, MarkKeepsApart, Sweeping, AtWork
<1>4. RestoreIsSound'
  <2>1. /\ win'.item = {r} /\ win'.moved = win.moved
        /\ win'.here = row[r].path
        /\ win'.name = IF row[r].from = "nowhere" THEN row[r].path ELSE row[r].from
        /\ win'.step = IF win'.here # win'.name /\ Present(r, win'.here)
                         THEN "claim" ELSE "clear"
    BY DEF RestoreRead, IInv, LibraryTypeOK
  <2>2. win'.name \in Names /\ (win'.here \in Entries \/ win'.here = win'.name)
    BY <2>1, PlacesApart DEF RestoreRead, InTrash, IInv, RowsAreSound
  <2>3. ~win.moved
    BY DEF RestoreRead, IInv, RestoreIsSound
  <2>4. ASSUME NEW s \in Recordings, Restoring(s)'
        PROVE  s = r
    BY <2>1, <2>4 DEF Restoring
  <2> QED BY <2>1, <2>2, <2>3, <2>4, PlacesApart DEF RestoreRead, RestoreIsSound, Present
<1>5. EmptyIsSound'
  BY DEF RestoreRead, IInv, Present, InTrash, EmptyIsSound
<1> QED BY <1>1, <1>2, <1>3, <1>4, <1>5 DEF IInv

(* A name is taken that nothing has.                                        *)
LEMMA RestoreClaimDoes ==
  ASSUME IInv, NEW r \in Recordings, RestoreClaim(r)
  PROVE  /\ DiskTyped'
         /\ win'.name \in Names /\ disk[r][win'.name] = "nothing"
         /\ \A s \in Recordings : \A x \in Places :
              disk'[s][x] = IF s = r /\ x = win'.name THEN "placeholder" ELSE disk[s][x]
<1>1. DiskTyped /\ win.name \in Names
  BY DEF IInv, LibraryTypeOK, DiskTyped, RestoreIsSound, Restoring, RestoreClaim
<1>2. PICK n \in Places : /\ FirstFree(r, win.name, n)
                          /\ disk' = [disk EXCEPT ![r][n] = "placeholder"]
                          /\ win' = [win EXCEPT !.step = "move", !.name = n]
  BY DEF RestoreClaim
<1>3. win'.name = n
  BY <1>2 DEF IInv, LibraryTypeOK
<1>4. n \in Names /\ disk[r][n] = "nothing"
  BY <1>1, <1>2 DEF FirstFree, NamesAt, Present
<1> QED BY <1>1, <1>2, <1>3, <1>4, PutThere DEF DiskTyped, Contents

LEMMA RestoreClaimKeeps ==
  ASSUME IInv, NEW r \in Recordings, RestoreClaim(r)
  PROVE  IInv'
<1>a. /\ DiskTyped'
      /\ win'.name \in Names /\ disk[r][win'.name] = "nothing"
      /\ \A s \in Recordings : \A x \in Places :
           disk'[s][x] = IF s = r /\ x = win'.name THEN "placeholder" ELSE disk[s][x]
  BY RestoreClaimDoes
<1>1. LibraryTypeOK'
  <2>1. DiskTyped'
    BY <1>a DEF DiskTyped
  <2>2. WinTyped'
    BY DEF RestoreClaim, IInv, FirstFree, NamesAt, Present, WinTyped, LibraryTypeOK
  <2>3. UNCHANGED <<row, requested, stopping, idx, stranded, byHand, events>>
    BY DEF RestoreClaim, files, flags
  <2> QED BY <2>1, <2>2, <2>3 DEF IInv, LibraryTypeOK, DiskTyped, WinTyped
<1>2. RowsAreSound'
  BY DEF RestoreClaim, IInv, files, flags, RowsAreSound
<1>3. MarkKeepsApart'
  BY <1>a DEF RestoreClaim, IInv, FirstFree, NamesAt, Present, MarkKeepsApart,
    Sweeping, AtWork, InTrash
<1>4. OneFile'
  BY <1>a DEF RestoreClaim, IInv, FirstFree, NamesAt, Present, OneFile
<1>5. SweepIsSound'
  <2>1. UNCHANGED <<idx, stranded>>
    BY DEF RestoreClaim, files
  <2>2. ASSUME NEW s \in Recordings, Sweeping(s)
        PROVE  s # r
    BY <2>2 DEF RestoreClaim, IInv, MarkKeepsApart, AtWork, InTrash
  <2>3. ASSUME NEW s \in Recordings, Sweeping(s), NEW x \in Places
        PROVE  disk'[s][x] = disk[s][x]
    BY <1>a, <2>2, <2>3
  <2> QED BY <2>1, <2>3, PlacesApart DEF IInv, SweepIsSound, Sweeping
<1>6. RestoreIsSound'
  BY <1>a DEF RestoreClaim, IInv, FirstFree, NamesAt, Present, RestoreIsSound,
    Restoring
<1>7. EmptyIsSound'
  BY <1>a DEF RestoreClaim, IInv, FirstFree, NamesAt, Present, EmptyIsSound
<1>8. TrashIsNamed'
  <2> SUFFICES ASSUME NEW s \in Recordings, NEW e \in Entries,
                      disk'[s][e] = "footage", ~Sweeping(s)', s \notin stranded'
               PROVE  InTrash(s)' /\ row'[s].path = e
    BY DEF TrashIsNamed
  <2>1. disk[s][e] = "footage"
    BY <1>a, PlacesApart
  <2> QED BY <2>1 DEF RestoreClaim, files, Sweeping, IInv, TrashIsNamed, InTrash
<1> QED BY <1>1, <1>2, <1>3, <1>4, <1>5, <1>6, <1>7, <1>8 DEF IInv

(* No name is to be had, and nothing has changed.                           *)
LEMMA RestoreClaimFailsKeeps ==
  ASSUME IInv, NEW r \in Recordings, RestoreClaimFails(r)
  PROVE  IInv'
<1>1. LibraryTypeOK'
  <2>1. WinTyped'
    BY DEF RestoreClaimFails, IInv, NoCommand, WinTyped, LibraryTypeOK
  <2>2. UNCHANGED <<disk, row, requested, stopping, idx, stranded, byHand, events>>
    BY DEF RestoreClaimFails, files, flags
  <2> QED BY <2>1, <2>2 DEF IInv, LibraryTypeOK, WinTyped
<1>2. OneFile' /\ RowsAreSound' /\ SweepIsSound' /\ TrashIsNamed'
  BY DEF RestoreClaimFails, IInv, files, flags, OneFile, RowsAreSound,
    SweepIsSound, Sweeping, TrashIsNamed, InTrash
<1>3. MarkKeepsApart'
  BY DEF RestoreClaimFails, IInv, NoCommand, MarkKeepsApart, Sweeping, AtWork,
    InTrash
<1>4. RestoreIsSound'
  BY DEF RestoreClaimFails, IInv, NoCommand, RestoreIsSound, Restoring
<1>5. EmptyIsSound'
  BY DEF RestoreClaimFails, IInv, NoCommand, EmptyIsSound
<1> QED BY <1>1, <1>2, <1>3, <1>4, <1>5 DEF IInv

(* The file leaves the trash for the name that was claimed.                 *)
LEMMA RestoreMoveDoes ==
  ASSUME IInv, NEW r \in Recordings, RestoreMove(r)
  PROVE  /\ DiskTyped'
         /\ win.name \in Names /\ win.here \in Entries /\ disk[r][win.name] = "placeholder"
         /\ \A s \in Recordings : \A x \in Places :
              disk'[s][x] = IF s = r /\ x = win.here THEN "nothing"
                            ELSE IF s = r /\ x = win.name THEN disk[r][win.here] ELSE disk[s][x]
<1>1. /\ DiskTyped /\ win.name \in Names /\ win.here \in Entries
      /\ disk[r][win.name] = "placeholder" /\ disk' = Renamed(r, win.here, win.name)
  BY DEF IInv, LibraryTypeOK, DiskTyped, RestoreIsSound, Restoring, RestoreMove
<1>2. win.name \in Places /\ win.here \in Places /\ win.here # win.name
  BY <1>1, PlacesApart
<1> QED BY <1>1, <1>2, RenamedTo DEF DiskTyped

LEMMA RestoreMoveKeeps ==
  ASSUME IInv, NEW r \in Recordings, RestoreMove(r)
  PROVE  IInv'
<1>a. /\ DiskTyped'
      /\ win.name \in Names /\ win.here \in Entries /\ disk[r][win.name] = "placeholder"
      /\ \A s \in Recordings : \A x \in Places :
           disk'[s][x] = IF s = r /\ x = win.here THEN "nothing"
                         ELSE IF s = r /\ x = win.name THEN disk[r][win.here] ELSE disk[s][x]
  BY RestoreMoveDoes
<1>1. LibraryTypeOK'
  <2>1. DiskTyped'
    BY <1>a DEF DiskTyped
  <2>2. WinTyped'
    BY DEF RestoreMove, IInv, Renamed, Present, WinTyped, LibraryTypeOK
  <2>3. UNCHANGED <<row, requested, stopping, idx, stranded, byHand, events>>
    BY DEF RestoreMove, files, flags
  <2> QED BY <2>1, <2>2, <2>3 DEF IInv, LibraryTypeOK, DiskTyped, WinTyped
<1>2. RowsAreSound'
  BY DEF RestoreMove, IInv, files, flags, RowsAreSound
<1>3. MarkKeepsApart'
  BY <1>a DEF RestoreMove, IInv, Renamed, Present, MarkKeepsApart, Sweeping,
    AtWork, InTrash
<1>4. OneFile'
  BY PlacesApart, <1>a DEF RestoreMove, IInv, Renamed, Present, OneFile,
    LibraryTypeOK, Rows, NoRow, Places, Names
<1>5. SweepIsSound'
  <2>1. UNCHANGED <<idx, stranded>>
    BY DEF RestoreMove, files
  <2>2. ASSUME NEW s \in Recordings, Sweeping(s)
        PROVE  s # r
    BY <2>2 DEF RestoreMove, IInv, MarkKeepsApart, AtWork, InTrash
  <2>3. ASSUME NEW s \in Recordings, Sweeping(s), NEW x \in Places
        PROVE  disk'[s][x] = disk[s][x]
    BY <1>a, <2>2, <2>3
  <2> QED BY <2>1, <2>3, PlacesApart DEF IInv, SweepIsSound, Sweeping
<1>6. RestoreIsSound'
  BY PlacesApart, <1>a DEF RestoreMove, IInv, Renamed, Present, RestoreIsSound,
    Restoring, LibraryTypeOK, Rows, NoRow, Places, Names
<1>7. EmptyIsSound'
  BY <1>a DEF RestoreMove, IInv, Renamed, Present, EmptyIsSound
<1>8. TrashIsNamed'
  <2> SUFFICES ASSUME NEW s \in Recordings, NEW e \in Entries,
                      disk'[s][e] = "footage", ~Sweeping(s)', s \notin stranded'
               PROVE  InTrash(s)' /\ row'[s].path = e
    BY DEF TrashIsNamed
  <2>1. disk[s][e] = "footage"
    BY <1>a, PlacesApart
  <2> QED BY <2>1 DEF RestoreMove, files, Sweeping, IInv, TrashIsNamed, InTrash
<1> QED BY <1>1, <1>2, <1>3, <1>4, <1>5, <1>6, <1>7, <1>8 DEF IInv

(* The claimed name is given up.                                            *)
LEMMA RestoreMoveFailsDoes ==
  ASSUME IInv, NEW r \in Recordings, RestoreMoveFails(r)
  PROVE  /\ DiskTyped'
         /\ win.name \in Names
         /\ \A s \in Recordings : \A x \in Places :
              disk'[s][x] = IF s = r /\ x = win.name THEN "nothing" ELSE disk[s][x]
<1>1. /\ DiskTyped /\ win.name \in Names
      /\ disk' = [disk EXCEPT ![r][win.name] = "nothing"]
  BY DEF IInv, LibraryTypeOK, DiskTyped, RestoreIsSound, Restoring, RestoreMoveFails
<1> QED BY <1>1, PlacesApart, PutThere DEF DiskTyped, Contents

LEMMA RestoreMoveFailsKeeps ==
  ASSUME IInv, NEW r \in Recordings, RestoreMoveFails(r)
  PROVE  IInv'
<1>a. /\ DiskTyped'
      /\ win.name \in Names
      /\ \A s \in Recordings : \A x \in Places :
           disk'[s][x] = IF s = r /\ x = win.name THEN "nothing" ELSE disk[s][x]
  BY RestoreMoveFailsDoes
<1>1. LibraryTypeOK'
  <2>1. DiskTyped'
    BY <1>a DEF DiskTyped
  <2>2. WinTyped'
    BY DEF RestoreMoveFails, IInv, NoCommand, WinTyped, LibraryTypeOK
  <2>3. UNCHANGED <<row, requested, stopping, idx, stranded, byHand, events>>
    BY DEF RestoreMoveFails, files, flags
  <2> QED BY <2>1, <2>2, <2>3 DEF IInv, LibraryTypeOK, DiskTyped, WinTyped
<1>2. RowsAreSound'
  BY DEF RestoreMoveFails, IInv, files, flags, RowsAreSound
<1>3. MarkKeepsApart'
  BY <1>a DEF RestoreMoveFails, IInv, NoCommand, MarkKeepsApart, Sweeping, AtWork,
    InTrash
<1>4. OneFile'
  BY <1>a DEF RestoreMoveFails, IInv, NoCommand, OneFile
<1>5. SweepIsSound'
  <2>1. UNCHANGED <<idx, stranded>>
    BY DEF RestoreMoveFails, files
  <2>2. ASSUME NEW s \in Recordings, Sweeping(s)
        PROVE  s # r
    BY <2>2 DEF RestoreMoveFails, IInv, MarkKeepsApart, AtWork, InTrash
  <2>3. ASSUME NEW s \in Recordings, Sweeping(s), NEW x \in Places
        PROVE  disk'[s][x] = disk[s][x]
    BY <1>a, <2>2, <2>3
  <2> QED BY <2>1, <2>3, PlacesApart DEF IInv, SweepIsSound, Sweeping
<1>6. RestoreIsSound'
  BY <1>a DEF RestoreMoveFails, IInv, NoCommand, RestoreIsSound, Restoring
<1>7. EmptyIsSound'
  BY <1>a DEF RestoreMoveFails, IInv, NoCommand, EmptyIsSound
<1>8. TrashIsNamed'
  <2> SUFFICES ASSUME NEW s \in Recordings, NEW e \in Entries,
                      disk'[s][e] = "footage", ~Sweeping(s)', s \notin stranded'
               PROVE  InTrash(s)' /\ row'[s].path = e
    BY DEF TrashIsNamed
  <2>1. disk[s][e] = "footage"
    BY <1>a, PlacesApart
  <2> QED BY <2>1 DEF RestoreMoveFails, files, Sweeping, IInv, TrashIsNamed, InTrash
<1> QED BY <1>1, <1>2, <1>3, <1>4, <1>5, <1>6, <1>7, <1>8 DEF IInv

(* The row follows the file out of the trash.                               *)
LEMMA RestoreClearDoes ==
  ASSUME IInv, NEW r \in Recordings, RestoreClear(r)
  PROVE  /\ RowTyped'
         /\ \A s \in Recordings : s # r => row'[s] = row[s]
         /\ row'[r].there /\ ~row'[r].deleted /\ row'[r].path = win.name /\ win.name \in Names
<1>1. InTrash(r) /\ row \in [Recordings -> Rows \cup {NoRow}] /\ win.name \in Names
  BY DEF RestoreClear, AtWork, IInv, MarkKeepsApart, LibraryTypeOK, RestoreIsSound, Restoring
<1>2. row[r] \in Rows /\ win.name \in Places
  BY <1>1, PlacesApart DEF NoRow, InTrash
<1>3. [row[r] EXCEPT !.deleted = FALSE, !.from = "nowhere", !.path = win.name] \in Rows
  BY <1>2 DEF Rows
<1>4. row' = [row EXCEPT ![r] = [row[r] EXCEPT !.deleted = FALSE, !.from = "nowhere",
                                               !.path = win.name]]
  BY <1>1 DEF RestoreClear, InTrash
<1> QED BY <1>1, <1>2, <1>3, <1>4 DEF RowTyped, Rows

LEMMA RestoreClearKeeps ==
  ASSUME IInv, NEW r \in Recordings, RestoreClear(r)
  PROVE  IInv'
<1>a. /\ RowTyped'
      /\ \A s \in Recordings : s # r => row'[s] = row[s]
      /\ row'[r].there /\ ~row'[r].deleted /\ row'[r].path = win.name /\ win.name \in Names
  BY RestoreClearDoes
<1>1. LibraryTypeOK'
  <2>1. RowTyped'
    BY <1>a DEF RowTyped
  <2>2. WinTyped'
    BY DEF RestoreClear, IInv, NoCommand, WinTyped, LibraryTypeOK
  <2>3. UNCHANGED <<disk, requested, stopping, idx, stranded, byHand, events>>
    BY DEF RestoreClear, files, flags
  <2> QED BY <2>1, <2>2, <2>3 DEF IInv, LibraryTypeOK, RowTyped, WinTyped
<1>2. OneFile' /\ SweepIsSound'
  BY DEF RestoreClear, IInv, files, flags, OneFile, SweepIsSound, Sweeping
<1>3. MarkKeepsApart'
  BY <1>a DEF RestoreClear, IInv, NoCommand, MarkKeepsApart, Sweeping, AtWork,
    InTrash
<1>4. RowsAreSound'
  BY <1>a DEF RestoreClear, IInv, NoCommand, RowsAreSound
<1>5. RestoreIsSound'
  BY <1>a DEF RestoreClear, IInv, NoCommand, RestoreIsSound, Restoring
<1>6. EmptyIsSound'
  BY <1>a DEF RestoreClear, IInv, NoCommand, EmptyIsSound
<1>7. TrashIsNamed'
  <2> SUFFICES ASSUME NEW s \in Recordings, NEW e \in Entries,
                      disk'[s][e] = "footage", ~Sweeping(s)', s \notin stranded'
               PROVE  InTrash(s)' /\ row'[s].path = e
    BY DEF TrashIsNamed
  <2>1. InTrash(s) /\ row[s].path = e
    BY DEF RestoreClear, files, Sweeping, IInv, TrashIsNamed
  <2>2. s # r
    BY <2>1 DEF RestoreClear, IInv, RestoreIsSound, Restoring
  <2> QED BY <1>a, <2>1, <2>2 DEF InTrash
<1> QED BY <1>1, <1>2, <1>3, <1>4, <1>5, <1>6, <1>7 DEF IInv

(* The row will not follow, and the file goes back or stays.                *)
LEMMA RestoreRefusedDoes ==
  ASSUME IInv, NEW r \in Recordings, RestoreRefused(r)
  PROVE  /\ DiskTyped'
         /\ win.name \in Names
         /\ \/ disk' = disk
            \/ /\ win.here \in Entries
               /\ \A s \in Recordings : \A x \in Places :
                    disk'[s][x] = IF s = r /\ x = win.name THEN "nothing"
                                  ELSE IF s = r /\ x = win.here THEN disk[r][win.name]
                                  ELSE disk[s][x]
<1>1. /\ DiskTyped /\ win.name \in Names /\ (win.moved => win.here \in Entries)
      /\ \/ disk' = disk
         \/ win.moved /\ disk' = Renamed(r, win.name, win.here)
  BY DEF IInv, LibraryTypeOK, DiskTyped, RestoreIsSound, Restoring, RestoreRefused
<1>2. CASE disk' = disk
  BY <1>1, <1>2 DEF DiskTyped
<1>3. CASE win.moved /\ disk' = Renamed(r, win.name, win.here)
  <2>1. win.name \in Places /\ win.here \in Places /\ win.here # win.name
    BY <1>1, <1>3, PlacesApart
  <2> QED BY <1>1, <1>3, <2>1, RenamedTo DEF DiskTyped
<1> QED BY <1>1, <1>2, <1>3

LEMMA RestoreRefusedKeeps ==
  ASSUME IInv, NEW r \in Recordings, RestoreRefused(r)
  PROVE  IInv'
<1>a. /\ DiskTyped'
      /\ win.name \in Names
      /\ \/ disk' = disk
         \/ /\ win.here \in Entries
            /\ \A s \in Recordings : \A x \in Places :
                 disk'[s][x] = IF s = r /\ x = win.name THEN "nothing"
                               ELSE IF s = r /\ x = win.here THEN disk[r][win.name]
                               ELSE disk[s][x]
  BY RestoreRefusedDoes
<1>1. LibraryTypeOK'
  <2>1. DiskTyped'
    BY <1>a DEF DiskTyped
  <2>2. WinTyped'
    BY DEF RestoreRefused, IInv, NoCommand, Renamed, WinTyped, LibraryTypeOK
  <2>3. UNCHANGED <<row, requested, stopping, idx, stranded, byHand, events>>
    BY DEF RestoreRefused, files, flags
  <2> QED BY <2>1, <2>2, <2>3 DEF IInv, LibraryTypeOK, DiskTyped, WinTyped
<1>2. RowsAreSound'
  BY DEF RestoreRefused, IInv, files, flags, RowsAreSound
<1>3. MarkKeepsApart'
  BY <1>a DEF RestoreRefused, IInv, NoCommand, Renamed, MarkKeepsApart, Sweeping,
    AtWork, InTrash
<1>4. OneFile'
  BY PlacesApart, <1>a DEF RestoreRefused, IInv, NoCommand, Renamed, OneFile,
    LibraryTypeOK, Rows, NoRow, Places, Names
<1>5. SweepIsSound'
  <2>1. UNCHANGED <<idx, stranded>>
    BY DEF RestoreRefused, files
  <2>2. ASSUME NEW s \in Recordings, Sweeping(s)
        PROVE  s # r
    BY <2>2 DEF RestoreRefused, IInv, MarkKeepsApart, AtWork, InTrash
  <2>3. ASSUME NEW s \in Recordings, Sweeping(s), NEW x \in Places
        PROVE  disk'[s][x] = disk[s][x]
    BY <1>a, <2>2, <2>3
  <2> QED BY <2>1, <2>3, PlacesApart DEF IInv, SweepIsSound, Sweeping
<1>6. RestoreIsSound'
  BY <1>a DEF RestoreRefused, IInv, NoCommand, Renamed, RestoreIsSound, Restoring
<1>7. EmptyIsSound'
  BY <1>a DEF RestoreRefused, IInv, NoCommand, Renamed, EmptyIsSound
<1>8. TrashIsNamed'
  <2> SUFFICES ASSUME NEW s \in Recordings, NEW e \in Entries,
                      disk'[s][e] = "footage", ~Sweeping(s)', s \notin stranded'
               PROVE  InTrash(s)' /\ row'[s].path = e
    BY DEF TrashIsNamed
  <2>1. CASE disk[s][e] = "footage"
    BY <2>1 DEF RestoreRefused, files, Sweeping, IInv, TrashIsNamed, InTrash
  <2>2. CASE disk[s][e] # "footage"
    <3>1. s = r /\ e = win.here
      BY <1>a, <2>2, PlacesApart
    <3> QED
      BY <3>1 DEF RestoreRefused, files, IInv, MarkKeepsApart, AtWork, RestoreIsSound, Restoring,
                  InTrash
  <2> QED BY <2>1, <2>2
<1> QED BY <1>1, <1>2, <1>3, <1>4, <1>5, <1>6, <1>7, <1>8 DEF IInv

(* The listing is taken as the rows are.                                    *)
LEMMA EmptyTrashKeeps ==
  ASSUME IInv, EmptyTrash
  PROVE  IInv'
<1>1. LibraryTypeOK'
  <2>1. WinTyped'
    <3>1. \A r \in Recordings : InTrash(r) => row[r].path \in Places
      BY PlacesApart DEF InTrash, IInv, RowsAreSound
    <3>2. {[item |-> r, path |-> row[r].path] : r \in {q \in Recordings : InTrash(q)}}
            \in SUBSET [item : Recordings, path : Places]
      BY <3>1
    <3> QED BY <3>2 DEF EmptyTrash, IInv, LibraryTypeOK, WinTyped
  <2>2. UNCHANGED <<disk, row, requested, stopping, idx, stranded, byHand, events>>
    BY DEF EmptyTrash, files, flags
  <2> QED BY <2>1, <2>2 DEF IInv, LibraryTypeOK, WinTyped
<1>2. OneFile' /\ RowsAreSound' /\ SweepIsSound' /\ TrashIsNamed'
  BY DEF EmptyTrash, IInv, files, flags, OneFile, RowsAreSound, SweepIsSound,
    Sweeping, TrashIsNamed, InTrash
<1>3. MarkKeepsApart'
  BY DEF EmptyTrash, IInv, InTrash, MarkKeepsApart, Sweeping, AtWork
<1>4. RestoreIsSound'
  BY DEF EmptyTrash, IInv, InTrash, RestoreIsSound, Restoring
<1>5. EmptyIsSound'
  BY DEF EmptyTrash, IInv, InTrash, EmptyIsSound
<1> QED BY <1>1, <1>2, <1>3, <1>4, <1>5 DEF IInv

(* A file of the listing is destroyed.                                      *)
LEMMA DiscardDoes ==
  ASSUME IInv, NEW entry \in win.list, Discard(entry)
  PROVE  /\ DiskTyped'
         /\ entry.item \in Recordings /\ entry.path \in Places
         /\ \A s \in Recordings : \A x \in Places :
              disk'[s][x] = IF s = entry.item /\ x = entry.path /\ entry.path \in Entries
                              THEN "nothing" ELSE disk[s][x]
<1>1. DiskTyped /\ entry.item \in Recordings /\ entry.path \in Places
  BY DEF IInv, LibraryTypeOK, DiskTyped
<1>2. CASE entry.path \in Entries
  BY <1>1, <1>2, PutThere DEF Discard, DiskTyped, Contents
<1>3. CASE entry.path \notin Entries
  BY <1>1, <1>3 DEF Discard, DiskTyped
<1> QED BY <1>1, <1>2, <1>3

LEMMA DiscardKeeps ==
  ASSUME IInv, NEW entry \in win.list, Discard(entry)
  PROVE  IInv'
<1>a. /\ DiskTyped'
      /\ entry.item \in Recordings /\ entry.path \in Places
      /\ \A s \in Recordings : \A x \in Places :
           disk'[s][x] = IF s = entry.item /\ x = entry.path /\ entry.path \in Entries
                           THEN "nothing" ELSE disk[s][x]
  BY DiscardDoes
<1>1. LibraryTypeOK'
  <2>1. DiskTyped'
    BY <1>a DEF DiskTyped
  <2>2. WinTyped'
    BY DEF Discard, IInv, WinTyped, LibraryTypeOK
  <2>3. UNCHANGED <<row, requested, stopping, idx, stranded, byHand, events>>
    BY DEF Discard, files, flags
  <2> QED BY <2>1, <2>2, <2>3 DEF IInv, LibraryTypeOK, DiskTyped, WinTyped
<1>2. RowsAreSound'
  BY DEF Discard, IInv, files, flags, RowsAreSound
<1>3. MarkKeepsApart'
  BY <1>a DEF Discard, IInv, MarkKeepsApart, Sweeping, AtWork, InTrash
<1>4. OneFile'
  BY <1>a DEF Discard, IInv, OneFile
<1>5. SweepIsSound'
  <2>1. UNCHANGED <<idx, stranded>>
    BY DEF Discard, files
  <2>2. ASSUME NEW s \in Recordings, Sweeping(s)
        PROVE  s # entry.item
    BY <2>2 DEF Discard, IInv, MarkKeepsApart, AtWork, InTrash
  <2>3. ASSUME NEW s \in Recordings, Sweeping(s), NEW x \in Places
        PROVE  disk'[s][x] = disk[s][x]
    BY <1>a, <2>2, <2>3
  <2> QED BY <2>1, <2>3, PlacesApart DEF IInv, SweepIsSound, Sweeping
<1>6. RestoreIsSound'
  BY <1>a DEF Discard, IInv, RestoreIsSound, Restoring
<1>7. EmptyIsSound'
  <2> DEFINE it == entry.item
  <2>1. /\ it \in Recordings /\ entry = [item |-> it, path |-> entry.path]
        /\ \A other \in win.list : other = [item |-> other.item, path |-> other.path]
    BY <1>a DEF IInv, LibraryTypeOK
  <2>2. /\ win'.step = "drop" /\ win'.item = {it} /\ win'.list = win.list \ {entry}
        /\ UNCHANGED <<row, stranded>>
    BY DEF Discard, files, IInv, LibraryTypeOK
  <2>3. \A other \in win.list : other.path = row[other.item].path
    BY DEF IInv, EmptyIsSound
  <2>4. ASSUME NEW other \in win'.list
        PROVE  other.item # it
    BY <2>1, <2>2, <2>3, <2>4 DEF Discard
  <2>5. InTrash(it) /\ ~Sweeping(it)
    BY <2>1 DEF Discard, IInv, MarkKeepsApart, AtWork, InTrash
  <2>6. ASSUME NEW e \in Entries, disk'[it][e] = "footage", it \notin stranded
        PROVE  FALSE
    <3>1. disk[it][e] = "footage" /\ e # entry.path
      BY <1>a, <2>1, <2>6, PlacesApart
    <3>2. row[it].path = e
      BY <2>1, <2>5, <2>6, <3>1 DEF IInv, TrashIsNamed
    <3> QED BY <2>3, <3>1, <3>2 DEF Discard
  <2> QED BY <2>1, <2>2, <2>3, <2>4, <2>6 DEF EmptyIsSound
<1>8. TrashIsNamed'
  <2> SUFFICES ASSUME NEW s \in Recordings, NEW e \in Entries,
                      disk'[s][e] = "footage", ~Sweeping(s)', s \notin stranded'
               PROVE  InTrash(s)' /\ row'[s].path = e
    BY DEF TrashIsNamed
  <2>1. disk[s][e] = "footage"
    BY <1>a, PlacesApart
  <2> QED BY <2>1 DEF Discard, files, Sweeping, IInv, TrashIsNamed, InTrash
<1> QED BY <1>1, <1>2, <1>3, <1>4, <1>5, <1>6, <1>7, <1>8 DEF IInv

(* A file will not go, and its row stays.                                   *)
LEMMA DiscardFailsKeeps ==
  ASSUME IInv, NEW entry \in win.list, DiscardFails(entry)
  PROVE  IInv'
<1>1. LibraryTypeOK'
  <2>1. WinTyped'
    BY DEF DiscardFails, IInv, Present, WinTyped, LibraryTypeOK
  <2>2. UNCHANGED <<disk, row, requested, stopping, idx, stranded, byHand, events>>
    BY DEF DiscardFails, files, flags
  <2> QED BY <2>1, <2>2 DEF IInv, LibraryTypeOK, WinTyped
<1>2. OneFile' /\ RowsAreSound' /\ SweepIsSound' /\ TrashIsNamed'
  BY DEF DiscardFails, IInv, files, flags, OneFile, RowsAreSound, SweepIsSound,
    Sweeping, TrashIsNamed, InTrash
<1>3. MarkKeepsApart'
  BY DEF DiscardFails, IInv, Present, MarkKeepsApart, Sweeping, AtWork, InTrash
<1>4. RestoreIsSound'
  BY DEF DiscardFails, IInv, Present, RestoreIsSound, Restoring
<1>5. EmptyIsSound'
  BY DEF DiscardFails, IInv, Present, EmptyIsSound
<1> QED BY <1>1, <1>2, <1>3, <1>4, <1>5 DEF IInv

(* The row of a file that is gone is dropped.                               *)
LEMMA DropKeeps ==
  ASSUME IInv, NEW r \in Recordings, Drop(r)
  PROVE  IInv'
<1>1. LibraryTypeOK'
  <2>1. RowTyped'
    BY DEF Drop, IInv, NoRow, LibraryTypeOK, RowTyped
  <2>2. WinTyped'
    BY DEF Drop, IInv, NoRow, WinTyped, LibraryTypeOK
  <2>3. UNCHANGED <<disk, requested, stopping, idx, stranded, byHand, events>>
    BY DEF Drop, files, flags
  <2> QED BY <2>1, <2>2, <2>3 DEF IInv, LibraryTypeOK, RowTyped, WinTyped
<1>2. OneFile' /\ SweepIsSound'
  BY DEF Drop, IInv, files, flags, OneFile, SweepIsSound, Sweeping
<1>3. MarkKeepsApart'
  BY PlacesApart DEF Drop, IInv, NoRow, MarkKeepsApart, Sweeping, AtWork, InTrash,
    LibraryTypeOK, Rows, Places, Names, RestoreIsSound, Restoring, EmptyIsSound
<1>4. RowsAreSound'
  BY PlacesApart DEF Drop, IInv, NoRow, RowsAreSound, LibraryTypeOK, Rows, Places,
    Names
<1>5. RestoreIsSound'
  BY DEF Drop, IInv, NoRow, RestoreIsSound, Restoring
<1>6. EmptyIsSound'
  BY PlacesApart DEF Drop, IInv, NoRow, EmptyIsSound, LibraryTypeOK, Rows, Places,
    Names
<1>7. TrashIsNamed'
  <2> SUFFICES ASSUME NEW s \in Recordings, NEW e \in Entries,
                      disk'[s][e] = "footage", ~Sweeping(s)', s \notin stranded'
               PROVE  InTrash(s)' /\ row'[s].path = e
    BY DEF TrashIsNamed
  <2>1. InTrash(s) /\ row[s].path = e
    BY DEF Drop, files, Sweeping, IInv, TrashIsNamed
  <2>2. s # r
    BY DEF Drop, files, IInv, EmptyIsSound
  <2>3. row'[s] = row[s]
    BY <2>2 DEF Drop, IInv, LibraryTypeOK
  <2> QED BY <2>1, <2>3 DEF InTrash
<1> QED BY <1>1, <1>2, <1>3, <1>4, <1>5, <1>6, <1>7 DEF IInv

(* The listing is worked through.                                           *)
LEMMA EmptyEndsKeeps ==
  ASSUME IInv, EmptyEnds
  PROVE  IInv'
<1>1. LibraryTypeOK'
  <2>1. WinTyped'
    BY DEF EmptyEnds, IInv, NoCommand, WinTyped, LibraryTypeOK
  <2>2. UNCHANGED <<disk, row, requested, stopping, idx, stranded, byHand, events>>
    BY DEF EmptyEnds, files, flags
  <2> QED BY <2>1, <2>2 DEF IInv, LibraryTypeOK, WinTyped
<1>2. OneFile' /\ RowsAreSound' /\ SweepIsSound' /\ TrashIsNamed'
  BY DEF EmptyEnds, IInv, files, flags, OneFile, RowsAreSound, SweepIsSound,
    Sweeping, TrashIsNamed, InTrash
<1>3. MarkKeepsApart'
  BY DEF EmptyEnds, IInv, NoCommand, MarkKeepsApart, Sweeping, AtWork, InTrash
<1>4. RestoreIsSound'
  BY DEF EmptyEnds, IInv, NoCommand, RestoreIsSound, Restoring
<1>5. EmptyIsSound'
  BY DEF EmptyEnds, IInv, NoCommand, EmptyIsSound
<1> QED BY <1>1, <1>2, <1>3, <1>4, <1>5 DEF IInv

(* Locking disturbs no path.                                                *)
LEMMA SetLockDoes ==
  ASSUME IInv, NEW r \in Recordings, SetLock(r)
  PROVE  /\ RowTyped'
         /\ \A s \in Recordings : /\ row'[s].there = row[s].there
                                  /\ row[s].there => /\ row'[s].deleted = row[s].deleted
                                                    /\ row'[s].path = row[s].path
                                                    /\ row'[s].from = row[s].from
<1>1. row[r].there /\ row \in [Recordings -> Rows \cup {NoRow}]
  BY DEF SetLock, IInv, LibraryTypeOK
<1>2. row[r] \in Rows
  BY <1>1 DEF NoRow
<1>3. [row[r] EXCEPT !.locked = ~@] \in Rows
  BY <1>2 DEF Rows
<1>4. row' = [row EXCEPT ![r] = [row[r] EXCEPT !.locked = ~@]]
  BY <1>1 DEF SetLock
<1> QED BY <1>1, <1>2, <1>3, <1>4 DEF RowTyped, Rows

LEMMA SetLockKeeps ==
  ASSUME IInv, NEW r \in Recordings, SetLock(r)
  PROVE  IInv'
<1>a. /\ RowTyped'
      /\ \A s \in Recordings : /\ row'[s].there = row[s].there
                               /\ row[s].there => /\ row'[s].deleted = row[s].deleted
                                                 /\ row'[s].path = row[s].path
                                                 /\ row'[s].from = row[s].from
  BY SetLockDoes
<1>1. LibraryTypeOK'
  <2>1. RowTyped'
    BY <1>a DEF RowTyped
  <2>2. UNCHANGED <<disk, requested, stopping, idx, win, stranded, byHand>>
    BY DEF SetLock, files, flags
  <2>3. events' \in Nat
    BY DEF SetLock, IInv, LibraryTypeOK
  <2> QED BY <2>1, <2>2, <2>3 DEF IInv, LibraryTypeOK, RowTyped
<1>2. OneFile' /\ SweepIsSound'
  BY DEF SetLock, IInv, files, flags, OneFile, SweepIsSound, Sweeping
<1>3. MarkKeepsApart'
  BY <1>a DEF SetLock, IInv, MarkKeepsApart, Sweeping, AtWork, InTrash
<1>4. RowsAreSound'
  BY <1>a DEF SetLock, IInv, RowsAreSound
<1>5. RestoreIsSound'
  BY <1>a DEF SetLock, IInv, RestoreIsSound, Restoring
<1>6. EmptyIsSound'
  BY <1>a DEF SetLock, IInv, EmptyIsSound
<1>7. TrashIsNamed'
  <2> SUFFICES ASSUME NEW s \in Recordings, NEW e \in Entries,
                      disk'[s][e] = "footage", ~Sweeping(s)', s \notin stranded'
               PROVE  InTrash(s)' /\ row'[s].path = e
    BY DEF TrashIsNamed
  <2>1. InTrash(s) /\ row[s].path = e
    BY DEF SetLock, Sweeping, IInv, TrashIsNamed
  <2> QED BY <1>a, <2>1 DEF InTrash
<1> QED BY <1>1, <1>2, <1>3, <1>4, <1>5, <1>6, <1>7 DEF IInv

(* A file of another's in the library is no footage.                        *)
LEMMA PutCopyByHandDoes ==
  ASSUME IInv, NEW r \in Recordings, PutCopyByHand(r)
  PROVE  /\ DiskTyped'
         /\ \A s \in Recordings : \A x \in Places :
              disk'[s][x] = IF s = r /\ x = "home" THEN "other" ELSE disk[s][x]
BY PlacesApart, PutThere DEF IInv, LibraryTypeOK, DiskTyped, PutCopyByHand, Contents

LEMMA PutCopyByHandKeeps ==
  ASSUME IInv, NEW r \in Recordings, PutCopyByHand(r)
  PROVE  IInv'
<1>a. /\ DiskTyped'
      /\ \A s \in Recordings : \A x \in Places :
           disk'[s][x] = IF s = r /\ x = "home" THEN "other" ELSE disk[s][x]
  BY PutCopyByHandDoes
<1>1. LibraryTypeOK'
  <2>1. DiskTyped'
    BY <1>a DEF DiskTyped
  <2>2. UNCHANGED <<row, requested, stopping, idx, win, stranded, byHand>>
    BY DEF PutCopyByHand, files, flags
  <2>3. events' \in Nat
    BY DEF PutCopyByHand, IInv, LibraryTypeOK
  <2> QED BY <2>1, <2>2, <2>3 DEF IInv, LibraryTypeOK, DiskTyped
<1>2. MarkKeepsApart' /\ RowsAreSound'
  BY DEF PutCopyByHand, IInv, files, flags, MarkKeepsApart, Sweeping, AtWork,
    InTrash, RowsAreSound
<1>3. OneFile'
  BY <1>a DEF PutCopyByHand, IInv, Present, OneFile
<1>4. SweepIsSound'
  BY <1>a DEF PutCopyByHand, IInv, Present, SweepIsSound, Sweeping
<1>5. RestoreIsSound'
  BY <1>a DEF PutCopyByHand, IInv, Present, RestoreIsSound, Restoring
<1>6. EmptyIsSound'
  BY <1>a DEF PutCopyByHand, IInv, Present, EmptyIsSound
<1>7. TrashIsNamed'
  <2> SUFFICES ASSUME NEW s \in Recordings, NEW e \in Entries,
                      disk'[s][e] = "footage", ~Sweeping(s)', s \notin stranded'
               PROVE  InTrash(s)' /\ row'[s].path = e
    BY DEF TrashIsNamed
  <2>1. disk[s][e] = "footage"
    BY <1>a, PlacesApart
  <2> QED BY <2>1 DEF PutCopyByHand, files, Sweeping, IInv, TrashIsNamed, InTrash
<1> QED BY <1>1, <1>2, <1>3, <1>4, <1>5, <1>6, <1>7 DEF IInv

(* A file that goes by hand leaves the rows as sound as they were.          *)
LEMMA RemoveByHandDoes ==
  ASSUME IInv, NEW r \in Recordings, NEW p \in Places, RemoveByHand(r, p)
  PROVE  /\ DiskTyped'
         /\ \A s \in Recordings : \A x \in Places :
              disk'[s][x] = IF s = r /\ x = p THEN "nothing" ELSE disk[s][x]
BY PutThere DEF IInv, LibraryTypeOK, DiskTyped, RemoveByHand, Contents

LEMMA RemoveByHandKeeps ==
  ASSUME IInv, NEW r \in Recordings, NEW p \in Places, RemoveByHand(r, p)
  PROVE  IInv'
<1>a. /\ DiskTyped'
      /\ \A s \in Recordings : \A x \in Places :
           disk'[s][x] = IF s = r /\ x = p THEN "nothing" ELSE disk[s][x]
  BY RemoveByHandDoes
<1>1. LibraryTypeOK'
  <2>1. DiskTyped'
    BY <1>a DEF DiskTyped
  <2>2. UNCHANGED <<row, requested, stopping, idx, win, stranded>>
    BY DEF RemoveByHand, files, flags
  <2>3. events' \in Nat /\ byHand' \subseteq Recordings
    BY DEF RemoveByHand, IInv, LibraryTypeOK
  <2> QED BY <2>1, <2>2, <2>3 DEF IInv, LibraryTypeOK, DiskTyped
<1>2. MarkKeepsApart' /\ RowsAreSound'
  BY DEF RemoveByHand, IInv, files, flags, MarkKeepsApart, Sweeping, AtWork,
    InTrash, RowsAreSound
<1>3. OneFile'
  BY <1>a DEF RemoveByHand, IInv, OneFile
<1>4. SweepIsSound'
  BY <1>a DEF RemoveByHand, IInv, SweepIsSound, Sweeping
<1>5. RestoreIsSound'
  BY <1>a DEF RemoveByHand, IInv, RestoreIsSound, Restoring
<1>6. EmptyIsSound'
  BY <1>a DEF RemoveByHand, IInv, EmptyIsSound
<1>7. TrashIsNamed'
  <2> SUFFICES ASSUME NEW s \in Recordings, NEW e \in Entries,
                      disk'[s][e] = "footage", ~Sweeping(s)', s \notin stranded'
               PROVE  InTrash(s)' /\ row'[s].path = e
    BY DEF TrashIsNamed
  <2>1. disk[s][e] = "footage"
    BY <1>a, PlacesApart
  <2> QED BY <2>1 DEF RemoveByHand, files, Sweeping, IInv, TrashIsNamed, InTrash
<1> QED BY <1>1, <1>2, <1>3, <1>4, <1>5, <1>6, <1>7 DEF IInv

(* A process that dies leaves in the trash what it had moved and not yet marked. *)
LEMMA CrashKeeps ==
  ASSUME IInv, Crash
  PROVE  IInv'
<1>1. LibraryTypeOK'
  <2>1. IdxTyped'
    BY DEF Crash, IInv, AtRest, NoCommand, IdxTyped, LibraryTypeOK
  <2>2. WinTyped'
    BY DEF Crash, IInv, AtRest, NoCommand, WinTyped, LibraryTypeOK
  <2>3. UNCHANGED <<disk, row, byHand>>
    BY DEF Crash, files, flags
  <2>4. /\ events' \in Nat /\ stranded' \subseteq Recordings
        /\ requested' \in BOOLEAN /\ stopping' \in BOOLEAN
    <3>1. idx.item \subseteq Recordings /\ stranded \subseteq Recordings /\ events \in Nat
      BY DEF IInv, LibraryTypeOK
    <3>2. events' = events + 1 /\ (stranded' = stranded \/ stranded' = stranded \cup idx.item)
      BY DEF Crash
    <3>3. stranded' \subseteq Recordings
      BY <3>1, <3>2
    <3>4. events' \in Nat
      BY <3>1, <3>2
    <3>5. requested' \in BOOLEAN /\ stopping' \in BOOLEAN
      BY Zenon DEF Crash
    <3> QED BY <3>3, <3>4, <3>5
  <2> QED BY <2>1, <2>2, <2>3, <2>4 DEF IInv, LibraryTypeOK, IdxTyped, WinTyped
<1>2. OneFile' /\ RowsAreSound'
  BY DEF Crash, IInv, files, flags, OneFile, RowsAreSound
<1>3. MarkKeepsApart'
  BY DEF Crash, IInv, AtRest, NoCommand, MarkKeepsApart, Sweeping, AtWork, InTrash
<1>4. SweepIsSound'
  BY DEF Crash, IInv, AtRest, NoCommand, SweepIsSound, Sweeping
<1>5. RestoreIsSound'
  BY DEF Crash, IInv, AtRest, NoCommand, RestoreIsSound, Restoring
<1>6. EmptyIsSound'
  BY DEF Crash, IInv, AtRest, NoCommand, EmptyIsSound
<1>7. TrashIsNamed'
  <2> SUFFICES ASSUME NEW s \in Recordings, NEW e \in Entries,
                      disk'[s][e] = "footage", ~Sweeping(s)', s \notin stranded'
               PROVE  InTrash(s)' /\ row'[s].path = e
    BY DEF TrashIsNamed
  <2>1. s \notin stranded /\ disk[s][e] = "footage" /\ UNCHANGED row
    BY DEF Crash
  <2>2. ~Sweeping(s)
    BY <2>1, PlacesApart DEF Crash, Sweeping, IInv, SweepIsSound
  <2> QED BY <2>1, <2>2 DEF IInv, TrashIsNamed, InTrash
<1> QED BY <1>1, <1>2, <1>3, <1>4, <1>5, <1>6, <1>7 DEF IInv

-----------------------------------------------------------------------------
(* What is true before anything was indexed, moved or asked for.            *)
LEMMA InitIsSound == Init => IInv
<1> SUFFICES ASSUME Init
             PROVE  IInv
  OBVIOUS
<1>1. LibraryTypeOK
  BY PlacesApart DEF Init, LibraryTypeOK, AtRest, NoCommand, Contents
<1>2. \A r \in Recordings : ~row[r].there /\ \A e \in Entries : disk[r][e] = "nothing"
  BY PlacesApart DEF Init, NoRow
<1>3. OneFile
  BY DEF Init, OneFile
<1> QED BY <1>1, <1>2, <1>3 DEF Init, IInv, MarkKeepsApart, RowsAreSound, SweepIsSound,
      RestoreIsSound, EmptyIsSound, TrashIsNamed, AtRest, NoCommand, Sweeping, AtWork,
      Restoring

(* Every step of the two threads, of a person and of a crash keeps it.      *)
LEMMA StepIsSound == IInv /\ [Next]_vars => IInv'
<1> SUFFICES ASSUME IInv, [Next]_vars
             PROVE  IInv'
  OBVIOUS
<1>1. CASE Request
  BY <1>1, RequestKeeps
<1>2. CASE ShutDown
  BY <1>2, ShutDownKeeps
<1>3. CASE IndexerStep
  BY <1>3, WakeKeeps, LookKeeps, WriteKeeps, WriteRefusedKeeps, PlanKeeps, FinishRunKeeps,
     SendReadKeeps, StowKeeps, StowRefusedKeeps, MarkKeeps, PutBackKeeps, StrandedKeeps
     DEF IndexerStep
<1>4. CASE WindowStep
  BY <1>4, EmptyTrashKeeps, EmptyEndsKeeps, RestoreReadKeeps, RestoreClaimKeeps,
     RestoreClaimFailsKeeps, RestoreMoveKeeps, RestoreMoveFailsKeeps, RestoreClearKeeps,
     RestoreRefusedKeeps, DropKeeps, SetLockKeeps, DiscardKeeps, DiscardFailsKeeps
     DEF WindowStep
<1>5. CASE ByHand
  BY <1>5, PutCopyByHandKeeps, RemoveByHandKeeps DEF ByHand
<1>6. CASE Crash
  BY <1>6, CrashKeeps
<1>7. CASE UNCHANGED vars
  BY <1>7 DEF vars, IInv, LibraryTypeOK, MarkKeepsApart, OneFile, RowsAreSound, SweepIsSound,
     RestoreIsSound, EmptyIsSound, TrashIsNamed, Sweeping, AtWork, Restoring, InTrash
<1> QED BY <1>1, <1>2, <1>3, <1>4, <1>5, <1>6, <1>7 DEF Next

(* The inductive invariant: what the two threads hold and what the rows say *)
(* agree with the disk, whoever acts in between.                            *)
THEOREM Invariance == Spec => []IInv
<1> QED BY InitIsSound, StepIsSound, PTL DEF Spec

(* The sweep and the window are never at work on one recording: the mark in *)
(* its row, re-read by trash::send and by trash::restore, keeps them apart  *)
(* without a lock between the two connections.                              *)
THEOREM NeverBothAtWork == Spec => []HandsKeepApart
<1>1. IInv => HandsKeepApart
  BY DEF IInv, HandsKeepApart
<1> QED BY <1>1, Invariance, PTL

(* Footage in the trash is named by a row that says so, whatever refusal or *)
(* hand came in between; a crash between the rename and the row is the one  *)
(* exception.                                                               *)
THEOREM TrashIsListed == Spec => []TrashIsNamed
<1>1. IInv => TrashIsNamed
  BY DEF IInv
<1> QED BY <1>1, Invariance, PTL

-----------------------------------------------------------------------------
(* A file somebody else put at a recording's place.                         *)

LEMMA OthersSurviveStep ==
  ASSUME IInv, [Next]_vars, NEW r \in Recordings,
         disk[r]["home"] = "other", disk'[r]["home"] # "other"
  PROVE  disk'[r]["home"] = "nothing" \/ PutBack(r)
<1>0. "home" \in Places /\ \A e \in Entries : e # "home"
  BY PlacesApart DEF Places
<1>1. CASE Request \/ ShutDown \/ Crash \/ UNCHANGED vars
  BY <1>1 DEF Request, ShutDown, Crash, vars
<1>2. CASE IndexerStep
  <2>1. CASE \/ Wake \/ Look \/ Write \/ WriteRefused \/ Plan \/ FinishRun
             \/ \E s \in Recordings : SendRead(s) \/ StowRefused(s) \/ Mark(s) \/ Stranded(s)
    BY <2>1 DEF Wake, Look, Write, WriteRefused, Plan, FinishRun, SendRead, StowRefused,
                Mark, Stranded
  <2>2. CASE \E s \in Recordings : Stow(s)
    BY <1>0, <2>2, StowDoes
  <2>3. CASE \E s \in Recordings : PutBack(s)
    BY <1>0, <2>3, PutBackDoes
  <2> QED BY <1>2, <2>1, <2>2, <2>3 DEF IndexerStep
<1>3. CASE WindowStep
  <2>1. CASE \/ EmptyTrash \/ EmptyEnds
             \/ \E s \in Recordings : \/ RestoreRead(s) \/ RestoreClaimFails(s)
                                      \/ RestoreClear(s) \/ Drop(s) \/ SetLock(s)
             \/ \E entry \in win.list : DiscardFails(entry)
    BY <2>1 DEF EmptyTrash, EmptyEnds, RestoreRead, RestoreClaimFails, RestoreClear, Drop,
                SetLock, DiscardFails
  <2>2. CASE \E s \in Recordings : RestoreClaim(s)
    BY <1>0, <2>2, RestoreClaimDoes
  <2>3. CASE \E s \in Recordings : RestoreMove(s)
    BY <1>0, <2>3, RestoreMoveDoes
  <2>4. CASE \E s \in Recordings : RestoreMoveFails(s)
    BY <1>0, <2>4, RestoreMoveFailsDoes
  <2>5. CASE \E s \in Recordings : RestoreRefused(s)
    BY <1>0, <2>5, RestoreRefusedDoes
  <2>6. CASE \E entry \in win.list : Discard(entry)
    BY <1>0, <2>6, DiscardDoes
  <2> QED BY <1>3, <2>1, <2>2, <2>3, <2>4, <2>5, <2>6 DEF WindowStep
<1>4. CASE ByHand
  BY <1>0, <1>4, PutCopyByHandDoes, RemoveByHandDoes DEF ByHand
<1> QED BY <1>1, <1>2, <1>3, <1>4 DEF Next

(* No command of the window's, and no sweep, replaces a file that was put   *)
(* where a recording had been: trash::restore moves onto the name it holds  *)
(* a placeholder at, and into the trash a file goes only where nothing is.  *)
(* Undoing a move whose row was refused is the one step that may.           *)
THEOREM OthersAreLeftAlone == Spec => OthersSurvive
<1>1. IInv /\ [Next]_vars =>
        [\A r \in Recordings :
           disk[r]["home"] = "other" /\ disk'[r]["home"] # "other"
             => \/ disk'[r]["home"] = "nothing"
                \/ PutBack(r)]_vars
  BY OthersSurviveStep
<1> QED BY <1>1, Invariance, PTL DEF Spec, OthersSurvive

-----------------------------------------------------------------------------
(* The promise of RecoverableDeletion, step by step.  A step that leaves    *)
(* the footage and the marks as they are is a step of neither.              *)
LEMMA KeptIsStutter ==
  ASSUME \A s \in Recordings : \A x \in Places :
           disk'[s][x] = "footage" <=> disk[s][x] = "footage",
         \A s \in Recordings : InTrash(s)' <=> InTrash(s),
         byHand' = byHand
  PROVE  UNCHANGED Promise!vars
<1>1. \A s \in Recordings : /\ FootageAt(s, Entries)' <=> FootageAt(s, Entries)
                            /\ FootageAt(s, Names)' <=> FootageAt(s, Names)
  BY PlacesApart DEF FootageAt
<1>2. Place' = Place
  BY <1>1 DEF Place
<1>3. {r \in Recordings : InTrash(r)}' = {r \in Recordings : InTrash(r)}
  OBVIOUS
<1> QED BY <1>2, <1>3 DEF Promise!vars

(* Where footage is, it being in one place.                                 *)
LEMMA PlaceOfFootage ==
  ASSUME OneFile, NEW r \in Recordings
  PROVE  /\ \A p \in Entries : disk[r][p] = "footage" => Place[r] = "trash"
         /\ \A p \in Names : disk[r][p] = "footage" => Place[r] = "library"
         /\ (\A p \in Places : disk[r][p] # "footage") => Place[r] = "gone"
<1>1. \A p \in Names : disk[r][p] = "footage" => ~FootageAt(r, Entries)
  BY PlacesApart DEF OneFile, FootageAt
<1> QED BY <1>1, PlacesApart DEF Place, FootageAt

(* A step that touches one recording's places changes only its place.       *)
LEMMA OneMoves ==
  ASSUME NEW r \in Recordings,
         \A s \in Recordings : s # r => \A x \in Places : disk'[s][x] = disk[s][x]
  PROVE  Place' = [Place EXCEPT ![r] = Place'[r]]
<1>1. ASSUME NEW s \in Recordings, s # r
      PROVE  Place'[s] = Place[s]
  <2>1. \A x \in Places : disk'[s][x] = disk[s][x]
    BY <1>1
  <2>2. /\ FootageAt(s, Entries)' <=> FootageAt(s, Entries)
        /\ FootageAt(s, Names)' <=> FootageAt(s, Names)
    BY <2>1, PlacesApart DEF FootageAt
  <2> QED BY <2>2 DEF Place
<1> QED BY <1>1 DEF Place

(* Footage that is renamed between the library and the trash is deleted or  *)
(* restored.                                                                *)
LEMMA MovedIsPromised ==
  ASSUME OneFile, OneFile', NEW r \in Recordings, NEW p \in Places, NEW q \in Places,
         \A s \in Recordings : s # r => \A x \in Places : disk'[s][x] = disk[s][x],
         disk[r][p] = "footage", disk'[r][q] = "footage",
         p \in Entries <=> q \notin Entries,
         UNCHANGED <<row, byHand>>
  PROVE  Promise!Next
<1>1. Place' = [Place EXCEPT ![r] = Place'[r]]
  BY OneMoves
<1>2. {s \in Recordings : InTrash(s)}' = {s \in Recordings : InTrash(s)}
  BY DEF InTrash
<1>3. CASE p \in Entries
  <2>1. Place[r] = "trash"
    BY <1>3, PlaceOfFootage
  <2>2. q \in Names
    BY <1>3 DEF Places
  <2>3. ASSUME NEW x \in Entries PROVE disk'[r][x] # "footage"
    BY <2>2, PlacesApart DEF OneFile
  <2>4. Place'[r] = "library"
    BY <2>2, <2>3 DEF Place, FootageAt
  <2> QED BY <1>1, <1>2, <2>1, <2>4 DEF Promise!Next, Promise!Restore
<1>4. CASE p \notin Entries
  <2>1. Place[r] = "library"
    BY <1>4, PlaceOfFootage DEF Places
  <2>2. Place'[r] = "trash"
    BY <1>4 DEF Place, FootageAt
  <2> QED BY <1>1, <1>2, <2>1, <2>2 DEF Promise!Next, Promise!Delete
<1> QED BY <1>3, <1>4

(* Footage that is gone after a step was somewhere before it.               *)
LEMMA GoneFrom ==
  ASSUME OneFile, NEW r \in Recordings, NEW p \in Places, disk[r][p] = "footage",
         \A s \in Recordings : \A x \in Places :
           disk'[s][x] = IF s = r /\ x = p THEN "nothing" ELSE disk[s][x]
  PROVE  /\ Place' = [Place EXCEPT ![r] = "gone"]
         /\ Place[r] = IF p \in Entries THEN "trash" ELSE "library"
<1>1. Place' = [Place EXCEPT ![r] = Place'[r]]
  BY OneMoves
<1>2. \A x \in Places : disk'[r][x] # "footage"
  BY DEF OneFile
<1>3. Place'[r] = "gone"
  BY <1>2, PlacesApart DEF Place, FootageAt
<1> QED BY <1>1, <1>3, PlaceOfFootage DEF Places

(* A change of the marks that moves no footage.                             *)
LEMMA MarkIsPromised ==
  ASSUME NEW r \in Recordings, UNCHANGED <<disk, byHand>>,
         \A s \in Recordings : s # r => row'[s] = row[s]
  PROVE  Promise!Next \/ UNCHANGED Promise!vars
<1> DEFINE marked == {s \in Recordings : InTrash(s)}
<1>1. Place' = Place
  BY DEF Place, FootageAt
<1>2. \A s \in Recordings : s # r => (InTrash(s)' <=> InTrash(s))
  BY DEF InTrash
<1>3. marked' = marked \cup {r} \/ marked' = marked \ {r}
  BY <1>2
<1> QED BY <1>1, <1>3 DEF Promise!Next, Promise!Mark

(* Every step that touches the disk, the rows or what was done by hand.     *)
Promised == Promise!Next \/ UNCHANGED Promise!vars

LEMMA QuietIsPromised == ASSUME UNCHANGED <<disk, row, byHand>> PROVE Promised
<1>1. \A s \in Recordings : InTrash(s)' <=> InTrash(s)
  BY DEF InTrash
<1> QED BY <1>1, KeptIsStutter DEF Promised

LEMMA StowIsPromised ==
  ASSUME IInv, OneFile', NEW r \in Recordings, Stow(r)
  PROVE  Promised
<1>1. UNCHANGED <<row, byHand>> /\ idx.from \in Names
  BY DEF Stow, files, IInv, SweepIsSound, Sweeping
<1>2. \A s \in Recordings : InTrash(s)' <=> InTrash(s)
  BY <1>1 DEF InTrash
<1>3. CASE disk' = disk
  BY <1>1, <1>3, QuietIsPromised
<1>4. CASE disk' # disk /\ disk[r][idx.from] = "footage"
  BY <1>1, <1>4, StowDoes, PlacesApart, MovedIsPromised DEF IInv, Promised
<1>5. CASE disk' # disk /\ disk[r][idx.from] # "footage"
  <2>1. /\ idx'.entry \in Entries /\ disk[r][idx'.entry] = "nothing"
        /\ \A s \in Recordings : \A x \in Places :
             disk'[s][x] = IF s = r /\ x = idx.from THEN "nothing"
                           ELSE IF s = r /\ x = idx'.entry THEN disk[r][idx.from]
                           ELSE disk[s][x]
    BY <1>5, StowDoes
  <2>2. \A s \in Recordings : \A x \in Places :
          disk'[s][x] = "footage" <=> disk[s][x] = "footage"
    BY <1>5, <2>1
  <2> QED BY <1>1, <1>2, <2>2, KeptIsStutter DEF Promised
<1> QED BY <1>3, <1>4, <1>5

LEMMA PutBackIsPromised ==
  ASSUME IInv, OneFile', NEW r \in Recordings, PutBack(r)
  PROVE  Promised
<1>1. UNCHANGED <<row, byHand>>
  BY DEF PutBack, files
<1>2. \A s \in Recordings : InTrash(s)' <=> InTrash(s)
  BY <1>1 DEF InTrash
<1>3. CASE disk' = disk
  BY <1>1, <1>3, QuietIsPromised
<1>4. CASE disk' # disk
  <2>1. /\ idx.entry \in Entries /\ idx.from \in Names
        /\ \A s \in Recordings : \A x \in Places :
             disk'[s][x] = IF s = r /\ x = idx.entry THEN "nothing"
                           ELSE IF s = r /\ x = idx.from THEN disk[r][idx.entry]
                           ELSE disk[s][x]
    BY <1>4, PutBackDoes
  <2>2. disk[r][idx.from] # "footage"
    BY <2>1, PlacesApart DEF PutBack, IInv, SweepIsSound, Sweeping
  <2>3. CASE disk[r][idx.entry] = "footage"
    BY <1>1, <2>1, <2>3, PlacesApart, MovedIsPromised DEF IInv, Promised
  <2>4. CASE disk[r][idx.entry] # "footage"
    <3>1. \A s \in Recordings : \A x \in Places :
            disk'[s][x] = "footage" <=> disk[s][x] = "footage"
      BY <2>1, <2>2, <2>4
    <3> QED BY <1>1, <1>2, <3>1, KeptIsStutter DEF Promised
  <2> QED BY <2>3, <2>4
<1> QED BY <1>3, <1>4

LEMMA ClaimIsPromised ==
  ASSUME IInv, NEW r \in Recordings,
         RestoreClaim(r) \/ RestoreMoveFails(r) \/ PutCopyByHand(r)
  PROVE  Promised
<1>1. UNCHANGED <<row, byHand>>
  BY DEF RestoreClaim, RestoreMoveFails, PutCopyByHand, files
<1>2. \A s \in Recordings : InTrash(s)' <=> InTrash(s)
  BY <1>1 DEF InTrash
<1>3. CASE RestoreClaim(r)
  <2>1. \A s \in Recordings : \A x \in Places :
          disk'[s][x] = "footage" <=> disk[s][x] = "footage"
    BY <1>3, RestoreClaimDoes
  <2> QED BY <1>1, <1>2, <2>1, KeptIsStutter DEF Promised
<1>4. CASE RestoreMoveFails(r)
  <2>1. disk[r][win.name] = "placeholder"
    BY <1>4 DEF RestoreMoveFails, IInv, RestoreIsSound, Restoring
  <2>2. \A s \in Recordings : \A x \in Places :
          disk'[s][x] = "footage" <=> disk[s][x] = "footage"
    BY <1>4, <2>1, RestoreMoveFailsDoes
  <2> QED BY <1>1, <1>2, <2>2, KeptIsStutter DEF Promised
<1>5. CASE PutCopyByHand(r)
  <2>1. disk[r]["home"] = "nothing"
    BY <1>5 DEF PutCopyByHand, Present
  <2>2. \A s \in Recordings : \A x \in Places :
          disk'[s][x] = "footage" <=> disk[s][x] = "footage"
    BY <1>5, <2>1, PutCopyByHandDoes
  <2> QED BY <1>1, <1>2, <2>2, KeptIsStutter DEF Promised
<1> QED BY <1>3, <1>4, <1>5

LEMMA RestoreMoveIsPromised ==
  ASSUME IInv, OneFile', NEW r \in Recordings, RestoreMove(r)
  PROVE  Promised
<1>1. UNCHANGED <<row, byHand>>
  BY DEF RestoreMove, files
<1>2. \A s \in Recordings : InTrash(s)' <=> InTrash(s)
  BY <1>1 DEF InTrash
<1>3. CASE disk[r][win.here] = "footage"
  BY <1>1, <1>3, RestoreMoveDoes, PlacesApart, MovedIsPromised DEF IInv, Promised
<1>4. CASE disk[r][win.here] # "footage"
  <2>1. \A s \in Recordings : \A x \in Places :
          disk'[s][x] = "footage" <=> disk[s][x] = "footage"
    BY <1>4, RestoreMoveDoes
  <2> QED BY <1>1, <1>2, <2>1, KeptIsStutter DEF Promised
<1> QED BY <1>3, <1>4

LEMMA RestoreRefusedIsPromised ==
  ASSUME IInv, OneFile', NEW r \in Recordings, RestoreRefused(r)
  PROVE  Promised
<1>1. UNCHANGED <<row, byHand>>
  BY DEF RestoreRefused, files
<1>2. \A s \in Recordings : InTrash(s)' <=> InTrash(s)
  BY <1>1 DEF InTrash
<1>3. CASE disk' = disk
  BY <1>1, <1>3, QuietIsPromised
<1>4. CASE disk' # disk
  <2>1. /\ win.name \in Names /\ win.here \in Entries
        /\ \A s \in Recordings : \A x \in Places :
             disk'[s][x] = IF s = r /\ x = win.name THEN "nothing"
                           ELSE IF s = r /\ x = win.here THEN disk[r][win.name]
                           ELSE disk[s][x]
    BY <1>4, RestoreRefusedDoes
  <2>2. disk[r][win.here] # "footage"
    BY <2>1 DEF RestoreRefused, IInv, RestoreIsSound, Restoring
  <2>3. CASE disk[r][win.name] = "footage"
    BY <1>1, <2>1, <2>3, PlacesApart, MovedIsPromised DEF IInv, Promised
  <2>4. CASE disk[r][win.name] # "footage"
    <3>1. \A s \in Recordings : \A x \in Places :
            disk'[s][x] = "footage" <=> disk[s][x] = "footage"
      BY <2>1, <2>2, <2>4
    <3> QED BY <1>1, <1>2, <3>1, KeptIsStutter DEF Promised
  <2> QED BY <2>3, <2>4
<1> QED BY <1>3, <1>4

LEMMA DiscardIsPromised ==
  ASSUME IInv, NEW entry \in win.list, Discard(entry)
  PROVE  Promised
<1> DEFINE it == entry.item
<1>1. UNCHANGED <<row, byHand>> /\ it \in Recordings /\ InTrash(it)
  BY DiscardDoes DEF Discard, files, IInv, MarkKeepsApart, AtWork
<1>2. \A s \in Recordings : InTrash(s)' <=> InTrash(s)
  BY <1>1 DEF InTrash
<1>3. CASE entry.path \in Entries /\ disk[it][entry.path] = "footage"
  <2>1. \A s \in Recordings : \A x \in Places :
          disk'[s][x] = IF s = it /\ x = entry.path THEN "nothing" ELSE disk[s][x]
    BY <1>3, DiscardDoes
  <2>2. Place' = [Place EXCEPT ![it] = "gone"] /\ Place[it] = "trash"
    BY <1>1, <1>3, <2>1, DiscardDoes, GoneFrom DEF IInv
  <2>3. {s \in Recordings : InTrash(s)}' = {s \in Recordings : InTrash(s)}
    BY <1>2
  <2> QED BY <1>1, <2>2, <2>3 DEF Promised, Promise!Next, Promise!Destroy
<1>4. CASE ~(entry.path \in Entries /\ disk[it][entry.path] = "footage")
  <2>1. \A s \in Recordings : \A x \in Places :
          disk'[s][x] = "footage" <=> disk[s][x] = "footage"
    BY <1>4, DiscardDoes
  <2> QED BY <1>1, <1>2, <2>1, KeptIsStutter DEF Promised
<1> QED BY <1>3, <1>4

LEMMA RemoveByHandIsPromised ==
  ASSUME IInv, NEW r \in Recordings, NEW p \in Places, RemoveByHand(r, p)
  PROVE  Promised
<1>1. UNCHANGED row
  BY DEF RemoveByHand
<1>2. \A s \in Recordings : InTrash(s)' <=> InTrash(s)
  BY <1>1 DEF InTrash
<1>3. CASE disk[r][p] = "footage"
  <2>1. Place' = [Place EXCEPT ![r] = "gone"] /\ Place[r] # "gone"
    BY <1>3, RemoveByHandDoes, GoneFrom DEF IInv
  <2>2. {s \in Recordings : InTrash(s)}' = {s \in Recordings : InTrash(s)}
    BY <1>2
  <2>3. byHand' = byHand \cup {r}
    BY <1>3 DEF RemoveByHand
  <2> QED BY <2>1, <2>2, <2>3 DEF Promised, Promise!Next, Promise!RemoveByHand
<1>4. CASE disk[r][p] # "footage"
  <2>1. \A s \in Recordings : \A x \in Places :
          disk'[s][x] = "footage" <=> disk[s][x] = "footage"
    BY <1>4, RemoveByHandDoes
  <2> QED BY <1>2, <1>4, <2>1, KeptIsStutter DEF Promised, RemoveByHand
<1> QED BY <1>3, <1>4

LEMMA RowsArePromised ==
  ASSUME IInv, NEW r \in Recordings, Mark(r) \/ RestoreClear(r) \/ Drop(r) \/ SetLock(r)
  PROVE  Promised
<1>1. UNCHANGED <<disk, byHand>>
  BY DEF Mark, RestoreClear, Drop, SetLock, files
<1>2. \A s \in Recordings : s # r => row'[s] = row[s]
  BY DEF Mark, RestoreClear, Drop, SetLock, IInv, LibraryTypeOK
<1> QED BY <1>1, <1>2, MarkIsPromised DEF Promised

LEMMA WriteIsPromised ==
  ASSUME IInv, Write
  PROVE  Promised
<1>1. \A s \in Recordings : InTrash(s)' <=> InTrash(s)
  BY WriteDoes DEF InTrash
<1>2. UNCHANGED <<disk, byHand>>
  BY DEF Write, files
<1> QED BY <1>1, <1>2, KeptIsStutter DEF Promised

(* No action of the recorder, no person and no crash takes a step the       *)
(* promise does not allow.                                                  *)
LEMMA StepIsPromised == IInv /\ IInv' /\ [Next]_vars => [Promise!Next]_Promise!vars
<1> SUFFICES ASSUME IInv, IInv', [Next]_vars
             PROVE  Promised
  BY DEF Promised
<1>1. OneFile'
  BY DEF IInv
<1>2. CASE Request \/ ShutDown \/ Crash \/ UNCHANGED vars
  BY <1>2, QuietIsPromised DEF Request, ShutDown, Crash, files, vars
<1>3. CASE IndexerStep
  <2>1. CASE Wake \/ Look \/ WriteRefused \/ Plan \/ FinishRun
    BY <2>1, QuietIsPromised DEF Wake, Look, WriteRefused, Plan, FinishRun, files
  <2>2. CASE Write
    BY <2>2, WriteIsPromised
  <2>3. CASE \E r \in Recordings : SendRead(r) \/ StowRefused(r) \/ Stranded(r)
    BY <2>3, QuietIsPromised DEF SendRead, StowRefused, Stranded, files
  <2>4. CASE \E r \in Recordings : Stow(r) \/ PutBack(r) \/ Mark(r)
    BY <1>1, <2>4, StowIsPromised, PutBackIsPromised, RowsArePromised
  <2> QED BY <1>3, <2>1, <2>2, <2>3, <2>4 DEF IndexerStep
<1>4. CASE WindowStep
  <2>1. CASE EmptyTrash \/ EmptyEnds
    BY <2>1, QuietIsPromised DEF EmptyTrash, EmptyEnds, files
  <2>2. CASE \E r \in Recordings : RestoreRead(r) \/ RestoreClaimFails(r)
    BY <2>2, QuietIsPromised DEF RestoreRead, RestoreClaimFails, files
  <2>3. CASE \E r \in Recordings : \/ RestoreClaim(r) \/ RestoreMove(r)
                                   \/ RestoreMoveFails(r) \/ RestoreRefused(r)
    BY <1>1, <2>3, ClaimIsPromised, RestoreMoveIsPromised, RestoreRefusedIsPromised
  <2>4. CASE \E r \in Recordings : RestoreClear(r) \/ Drop(r) \/ SetLock(r)
    BY <2>4, RowsArePromised
  <2>5. CASE \E entry \in win.list : Discard(entry)
    BY <2>5, DiscardIsPromised
  <2>6. CASE \E entry \in win.list : DiscardFails(entry)
    BY <2>6, QuietIsPromised DEF DiscardFails, files
  <2> QED BY <1>4, <2>1, <2>2, <2>3, <2>4, <2>5, <2>6 DEF WindowStep
<1>5. CASE ByHand
  BY <1>5, ClaimIsPromised, RemoveByHandIsPromised DEF ByHand
<1> QED BY <1>2, <1>3, <1>4, <1>5 DEF Next

(* The recorder's library implements the promise of a recoverable deletion: *)
(* footage leaves the library only for the trash, and is destroyed only out *)
(* of the trash under a row that is in it, or by hand.                      *)
THEOREM DeletionKeepsItsPromise == Spec => DeletionIsRecoverable
<1>1. Init => Promise!Init
  <2> SUFFICES ASSUME Init
               PROVE  Promise!Init
    OBVIOUS
  <2>1. \A r \in Recordings : ~FootageAt(r, Entries) /\ FootageAt(r, Names)
    BY PlacesApart DEF Init, FootageAt
  <2> QED BY <2>1 DEF Init, Promise!Init, Place, InTrash, NoRow
<1> QED BY <1>1, InitIsSound, StepIsSound, StepIsPromised, Invariance, PTL
     DEF Spec, DeletionIsRecoverable, Promise!Spec

=============================================================================
