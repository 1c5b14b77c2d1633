------------------------ MODULE RecoverableDeletion ------------------------
(***************************************************************************)
(* What deleting a recording promises (docs/storage-management.md, "Never   *)
(* delete anything a user did not ask to delete"; crates/library/src/trash).*)
(* Footage is in the library or in the trash.  Deleting and restoring move  *)
(* it between the two, and only footage that is in the trash, of a          *)
(* recording whose row says it is deleted, is ever destroyed.  The user may *)
(* remove a file by hand in Explorer, which is nobody's promise.            *)
(***************************************************************************)
CONSTANT Recordings

VARIABLES place,    \* where a recording's footage is
          marked,   \* the recordings whose row says they are deleted
          byHand    \* the recordings whose footage the user removed by hand

vars == <<place, marked, byHand>>

Init == /\ place = [r \in Recordings |-> "library"]
        /\ marked = {}
        /\ byHand = {}

(* Footage goes to the trash and comes back; nothing else changes.          *)
Delete(r) == /\ place[r] = "library"
             /\ place' = [place EXCEPT ![r] = "trash"]
             /\ UNCHANGED <<marked, byHand>>

Restore(r) == /\ place[r] = "trash"
              /\ place' = [place EXCEPT ![r] = "library"]
              /\ UNCHANGED <<marked, byHand>>

(* Footage is destroyed out of the trash, and only when its row is marked.  *)
Destroy(r) == /\ place[r] = "trash"
              /\ r \in marked
              /\ place' = [place EXCEPT ![r] = "gone"]
              /\ UNCHANGED <<marked, byHand>>

(* A row is marked or loses its mark, or leaves the index, at no cost to    *)
(* the footage.                                                             *)
Mark(r) == /\ \/ marked' = marked \cup {r}
              \/ marked' = marked \ {r}
           /\ UNCHANGED <<place, byHand>>

(* The user removes the file in Explorer.                                   *)
RemoveByHand(r) == /\ place[r] # "gone"
                   /\ place' = [place EXCEPT ![r] = "gone"]
                   /\ byHand' = byHand \cup {r}
                   /\ UNCHANGED marked

Next == \E r \in Recordings : \/ Delete(r) \/ Restore(r) \/ Destroy(r)
                              \/ Mark(r) \/ RemoveByHand(r)

Spec == Init /\ [][Next]_vars
=============================================================================
