-------------------------- MODULE BoundedRequests ---------------------------
(* What a background worker promises those who ask it for work             *)
(* (crates/background/src/lib.rs and worker.rs): one item in hand, and a   *)
(* bounded number of requests waiting, none twice nor behind itself.       *)
(* The oldest is served first, and not while it is held for a recording;   *)
(* a request is dropped only for a new one, when all places are taken,     *)
(* and then the oldest; and nothing is taken once it is closed.            *)
EXTENDS Naturals, FiniteSets

CONSTANTS Recordings, Capacity, None

VARIABLES wanted,   \* the requests that wait
          before,   \* who was asked for before whom
          inHand,   \* what is worked on
          held,     \* a recording is running
          closed    \* no more is taken

vars == <<wanted, before, inHand, held, closed>>

Init == wanted = {} /\ before = {} /\ inHand = None /\ ~held /\ ~closed

Oldest(r) == r \in wanted /\ \A q \in wanted \ {r} : <<r, q>> \in before

Among(kept) == {pair \in before : pair[1] \in kept /\ pair[2] \in kept}

(* Who waits when there is place for one more.                             *)
Keeps(kept) ==
    \/ Cardinality(wanted) < Capacity /\ kept = wanted
    \/ /\ Cardinality(wanted) = Capacity
       /\ \E r \in wanted : Oldest(r) /\ kept = wanted \ {r}

Ask(r) ==
    /\ ~closed /\ r \notin wanted /\ r # inHand
    /\ \E kept \in SUBSET wanted :
          /\ Keeps(kept)
          /\ wanted' = kept \cup {r}
          /\ before' = Among(kept) \cup (kept \X {r})
    /\ UNCHANGED <<inHand, held, closed>>

Begin(r) ==
    /\ Oldest(r) /\ inHand = None /\ ~held /\ ~closed
    /\ inHand' = r
    /\ wanted' = wanted \ {r} /\ before' = Among(wanted \ {r})
    /\ UNCHANGED <<held, closed>>

Finish ==
    /\ inHand # None /\ inHand' = None
    /\ UNCHANGED <<wanted, before, held, closed>>

Hold ==
    /\ held' = ~held
    /\ UNCHANGED <<wanted, before, inHand, closed>>

Close ==
    /\ ~closed /\ closed' = TRUE
    /\ wanted' = {} /\ before' = {}
    /\ UNCHANGED <<inHand, held>>

Next == \/ \E r \in Recordings : Ask(r) \/ Begin(r)
        \/ Finish \/ Hold \/ Close

Spec == Init /\ [][Next]_vars
=============================================================================
