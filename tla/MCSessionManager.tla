-------------------------- MODULE MCSessionManager --------------------------
(* Small instances of SessionManager for TLC.                              *)
EXTENDS SessionManager

(* The same game launched twice, the second time under the first's process *)
(* id, and another game with a catalogued child.                           *)
GamesAB == {"A", "B"}

TwoGames ==
    {[id |-> "a1", game |-> "A", pid |-> 1, children |-> {2}],
     [id |-> "a2", game |-> "A", pid |-> 1, children |-> {}],
     [id |-> "b1", game |-> "B", pid |-> 3, children |-> {4}]}

(* A game, and a game with a child that waits for it: what liveness needs. *)
OneWaits ==
    {[id |-> "a1", game |-> "A", pid |-> 1, children |-> {}],
     [id |-> "b1", game |-> "B", pid |-> 3, children |-> {2}]}
=============================================================================
