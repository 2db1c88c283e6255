----------------------------- MODULE MCCardPlay ------------------------------
(***************************************************************************)
(* Instances of CardPlay for TLC.  Seats 0 and 1 (and 2) hold two cards     *)
(* each of a deck with two suits, threes included.                          *)
(***************************************************************************)
EXTENDS CardPlay

\* One request in flight per seat.
OnePerSeat == [p \in Req |-> CASE p = "a" -> 0 [] p = "b" -> 1 [] OTHER -> 2]
\* Two requests in flight for seat 0, one for seat 1.
TwoForSeat0 == [p \in Req |-> IF p = "b" THEN 1 ELSE 0]

PlayingSpec == FairSpec /\ KeepPlaying
------------------------------------------------------------------------------
\* Properties.

\* Seats are at most one card apart, and the seat whose turn it is has not played
\* in this round: no seat is passed over and none plays twice (turn_order.rs).
HandsInStep ==
  LET gone(s) == Cardinality(hand[s] \ Unplayed(s))
  IN game.status = "Active" =>
       /\ \A s \in Seats : gone(s) \in {game.roll - 1, game.roll}
       /\ gone(game.rank) = game.roll - 1
==============================================================================
