------------------------------ MODULE MCClient -------------------------------
(***************************************************************************)
(* Tables of Client for TLC.                                               *)
(***************************************************************************)
EXTENDS Client

Solo(n, rounds, d) ==
  [n |-> n, human |-> {0}, me |-> 0, rounds |-> rounds, claim |-> FALSE,
   drops |-> d, kicks |-> 0]
\* Two humans, the page of the second.
Duel(rounds, c, d, k) ==
  [n |-> 2, human |-> {0, 1}, me |-> 1, rounds |-> rounds, claim |-> c,
   drops |-> d, kicks |-> k]

\* Two bots and two rounds; a connection lost in a round with two bots; a kick; a claim,
\* and a connection lost around its answer.
MCTables ==
  {Solo(3, 2, 0), Solo(3, 1, 1), Duel(2, FALSE, 0, 1), Duel(1, TRUE, 0, 0), Duel(2, TRUE, 1, 0)}
\* A connection lost: with a claim, and with one bot.
ReconnectTables == {Duel(1, TRUE, 1, 0), Solo(2, 1, 1)}
==============================================================================
