------------------------------ MODULE CardRules ------------------------------
(***************************************************************************)
(* The rules of a trick: which card may be played, which card leads the    *)
(* trick, who wins it, how the game ends and what each seat is paid.       *)
(* A card is its index in 0..31, as in the game_card rows: the suit is     *)
(* index / 8 and the rank index % 8, the lowest rank being the three.      *)
(* Seats are the positions 0..n-1.  The operators are pure; the modules    *)
(* that EXTEND this one give them their state.                             *)
(***************************************************************************)
EXTENDS Integers, FiniteSets

\* None of an Option<card> and of an Option<seat>.
NoCard == -1
NoSeat == -1

Suit(c) == c \div 8
Rank(c) == c % 8
SameSuit(c, d) == Suit(c) = Suit(d)

\* The card that makes a round a Kora.
IsThree(c) == Rank(c) = 0

\* Mutant of FollowsSuit: a seat that cannot follow may not discard.
FollowsSuitAlways(c, winCard, unplayed) == winCard = NoCard \/ SameSuit(c, winCard)

\* A seat follows the suit of the card that leads the trick if it can.
FollowsSuit(c, winCard, unplayed) ==
  \/ winCard = NoCard
  \/ SameSuit(c, winCard)
  \/ \A d \in unplayed : ~SameSuit(d, winCard)

\* Mutant of Beats: a higher card of any suit takes the trick.
BeatsAnySuit(c, winCard) == Rank(c) > Rank(winCard)

Beats(c, winCard) == SameSuit(c, winCard) /\ Rank(c) > Rank(winCard)

\* The leading card after c is played, maintained card by card in the game row.
NewWinningCard(winCard, c) ==
  IF winCard = NoCard \/ Beats(c, winCard) THEN c ELSE winCard

\* The winning card of a whole trick, recomputed from the cards of the round:
\* the highest card of the suit of the first one.
TrickWinner(first, trick) ==
  CHOOSE c \in trick :
    /\ SameSuit(c, first)
    /\ \A d \in trick : SameSuit(d, first) => Rank(d) <= Rank(c)

Terminal == {"Finished", "Kora", "DoubleKora"}
Status == {"Active"} \union Terminal

\* The status that the last round gives the game.  before is the winner of the
\* round before, threeBefore whether that round was won by playing a three and
\* special whether the winner holds a special combination.
FinalStatus(isKora, before, winner, threeBefore, special) ==
  CASE special -> "Kora"
    [] ~special /\ ~isKora -> "Finished"
    [] ~special /\ isKora /\ before = winner /\ threeBefore -> "DoubleKora"
    [] OTHER -> "Kora"

Multiplier(status) ==
  CASE status = "Kora" -> 2 [] status = "DoubleKora" -> 4 [] OTHER -> 1

\* Mutant of Payment: the winner is paid its own bet as well.
PaymentOfAll(s, winner, n, bet) == IF s = winner THEN bet * n ELSE -bet

\* What seat s gains on top of its stake when winner takes a pot of n bets.
Payment(s, winner, n, bet) == IF s = winner THEN bet * (n - 1) ELSE -bet

\* The turn passes to the next seat, cyclically.
NextSeat(s, n) == (s + 1) % n
==============================================================================
