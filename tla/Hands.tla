--------------------------------- MODULE Hands ---------------------------------
(***************************************************************************)
(* What the program reads off a hand: the special combinations, who of the    *)
(* table is asked whether to claim for them, and the card a bot plays.  The    *)
(* askee is found by one pass over the hands, a step for each, as in the loop; *)
(* then the first seat is a bot that has to answer a card.                      *)
(***************************************************************************)
EXTENDS CardRules, Sequences, FiniteSetsExt

CONSTANTS
  Dealt,     \* the hands a seat may be dealt
  Leads      \* the cards that may lead the trick

VARIABLES
  hands,    \* the hands of the table, in the order of the rows
  seen,     \* how many of them the loop has been over
  best,     \* best_rank, None is -1
  askee,    \* the seat to ask, or NoSeat
  lead,     \* current_winning_card
  choice    \* the card of the bot

handVars == <<hands, seen, best, askee, lead, choice>>

\* The value of a card: RANK_START is 3.
Value(c) == 3 + Rank(c)
OfValue(h, r) == {c \in h : Value(c) = r}

\* compute_special_cards.
TripleSeven(h) == Cardinality(OfValue(h, 7)) >= 3
Square(h) == \E r \in 3..10 : Cardinality(OfValue(h, r)) >= 4
Under21(h) == MapThenSumSet(Value, h) < 21

BestRank(h) ==
  CASE Square(h) -> 2
    [] ~Square(h) /\ Under21(h) -> 1
    [] ~Square(h) /\ ~Under21(h) /\ TripleSeven(h) -> 0
    [] OTHER -> -1

Init ==
  /\ hands = <<>> /\ lead = NoCard
  /\ seen = 0 /\ best = -1 /\ askee = NoSeat /\ choice = NoCard

\* The rows of a game that starts, and the card on the table.
Deal ==
  /\ hands = <<>>
  /\ hands' \in {h \in [1..3 -> Dealt] : \A i, j \in 1..3 : i # j => h[i] \cap h[j] = {}}
  /\ lead' \in Leads \union {NoCard} /\ \A i \in 1..3 : lead' \notin hands'[i]
  /\ UNCHANGED <<seen, best, askee, choice>>

\* select_askee, one hand.
\* Mutant of Tied: the first of two that tie is asked.
TiedFirst(a) == a
Tied(a) == NoSeat
Visit ==
  /\ seen < Len(hands) /\ seen' = seen + 1
  /\ LET rank == BestRank(hands[seen']) IN
     /\ best' = IF rank > best THEN rank ELSE best
     /\ askee' = IF rank > best THEN seen'
                 ELSE IF rank # -1 /\ rank = best THEN Tied(askee) ELSE askee
  /\ UNCHANGED <<hands, lead, choice>>

\* pick_playable_cards_in_round.
CanMatch(c) == lead = NoCard \/ SameSuit(c, lead)
PlayableCards(h) ==
  IF \E c \in h : CanMatch(c) THEN {c \in h : CanMatch(c)} ELSE h

\* The zones of a suit, and in which order a strategy goes through them.
Zone(c) == CASE Rank(c) \in 0..2 -> 1 [] Rank(c) \in 3..5 -> 2 [] OTHER -> 3
Strategies == {<<3, 2, 1>>, <<3, 1, 2>>, <<2, 3, 1>>, <<2, 1, 3>>}
InZone(h, z) == {c \in PlayableCards(h) : Zone(c) = z}
Found(h, order) ==
  LET first == CHOOSE i \in 1..3 : /\ InZone(h, order[i]) # {}
                                   /\ \A j \in 1..(i - 1) : InZone(h, order[j]) = {}
  IN InZone(h, order[first])

\* compute_strategy: any card when nothing leads, otherwise a random strategy; which of
\* the cards of the zone comes first is the order of the rows.
Pick ==
  /\ hands # <<>> /\ seen = Len(hands) /\ choice = NoCard
  /\ IF lead = NoCard THEN choice' \in hands[1]
     ELSE \E order \in Strategies : choice' \in Found(hands[1], order)
  /\ UNCHANGED <<hands, seen, best, askee, lead>>

Next == Deal \/ Visit \/ Pick
Spec == Init /\ [][Next]_handVars
------------------------------------------------------------------------------
\* Properties.

\* Whoever is asked holds a combination that no other seat's equals or beats, and if
\* there is such a seat it is asked, in whatever order the hands come.
Stronger(i, j) == BestRank(hands[i]) > BestRank(hands[j])
Strongest == {i \in 1..seen : /\ BestRank(hands[i]) # -1
                              /\ \A j \in (1..seen) \ {i} : Stronger(i, j)}
AskeeStrongest == IF Strongest = {} THEN askee = NoSeat ELSE Strongest = {askee}

\* The card a bot picks (strategy.rs) is one that the validator of card plays
\* (validator.rs) lets it play.
PickAllowed ==
  choice # NoCard => choice \in hands[1] /\ FollowsSuit(choice, lead, hands[1])

RulesAgree == AskeeStrongest /\ PickAllowed
==============================================================================
