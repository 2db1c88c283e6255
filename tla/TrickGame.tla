------------------------------ MODULE TrickGame ------------------------------
(***************************************************************************)
(* What one game promises its players, with every request atomic: seats    *)
(* play in turn, each follows suit, the holder of the leading card wins    *)
(* the round and leads the next one, a pending claim stops the game until  *)
(* its holder claims or declines, and the pot is paid exactly once.        *)
(* CardPlay is the engine as the code runs it, shown to implement this     *)
(* module under the conditions its runs and theorems name.                 *)
(***************************************************************************)
EXTENDS CardRules

CONSTANTS
  N,                 \* number of seats, the players of the game
  CARDS_PER_PLAYER,  \* rounds of the game
  Deck,              \* the card indices that are dealt
  Bet,               \* the stake each seat has paid
  StartCredit,       \* a seat's profile credit after paying its stake
  Multiplayer        \* a game between humans: special hands count

\* The constants are those of CardPlay, with its assumptions.

VARIABLES
  hand,     \* seat -> the cards dealt to it
  special,  \* the seats whose hand is a special combination
  status,   \* of the game row
  turn,     \* the seat to play, game.rank
  roll,     \* the round being played
  winCard,  \* the card that leads the trick
  winner,   \* the winner of the last round, then of the game
  claim,    \* the seat asked to claim or decline
  round,    \* card -> the round it was played in, 0 if in hand
  credit    \* seat -> profile credit

vars == <<hand, special, status, turn, roll, winCard, winner, claim, round, credit>>
dealt == <<hand, special>>

Seats == 0..(N - 1)
Rounds == 1..CARDS_PER_PLAYER
Owner(c) == CHOOSE s \in Seats : c \in hand[s]
Unplayed(s) == {c \in hand[s] : round[c] = 0}
Trick(r) == {c \in Deck : round[c] = r}
ThreeIn(s, r) == \E c \in hand[s] : round[c] = r /\ IsThree(c)

\* The hands that dealing the deck may give.
Deals ==
  {h \in [Seats -> SUBSET Deck] :
     /\ \A s \in Seats : Cardinality(h[s]) = CARDS_PER_PLAYER
     /\ \A c \in Deck : \E s \in Seats :
          c \in h[s] /\ \A t \in Seats \ {s} : c \notin h[t]}

\* The seat asked to claim: the only holder of the strongest combination.  The
\* strength of a hand is left open, so any holder may be that seat, and nobody
\* is asked when there is no holder or when several tie.
Askees(sp) ==
  IF sp = {} THEN {NoSeat}
  ELSE sp \union (IF Cardinality(sp) = 1 THEN {} ELSE {NoSeat})

Init ==
  /\ hand \in Deals
  /\ special \in SUBSET (IF Multiplayer THEN Seats ELSE {})
  /\ claim \in Askees(special)
  /\ status = "Active"
  /\ turn \in Seats
  /\ roll = 1
  /\ winCard = NoCard
  /\ winner = NoSeat
  /\ round = [c \in Deck |-> 0]
  /\ credit = [s \in Seats |-> StartCredit]

Settle(w, st) ==
  credit' = [s \in Seats |-> credit[s] + Bet + Payment(s, w, N, Bet * Multiplier(st))]

CanPlay(s, c) ==
  /\ status = "Active" /\ claim = NoSeat /\ turn = s
  /\ c \in Unplayed(s)
  /\ FollowsSuit(c, winCard, Unplayed(s))

\* After c every seat has a card in the round.
Completes(c) == \A s \in Seats : \E d \in hand[s] : d = c \/ round[d] = roll

\* A card that does not complete the round passes the turn.
PlayOn(s, c) ==
  /\ CanPlay(s, c) /\ ~Completes(c)
  /\ round' = [round EXCEPT ![c] = roll]
  /\ winCard' = NewWinningCard(winCard, c)
  /\ turn' = NextSeat(s, N)
  /\ UNCHANGED <<dealt, status, roll, winner, claim, credit>>

\* The last card of a round: the holder of the leading card wins it and leads
\* the next; the last round ends the game and pays the pot.
PlayLast(s, c) ==
  LET best == NewWinningCard(winCard, c)
      w == Owner(best)
      ends == roll = CARDS_PER_PLAYER
      st == FinalStatus(IsThree(best), winner, w,
                        winner = w /\ ThreeIn(w, CARDS_PER_PLAYER - 1),
                        w \in special)
  IN /\ CanPlay(s, c) /\ Completes(c)
     /\ round' = [round EXCEPT ![c] = roll]
     /\ winCard' = NoCard
     /\ winner' = w
     /\ turn' = w
     /\ roll' = roll + 1
     /\ IF ends THEN status' = st /\ Settle(w, st)
                ELSE UNCHANGED <<status, credit>>
     /\ UNCHANGED <<dealt, claim>>

\* The asked seat wins at once, by a plain victory.
Claim(s) ==
  /\ status = "Active" /\ claim = s
  /\ status' = "Finished"
  /\ winner' = s
  /\ claim' = NoSeat
  /\ Settle(s, "Finished")
  /\ UNCHANGED <<dealt, turn, roll, winCard, round>>

Decline(s) ==
  /\ status = "Active" /\ claim = s
  /\ claim' = NoSeat
  /\ UNCHANGED <<dealt, status, turn, roll, winCard, winner, round, credit>>

Next ==
  \E s \in Seats :
    \/ \E c \in hand[s] : PlayOn(s, c) \/ PlayLast(s, c)
    \/ Claim(s)
    \/ Decline(s)

Spec == Init /\ [][Next]_vars
==============================================================================
