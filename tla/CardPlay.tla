------------------------------ MODULE CardPlay -------------------------------
(***************************************************************************)
(* One active game as the engine runs it: requests are database            *)
(* transactions that interleave statement by statement under PostgreSQL's  *)
(* READ COMMITTED.  A statement sees what is committed when it runs plus    *)
(* the writes of its own transaction; a row that a transaction wrote stays *)
(* locked until it ends.  Request p plays a card (update_card_play and      *)
(* CardPlayHandler::execute), evaluates the round (evaluate_round), claims  *)
(* or declines.  The write that checks the version, what follows it and    *)
(* the commit are one action: from that write on the transaction holds the *)
(* lock of the game row, which every other writer of the game waits for.   *)
(***************************************************************************)
EXTENDS CardRules

CONSTANTS
  N,                 \* number of seats; nobody is kicked in this module
  CARDS_PER_PLAYER,  \* rounds of the game, 5 in the code
  Deck,              \* the card indices that are dealt
  Bet,               \* the stake each seat has paid
  StartCredit,       \* profile and player credit after paying the stake
  Multiplayer,       \* a game between humans: special hands count
  StepByStep,        \* rounds are evaluated by a request of their own
  Req,               \* the requests that may be in flight together
  SeatOf,            \* request -> the seat it is made for
  Evaluators,        \* the requests that may evaluate a round
  MaxRetries         \* attempts at a request that meets conflicts, 3 in the code

Seats == 0..(N - 1)
Rounds == 1..CARDS_PER_PLAYER

ASSUME NAssumption == N \in Nat \ {0, 1}
ASSUME CardsAssumption == CARDS_PER_PLAYER \in Nat \ {0}
ASSUME DeckAssumption ==
  /\ Deck \subseteq 0..31
  /\ Cardinality(Deck) = N * CARDS_PER_PLAYER
ASSUME BetAssumption == Bet \in Nat /\ StartCredit \in Int
ASSUME ModeAssumption == Multiplayer \in BOOLEAN /\ StepByStep \in BOOLEAN
ASSUME ReqAssumption == SeatOf \in [Req -> Seats] /\ Evaluators \subseteq Req
ASSUME RetryAssumption == MaxRetries \in Nat \ {0}

VARIABLES
  hand,     \* seat -> the cards dealt to it
  special,  \* the seats whose hand is a special combination
  game,     \* the game row; version is its updated_at
  round,    \* card -> the round of its game_card row, 0 while not played
  playedAt, \* card -> the played_at of that row
  purse,    \* seat -> player.credits
  credit,   \* seat -> the credit of its profile
  clock,    \* the time, one tick for each played_at
  tx        \* request -> its transaction

dealt == <<hand, special>>
rows == <<game, round, playedAt, purse, credit>>
vars == <<hand, special, game, round, playedAt, purse, credit, clock, tx>>

\* Where a request stands.  "validate" to "hold" belong to a card play, "list"
\* to "finish" to the evaluation of a round, "retry" to the pause between two
\* attempts.
Points == {"idle", "validate", "mark", "count", "advance", "hold",
           "list", "read", "finish", "claim", "retry"}

Idle == [pc |-> "idle", card |-> NoCard, round |-> 0, attempt |-> 0, stamp |-> 0,
         row |-> [version |-> 0, rank |-> 0, roll |-> 0, winCard |-> NoCard,
                  winner |-> NoSeat, claim |-> NoSeat, status |-> "Active"],
         seen |-> {}, first |-> NoCard, purse |-> [s \in Seats |-> 0]]

Deals ==
  {h \in [Seats -> SUBSET Deck] :
     /\ \A s \in Seats : Cardinality(h[s]) = CARDS_PER_PLAYER
     /\ \A c \in Deck : \E s \in Seats :
          c \in h[s] /\ \A t \in Seats \ {s} : c \notin h[t]}

\* The seat asked to claim: the only holder of the strongest combination.  The
\* strength of a hand is left open.
Askees(sp) ==
  IF sp = {} THEN {NoSeat}
  ELSE sp \union (IF Cardinality(sp) = 1 THEN {} ELSE {NoSeat})

Init ==
  /\ hand \in Deals
  /\ special \in SUBSET (IF Multiplayer THEN Seats ELSE {})
  /\ \E s \in Seats, a \in Askees(special) :
       game = [version |-> 0, rank |-> s, roll |-> 1, winCard |-> NoCard,
               winner |-> NoSeat, claim |-> a, status |-> "Active"]
  /\ round = [c \in Deck |-> 0]
  /\ playedAt = [c \in Deck |-> 0]
  /\ purse = [s \in Seats |-> StartCredit]
  /\ credit = [s \in Seats |-> StartCredit]
  /\ clock = 0
  /\ tx = [p \in Req |-> Idle]

Owner(c) == CHOOSE s \in Seats : c \in hand[s]
Unplayed(s) == {c \in hand[s] : round[c] = 0}
IsPlay(p) == tx[p].card # NoCard

\* The played cards of p's round as a statement of p sees them.
Visible(p) ==
  {c \in Deck : round[c] = tx[p].round} \union (IF IsPlay(p) THEN {tx[p].card} ELSE {})

\* Mutant of TimeOf: the transaction's own write of played_at is not seen.
TimeOfCommitted(p, c) == playedAt[c]
TimeOf(p, c) == IF c = tx[p].card THEN tx[p].stamp ELSE playedAt[c]

\* p has written its card's row and not ended yet.
HoldsCard(p) == IsPlay(p) /\ tx[p].pc \in {"count", "advance", "hold", "list", "read", "finish"}

Goto(p, l) == tx' = [tx EXCEPT ![p].pc = l]
Respond(p) == tx' = [tx EXCEPT ![p] = Idle]

\* Mutant of RoundIsComplete: one card too few is enough.
RoundIsCompleteEarly(p) == Cardinality(Visible(p)) >= N - 1

\* As many cards as seats have been played in the round.
RoundIsComplete(p) == Cardinality(Visible(p)) >= N

\* Mutant of SameVersion: the write is not guarded.
SameVersionUnguarded(p) == TRUE

\* The version guard of p's write of the game row.
SameVersion(p) == game.version = tx[p].row.version

\* Mutants of MayPlay: a finished game, or a pending claim, is not refused.
MayPlayFinished(p) == game.claim = NoSeat /\ game.rank = SeatOf[p]
MayPlayPending(p) == game.status \notin Terminal /\ game.rank = SeatOf[p]

\* The checks on the game row and on the turn.
MayPlay(p) ==
  /\ game.status \notin Terminal
  /\ game.claim = NoSeat
  /\ game.rank = SeatOf[p]
------------------------------------------------------------------------------
\* Playing a card.

BeginPlay(p, c) ==
  /\ tx[p].pc = "idle" /\ MayPlay(p)
  /\ tx' = [tx EXCEPT ![p].pc = "validate", ![p].card = c,
                      ![p].round = game.roll, ![p].row = game]
  /\ UNCHANGED <<dealt, rows, clock>>

\* The hand is read, and the card is unplayed and follows the suit of the row
\* read before.
ValidateCard(p) ==
  /\ tx[p].pc = "validate"
  /\ tx[p].card \in Unplayed(SeatOf[p])
  /\ FollowsSuit(tx[p].card, tx[p].row.winCard, Unplayed(SeatOf[p]))
  /\ Goto(p, "mark")
  /\ UNCHANGED <<dealt, rows, clock>>

RefuseCard(p) ==
  /\ tx[p].pc = "validate"
  /\ ~ /\ tx[p].card \in Unplayed(SeatOf[p])
       /\ FollowsSuit(tx[p].card, tx[p].row.winCard, Unplayed(SeatOf[p]))
  /\ Respond(p)
  /\ UNCHANGED <<dealt, rows, clock>>

\* The card's row is written by its id, whatever it holds by now, once no other
\* transaction holds it.
MarkCard(p) ==
  /\ tx[p].pc = "mark"
  /\ \A q \in Req \ {p} : HoldsCard(q) => tx[q].card # tx[p].card
  /\ clock' = clock + 1
  /\ tx' = [tx EXCEPT ![p].pc = "count", ![p].stamp = clock + 1]
  /\ UNCHANGED <<dealt, rows>>

\* Is the round complete?  It then goes on to its evaluation, or holds the turn
\* where it is in a step-by-step game.
CountRound(p) ==
  /\ tx[p].pc = "count"
  /\ Goto(p, IF ~RoundIsComplete(p) THEN "advance"
             ELSE IF StepByStep THEN "hold" ELSE "list")
  /\ UNCHANGED <<dealt, rows, clock>>

CardCommitted(p) ==
  /\ round' = [round EXCEPT ![tx[p].card] = tx[p].round]
  /\ playedAt' = [playedAt EXCEPT ![tx[p].card] = tx[p].stamp]

\* The optimistic write of the turn, and the commit.
CommitPlay(p) ==
  /\ tx[p].pc \in {"advance", "hold"}
  /\ SameVersion(p)
  /\ game' = [game EXCEPT
                !.rank = IF tx[p].pc = "hold" THEN SeatOf[p] ELSE NextSeat(SeatOf[p], N),
                !.winCard = NewWinningCard(tx[p].row.winCard, tx[p].card),
                !.version = game.version + 1]
  /\ CardCommitted(p)
  /\ Respond(p)
  /\ UNCHANGED <<dealt, purse, credit, clock>>

\* Mutant of Conflict: the same write is tried again, the row not read again.
ConflictSpins(p) ==
  /\ tx[p].pc \in {"advance", "hold", "finish"}
  /\ game.version # tx[p].row.version
  /\ UNCHANGED vars

\* The version moved: the transaction rolls back, to be tried again or given up.
Conflict(p) ==
  /\ tx[p].pc \in {"advance", "hold", "finish"}
  /\ game.version # tx[p].row.version
  /\ tx' = [tx EXCEPT ![p] =
       IF tx[p].attempt + 1 >= MaxRetries THEN Idle
       ELSE [Idle EXCEPT !.pc = "retry", !.card = tx[p].card, !.attempt = tx[p].attempt + 1]]
  /\ UNCHANGED <<dealt, rows, clock>>

\* The next attempt at a play starts over from the game row.
RetryPlay(p) ==
  /\ tx[p].pc = "retry" /\ IsPlay(p)
  /\ tx' = [tx EXCEPT ![p] =
       IF MayPlay(p) THEN [@ EXCEPT !.pc = "validate", !.round = game.roll, !.row = game]
       ELSE Idle]
  /\ UNCHANGED <<dealt, rows, clock>>
------------------------------------------------------------------------------
\* Evaluating a round, inside the play that completes it or, in a step-by-step
\* game, as a request.

BeginEvaluate(p) ==
  /\ StepByStep /\ p \in Evaluators
  /\ \/ tx[p].pc = "idle"
     \/ tx[p].pc = "retry" /\ ~IsPlay(p)
  /\ tx' = [tx EXCEPT ![p].pc = "list", ![p].round = game.roll]
  /\ UNCHANGED <<dealt, rows, clock>>

\* The played cards of the round, the earliest one first, then the players.
ListRound(p) ==
  /\ tx[p].pc = "list"
  /\ IF Visible(p) = {} THEN Respond(p)
     ELSE tx' = [tx EXCEPT
            ![p].pc = "read",
            ![p].seen = Visible(p),
            ![p].first = CHOOSE c \in Visible(p) :
                           \A d \in Visible(p) : TimeOf(p, c) <= TimeOf(p, d),
            ![p].purse = purse]
  /\ UNCHANGED <<dealt, rows, clock>>

\* The game row again: the version that guards the write is the one read here.
ReadVersion(p) ==
  /\ tx[p].pc = "read"
  /\ tx' = [tx EXCEPT ![p].pc = "finish", ![p].row = game]
  /\ UNCHANGED <<dealt, rows, clock>>

\* Every player row is written from the listing, every profile incremented.
Settle(p, w, st) ==
  LET gain(s) == Bet + Payment(s, w, N, Bet * Multiplier(st))
  IN /\ purse' = [s \in Seats |-> tx[p].purse[s] + gain(s)]
     /\ credit' = [s \in Seats |-> credit[s] + gain(s)]

\* s played a three in round r, p's own write included.
ThreeIn(p, s, r) ==
  \E c \in hand[s] :
    /\ IsThree(c)
    /\ IF c = tx[p].card THEN tx[p].round = r ELSE round[c] = r

\* The optimistic write of the result, the payment if the game ends, the commit.
CommitRound(p) ==
  LET best == TrickWinner(tx[p].first, tx[p].seen)
      w == Owner(best)
      before == tx[p].row.winner
      ends == tx[p].round + 1 > CARDS_PER_PLAYER
      st == FinalStatus(IsThree(best), before, w,
                        before = w /\ ThreeIn(p, w, CARDS_PER_PLAYER - 1),
                        w \in special)
  IN /\ tx[p].pc = "finish"
     /\ SameVersion(p)
     /\ game' = [game EXCEPT !.winner = w, !.rank = w, !.roll = tx[p].round + 1,
                             !.winCard = NoCard, !.version = game.version + 1,
                             !.status = IF ends THEN st ELSE game.status]
     /\ IF IsPlay(p) THEN CardCommitted(p) ELSE UNCHANGED <<round, playedAt>>
     /\ IF ends THEN Settle(p, w, st) ELSE UNCHANGED <<purse, credit>>
     /\ Respond(p)
     /\ UNCHANGED <<dealt, clock>>
------------------------------------------------------------------------------
\* Special-card claims.

BeginClaim(p) ==
  /\ tx[p].pc = "idle"
  /\ game.status \notin Terminal
  /\ game.claim = SeatOf[p] /\ SeatOf[p] \in special
  /\ tx' = [tx EXCEPT ![p].pc = "claim", ![p].purse = purse]
  /\ UNCHANGED <<dealt, rows, clock>>

\* Mutant of ClaimStands: the claim is granted on what was read before.
ClaimStandsOnRead(p) == TRUE

\* The condition of the claim's write of the game row.
ClaimStands(p) == game.status = "Active"

\* Compare-and-set on the active status, then the payment and the commit.
CommitClaim(p) ==
  /\ tx[p].pc = "claim" /\ ClaimStands(p)
  /\ game' = [game EXCEPT !.status = "Finished", !.winner = SeatOf[p],
                          !.claim = NoSeat, !.version = game.version + 1]
  /\ Settle(p, SeatOf[p], "Finished")
  /\ Respond(p)
  /\ UNCHANGED <<dealt, round, playedAt, clock>>

ClaimRefused(p) ==
  /\ tx[p].pc = "claim" /\ ~ClaimStands(p)
  /\ Respond(p)
  /\ UNCHANGED <<dealt, rows, clock>>

\* One conditional statement; the version is left alone.
Decline(p) ==
  /\ tx[p].pc = "idle" /\ game.claim = SeatOf[p]
  /\ game' = [game EXCEPT !.claim = NoSeat]
  /\ UNCHANGED <<dealt, round, playedAt, purse, credit, clock, tx>>
------------------------------------------------------------------------------
\* What a request in flight does next.
Step(p) ==
  /\ tx[p].pc # "idle"
  /\ \/ ValidateCard(p) \/ RefuseCard(p) \/ MarkCard(p) \/ CountRound(p)
     \/ CommitPlay(p) \/ Conflict(p)
     \/ tx[p].pc = "retry" /\ (RetryPlay(p) \/ BeginEvaluate(p))
     \/ ListRound(p) \/ ReadVersion(p) \/ CommitRound(p)
     \/ CommitClaim(p) \/ ClaimRefused(p)

\* What a client or a bot asks for.  Each endpoint first makes sure that the
\* seat is the caller's own: SeatOf.
AskPlay(p) == \E c \in hand[SeatOf[p]] : BeginPlay(p, c)
AskEvaluate(p) == tx[p].pc = "idle" /\ BeginEvaluate(p)
AskClaim(p) == BeginClaim(p) \/ Decline(p)
Ask(p) == tx[p].pc = "idle" /\ (AskPlay(p) \/ AskEvaluate(p) \/ AskClaim(p))

Next == \E p \in Req : Step(p) \/ Ask(p)

Spec == Init /\ [][Next]_vars

\* A transaction in flight is executed to its end.
FairSpec == Spec /\ \A p \in Req : WF_vars(Step(p))
------------------------------------------------------------------------------
\* Properties.

Row == [version : Nat, rank : Seats, roll : 1..(CARDS_PER_PLAYER + 1),
        winCard : Deck \union {NoCard}, winner : Seats \union {NoSeat},
        claim : Seats \union {NoSeat}, status : Status]

Tx == [pc : Points, card : Deck \union {NoCard}, round : 0..(CARDS_PER_PLAYER + 1),
       attempt : 0..(MaxRetries - 1), stamp : Nat, row : Row \union {Idle.row},
       seen : SUBSET Deck, first : Deck \union {NoCard}, purse : [Seats -> Int]]

TypeOK ==
  /\ hand \in [Seats -> SUBSET Deck]
  /\ special \subseteq Seats
  /\ game \in Row
  /\ round \in [Deck -> 0..CARDS_PER_PLAYER]
  /\ playedAt \in [Deck -> Nat]
  /\ purse \in [Seats -> Int] /\ credit \in [Seats -> Int]
  /\ clock \in Nat
  /\ tx \in [Req -> Tx]

\* What seat s has won or lost, its stake given back, by the state of the game row.
Due(s) ==
  IF game.status = "Active" THEN 0
  ELSE Bet + Payment(s, game.winner, N, Bet * Multiplier(game.status))

\* The pot is paid once, by the final status and to the final winner: the game
\* row, the player rows and the profiles always agree.
SettledOnce ==
  \A s \in Seats : credit[s] = StartCredit + Due(s) /\ purse[s] = StartCredit + Due(s)

\* The version check loses no turn: a play that does not end its round is
\* committed only on the turn, in the round and on the leading card it was
\* validated for.
TurnKept(p) ==
  tx[p].pc \in {"advance", "hold"} /\ tx'[p].pc = "idle" /\ game' # game =>
    /\ game.rank = SeatOf[p] /\ game.status = "Active"
    /\ game.roll = tx[p].round /\ game'.roll = game.roll
    /\ game.winCard = tx[p].row.winCard
NoLostTurn == [][\A p \in Req : TurnKept(p)]_vars

\* "only one claim can win, a concurrent finish affects 0 rows" (repositories/
\* game.rs): a claim is granted only in a game nobody was paid for, and pays the
\* pot by the final status and winner.
PaidByClaim(p) ==
  tx[p].pc = "claim" /\ tx'[p].pc = "idle" /\ game' # game =>
    \A s \in Seats :
      /\ credit[s] = StartCredit /\ credit'[s] = StartCredit + Due(s)'
      /\ purse[s] = StartCredit /\ purse'[s] = StartCredit + Due(s)'
OneClaimWins == [][\A p \in Req : PaidByClaim(p)]_vars

\* Every request is answered: no retry goes on for ever and no transaction waits
\* for ever for a row.
RequestAnswered == \A p \in Req : tx[p].pc # "idle" ~> tx[p].pc = "idle"

\* Clients and bots keep asking until the game is over, and now and then for a
\* card that may be played, as a bot always does (strategy.rs).
Playable(s) ==
  {c \in Unplayed(s) : FollowsSuit(c, game.winCard, Unplayed(s))}
AskBot(p) == \E c \in Playable(SeatOf[p]) : BeginPlay(p, c)
KeepPlaying == \A p \in Req : SF_vars(AskBot(p)) /\ WF_vars(AskClaim(p))

\* The game never gets stuck: whoever's turn it is has a card the engine takes.
GameEnds == <>(game.status # "Active")

Engine == INSTANCE TrickGame WITH
  status <- game.status, turn <- game.rank, roll <- game.roll,
  winCard <- game.winCard, winner <- game.winner, claim <- game.claim
ImplementsTrickGame == Engine!Spec
==============================================================================
