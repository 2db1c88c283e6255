--------------------------- MODULE CardPlayProofs ----------------------------
(***************************************************************************)
(* Theorems about CardPlay for every number of seats, rounds and requests:  *)
(* its types, what interleaved requests cannot break, and that a game with  *)
(* one request in flight per seat is paid exactly once and is a game of     *)
(* TrickGame.                                                               *)
(***************************************************************************)
EXTENDS CardPlay, FiniteSetTheorems, WellFoundedInduction, TLAPS

USE NAssumption, CardsAssumption, DeckAssumption, BetAssumption, ModeAssumption,
    ReqAssumption, RetryAssumption
------------------------------------------------------------------------------
\* The rules.

\* The seat after a seat is a seat: the turn of turn_order.rs stays in the game.
LEMMA NextSeatIsSeat == \A s \in Seats : NextSeat(s, N) \in Seats
  BY DEF Seats, NextSeat

\* A card has a suit and a rank that are small numbers.
LEMMA RankRange == \A c \in Deck : Rank(c) \in 0..7 /\ Suit(c) \in 0..3 /\ c \in Nat
  BY DEF Rank, Suit

\* A final status pays one, two or four bets.
LEMMA MultiplierRange == \A st \in Status : Multiplier(st) \in {1, 2, 4}
  BY DEF Status, Terminal, Multiplier

\* What a seat gains is a number.
LEMMA GainIsInt ==
  ASSUME NEW s \in Seats, NEW w, NEW st \in Status
  PROVE  Bet + Payment(s, w, N, Bet * Multiplier(st)) \in Int
<1>1. Multiplier(st) \in Int
  BY MultiplierRange
<1>2. Bet * Multiplier(st) \in Int
  BY <1>1
<1>3. \A b \in Int : b * (N - 1) \in Int /\ -b \in Int
  OBVIOUS
<1>4. QED
  BY <1>2, <1>3 DEF Payment

\* Among some numbers one is the least.
LEMMA LeastOf == ASSUME NEW T \in SUBSET Nat, T # {} PROVE \E n \in T : \A m \in T : n <= m
<1>1. PICK n \in T : \A m \in T : ~ (<<m, n>> \in OpToRel(<, Nat))
  BY WFMin, NatLessThanWellFounded
<1>2. \A m \in T : ~ (m < n)
  BY <1>1 DEF OpToRel
<1>3. QED
  BY <1>2

\* A trick that holds its first card has a winner, and the winner is one of its
\* cards: the highest of the first card's suit.
LEMMA TrickHasWinner ==
  ASSUME NEW trick \in SUBSET Deck, NEW first \in trick
  PROVE  /\ TrickWinner(first, trick) \in trick
         /\ SameSuit(TrickWinner(first, trick), first)
         /\ \A d \in trick : SameSuit(d, first) => Rank(d) <= Rank(TrickWinner(first, trick))
<1> DEFINE Followers == {c \in trick : SameSuit(c, first)}
           T == {7 - Rank(c) : c \in Followers}
<1>1. first \in Followers
  BY DEF SameSuit
<1>2. \A c \in Followers : Rank(c) \in 0..7
  BY RankRange
<1>3. T \subseteq Nat /\ T # {}
  BY <1>1, <1>2
<1>4. PICK n \in T : \A m \in T : n <= m
  BY <1>3, LeastOf
<1>5. PICK c \in Followers : n = 7 - Rank(c)
  BY <1>4
<1>6. \A d \in Followers : Rank(d) <= Rank(c)
  <2>1. \A d \in Followers : 7 - Rank(c) <= 7 - Rank(d)
    BY <1>4, <1>5
  <2>2. QED
    BY <2>1, <1>2, <1>5
<1>7. \E b \in trick : /\ SameSuit(b, first)
                       /\ \A d \in trick : SameSuit(d, first) => Rank(d) <= Rank(b)
  BY <1>5, <1>6
<1>8. QED
  BY <1>7 DEF TrickWinner
------------------------------------------------------------------------------
\* What every request relies on, in every mode and with any number of requests
\* for the same seat.

\* The points of a card play up to its write of the game row.
PlayPoints == {"validate", "mark", "count", "advance", "hold"}

EveryCardDealt == \A c \in Deck : \E s \in Seats : c \in hand[s]

RollInGame == game.status = "Active" => game.roll \in Rounds

\* A play in flight has its card and the round it was read in.
PlayHasCard(p) ==
  /\ tx[p].pc \in PlayPoints => tx[p].card \in Deck
  /\ tx[p].card \in Deck /\ tx[p].pc # "retry" => tx[p].round \in Rounds
  /\ tx[p].pc \in {"idle", "claim"} => tx[p].card = NoCard

\* An evaluation in flight has a round, then a trick that holds its first card.
EvaluationHasTrick(p) ==
  /\ tx[p].pc \in {"list", "read", "finish"} => tx[p].round >= 1
  /\ tx[p].pc \in {"read", "finish"} => tx[p].first \in tx[p].seen /\ tx[p].round \in Rounds

\* What a play read of the game row is the row of a turn of its seat, and still
\* is the row where the version has not moved.
PlayReadTurn(p) ==
  tx[p].pc \in PlayPoints =>
    /\ tx[p].row \in Row
    /\ tx[p].row.rank = SeatOf[p] /\ tx[p].row.status = "Active"
    /\ tx[p].row.roll = tx[p].round
    /\ tx[p].row.version <= game.version
    /\ tx[p].row.version = game.version =>
         /\ game.rank = SeatOf[p] /\ game.status = "Active"
         /\ game.roll = tx[p].round /\ game.winCard = tx[p].row.winCard

TxSound == \A p \in Req : PlayHasCard(p) /\ EvaluationHasTrick(p) /\ PlayReadTurn(p)

Inv == TypeOK /\ EveryCardDealt /\ RollInGame /\ TxSound

\* The state in which every request starts is sound.
LEMMA InitInv == Init => Inv
<1> SUFFICES ASSUME Init PROVE Inv
  OBVIOUS
<1>1. N \in Nat /\ 0 \in Seats /\ NoSeat \notin Seats
  BY DEF Seats, NoSeat
<1>2. hand \in [Seats -> SUBSET Deck] /\ EveryCardDealt
  BY DEF Init, Deals, EveryCardDealt
<1>3. special \subseteq Seats
  BY DEF Init
<1>4. game \in Row /\ game.roll = 1
  <2>1. PICK s \in Seats, a \in Askees(special) :
          game = [version |-> 0, rank |-> s, roll |-> 1, winCard |-> NoCard,
                  winner |-> NoSeat, claim |-> a, status |-> "Active"]
    BY DEF Init
  <2>2. a \in Seats \union {NoSeat}
    BY <1>3 DEF Askees
  <2>3. QED
    BY <2>1, <2>2 DEF Row, Status
<1>5. Idle \in Tx
  BY <1>1 DEF Idle, Tx, Points
<1>6. /\ round \in [Deck -> 0..CARDS_PER_PLAYER] /\ playedAt \in [Deck -> Nat]
      /\ purse \in [Seats -> Int] /\ credit \in [Seats -> Int] /\ clock \in Nat
  BY DEF Init
<1>7. tx \in [Req -> Tx] /\ \A p \in Req : tx[p] = Idle
  BY <1>5 DEF Init
<1>8. TxSound
  BY <1>7 DEF TxSound, PlayHasCard, EvaluationHasTrick, PlayReadTurn, Idle, PlayPoints, NoCard
<1>9. QED
  BY <1>2, <1>3, <1>4, <1>6, <1>7, <1>8 DEF Inv, TypeOK, RollInGame, Rounds

\* A step that moves one request and writes no row keeps the invariant if the
\* request stays sound.
LEMMA RequestMoves ==
  ASSUME Inv, NEW p \in Req, UNCHANGED <<dealt, rows>>, clock' \in Nat,
         NEW t \in Tx, tx' = [tx EXCEPT ![p] = t],
         (PlayHasCard(p) /\ EvaluationHasTrick(p) /\ PlayReadTurn(p))'
  PROVE  Inv'
<1>1. tx' \in [Req -> Tx] /\ \A q \in Req \ {p} : tx'[q] = tx[q]
  BY DEF Inv, TypeOK
<1>2. TypeOK' /\ EveryCardDealt' /\ RollInGame'
  BY <1>1 DEF Inv, TypeOK, EveryCardDealt, RollInGame, dealt, rows
<1>3. ASSUME NEW q \in Req \ {p}
      PROVE  (PlayHasCard(q) /\ EvaluationHasTrick(q) /\ PlayReadTurn(q))'
  BY <1>1, <1>3 DEF Inv, TxSound, PlayHasCard, EvaluationHasTrick, PlayReadTurn, rows
<1>4. QED
  BY <1>2, <1>3 DEF Inv, TxSound

\* A step that writes the game row moves its version on, so that what any other
\* request has read is older than the row.
LEMMA RowIsWritten ==
  ASSUME Inv, NEW p \in Req, UNCHANGED dealt, UNCHANGED clock,
         game' \in Row, game'.version = game.version + 1, RollInGame',
         round' \in [Deck -> 0..CARDS_PER_PLAYER], playedAt' \in [Deck -> Nat],
         purse' \in [Seats -> Int], credit' \in [Seats -> Int], Respond(p)
  PROVE  Inv'
<1>1. Idle \in Tx
  BY DEF Idle, Tx, Points, Seats
<1>2. tx' \in [Req -> Tx] /\ tx'[p] = Idle /\ \A q \in Req \ {p} : tx'[q] = tx[q]
  BY <1>1 DEF Inv, TypeOK, Respond
<1>3. TypeOK' /\ EveryCardDealt'
  BY <1>2 DEF Inv, TypeOK, EveryCardDealt, dealt
<1>4. (PlayHasCard(p) /\ EvaluationHasTrick(p) /\ PlayReadTurn(p))'
  BY <1>2 DEF PlayHasCard, EvaluationHasTrick, PlayReadTurn, Idle, PlayPoints, NoCard
<1>5. ASSUME NEW q \in Req \ {p}
      PROVE  (PlayHasCard(q) /\ EvaluationHasTrick(q) /\ PlayReadTurn(q))'
  <2>1. PlayHasCard(q)' /\ EvaluationHasTrick(q)'
    BY <1>2 DEF Inv, TxSound, PlayHasCard, EvaluationHasTrick
  <2>2. PlayReadTurn(q)'
    <3>1. tx[q].pc \in PlayPoints => tx[q].row.version \in Nat /\ tx[q].row.version <= game.version
      BY DEF Inv, TxSound, PlayReadTurn, Row
    <3>2. game.version \in Nat
      BY DEF Inv, TypeOK, Row
    <3>3. QED
      BY <1>2, <3>1, <3>2 DEF Inv, TxSound, PlayReadTurn
  <2>3. QED
    BY <2>1, <2>2
<1>6. QED
  BY <1>3, <1>4, <1>5 DEF Inv, TxSound
------------------------------------------------------------------------------
\* One lemma per action.  The first ones write nothing but their own request.

LEMMA BeginPlayInv ==
  ASSUME Inv, NEW p \in Req, NEW c \in hand[SeatOf[p]], BeginPlay(p, c) PROVE Inv'
<1> DEFINE t == [tx[p] EXCEPT !.pc = "validate", !.card = c, !.round = game.roll, !.row = game]
<1>1. tx[p] \in Tx /\ game \in Row /\ c \in Deck /\ game.roll \in Rounds /\ game.status = "Active"
  <2>1. game.status = "Active"
    BY DEF Inv, TypeOK, Row, BeginPlay, MayPlay, Status
  <2>2. QED
    BY <2>1 DEF Inv, TypeOK, RollInGame
<1>2. t \in Tx
  <2>1. game.roll \in 0..(CARDS_PER_PLAYER + 1) /\ game \in Row \union {Idle.row}
    BY <1>1 DEF Rounds
  <2>2. QED
    BY <1>1, <2>1 DEF Tx, Points
<1>3. tx' = [tx EXCEPT ![p] = t] /\ tx'[p] = t
  BY DEF BeginPlay, Inv, TypeOK
<1>4. /\ t.pc = "validate" /\ t.card = c /\ t.round = game.roll /\ t.row = game
  BY <1>1 DEF Tx
<1>5. (PlayHasCard(p) /\ EvaluationHasTrick(p) /\ PlayReadTurn(p))'
  <2>1. PlayHasCard(p)' /\ EvaluationHasTrick(p)'
    BY <1>1, <1>3, <1>4 DEF PlayHasCard, EvaluationHasTrick
  <2>2. game' = game /\ game.rank = SeatOf[p] /\ game.version \in Nat
    BY <1>1 DEF BeginPlay, MayPlay, rows, Row
  <2>3. tx'[p].row = game /\ tx'[p].round = game.roll
    BY <1>3, <1>4
  <2>4. PlayReadTurn(p)'
    BY <1>1, <2>2, <2>3 DEF PlayReadTurn
  <2>5. QED
    BY <2>1, <2>4
<1>6. clock' \in Nat /\ UNCHANGED <<dealt, rows>>
  BY DEF BeginPlay, Inv, TypeOK
<1>7. QED
  BY <1>2, <1>3, <1>5, <1>6, RequestMoves

\* Moving on to the next statement: the request keeps what it has read.
LEMMA GotoInv ==
  ASSUME Inv, NEW p \in Req, NEW l, UNCHANGED <<dealt, rows>>, UNCHANGED clock, Goto(p, l),
         tx[p].pc \in PlayPoints,
         l \in PlayPoints \/ l = "list"
  PROVE  Inv'
<1> DEFINE t == [tx[p] EXCEPT !.pc = l]
<1>1. tx[p] \in Tx
  BY DEF Inv, TypeOK
<1>2. t \in Tx
  BY <1>1 DEF Tx, Points, PlayPoints
<1>3. tx' = [tx EXCEPT ![p] = t] /\ tx'[p] = t
  BY DEF Goto, Inv, TypeOK
<1>4. t.pc = l /\ t.card = tx[p].card /\ t.round = tx[p].round /\ t.row = tx[p].row
  BY <1>1 DEF Tx
<1>5. (PlayHasCard(p) /\ EvaluationHasTrick(p) /\ PlayReadTurn(p))'
  BY <1>3, <1>4 DEF Inv, TxSound, PlayHasCard, EvaluationHasTrick, PlayReadTurn, rows,
     Rounds, PlayPoints
<1>6. clock' \in Nat
  BY DEF Inv, TypeOK
<1>7. QED
  BY <1>2, <1>3, <1>5, <1>6, RequestMoves

LEMMA ValidateCardInv == ASSUME Inv, NEW p \in Req, ValidateCard(p) PROVE Inv'
  BY GotoInv DEF ValidateCard, PlayPoints

LEMMA CountRoundInv == ASSUME Inv, NEW p \in Req, CountRound(p) PROVE Inv'
  BY GotoInv DEF CountRound, PlayPoints

\* The end of a request that has written nothing.
LEMMA RespondInv ==
  ASSUME Inv, NEW p \in Req, UNCHANGED <<dealt, rows>>, UNCHANGED clock, Respond(p) PROVE Inv'
<1>1. Idle \in Tx
  BY DEF Idle, Tx, Points, Seats
<1>2. tx' = [tx EXCEPT ![p] = Idle] /\ tx'[p] = Idle
  BY DEF Respond, Inv, TypeOK
<1>3. (PlayHasCard(p) /\ EvaluationHasTrick(p) /\ PlayReadTurn(p))'
  BY <1>2 DEF PlayHasCard, EvaluationHasTrick, PlayReadTurn, Idle, PlayPoints, NoCard
<1>4. clock' \in Nat
  BY DEF Inv, TypeOK
<1>5. QED
  BY <1>1, <1>2, <1>3, <1>4, RequestMoves

LEMMA RefuseCardInv == ASSUME Inv, NEW p \in Req, RefuseCard(p) PROVE Inv'
  BY RespondInv DEF RefuseCard

LEMMA ClaimRefusedInv == ASSUME Inv, NEW p \in Req, ClaimRefused(p) PROVE Inv'
  BY RespondInv DEF ClaimRefused

LEMMA MarkCardInv == ASSUME Inv, NEW p \in Req, MarkCard(p) PROVE Inv'
<1> DEFINE t == [tx[p] EXCEPT !.pc = "count", !.stamp = clock + 1]
<1>1. tx[p] \in Tx /\ clock' \in Nat /\ clock + 1 \in Nat
  BY DEF Inv, TypeOK, MarkCard
<1>2. t \in Tx
  BY <1>1 DEF Tx, Points
<1>3. tx' = [tx EXCEPT ![p] = t] /\ tx'[p] = t
  BY DEF MarkCard, Inv, TypeOK
<1>4. t.pc = "count" /\ t.card = tx[p].card /\ t.round = tx[p].round /\ t.row = tx[p].row
  BY <1>1 DEF Tx
<1>5. (PlayHasCard(p) /\ EvaluationHasTrick(p) /\ PlayReadTurn(p))'
  <2>1. tx[p].pc = "mark" /\ game' = game
    BY DEF MarkCard, rows
  <2>2. PlayHasCard(p) /\ PlayReadTurn(p)
    BY DEF Inv, TxSound
  <2>3. PlayHasCard(p)' /\ EvaluationHasTrick(p)'
    BY <1>3, <1>4, <2>1, <2>2 DEF PlayHasCard, EvaluationHasTrick, PlayPoints
  <2>4. PlayReadTurn(p)'
    BY <1>3, <1>4, <2>1, <2>2 DEF PlayReadTurn, PlayPoints
  <2>5. QED
    BY <2>3, <2>4
<1>6. UNCHANGED <<dealt, rows>>
  BY DEF MarkCard
<1>7. QED
  BY <1>1, <1>2, <1>3, <1>5, <1>6, RequestMoves

LEMMA ConflictInv == ASSUME Inv, NEW p \in Req, Conflict(p) PROVE Inv'
<1> DEFINE again == [Idle EXCEPT !.pc = "retry", !.card = tx[p].card, !.attempt = tx[p].attempt + 1]
           t == IF tx[p].attempt + 1 >= MaxRetries THEN Idle ELSE again
<1>1. tx[p] \in Tx /\ Idle \in Tx
  <2>1. tx[p] \in Tx
    BY DEF Inv, TypeOK
  <2>2. Idle \in Tx
    BY DEF Idle, Tx, Points, Seats, Inv, TypeOK
  <2>3. QED
    BY <2>1, <2>2
<1>2. t \in Tx
  <2>1. CASE tx[p].attempt + 1 >= MaxRetries
    BY <1>1, <2>1
  <2>2. CASE ~(tx[p].attempt + 1 >= MaxRetries)
    <3>1. tx[p].attempt + 1 \in 0..(MaxRetries - 1)
      BY <1>1, <2>2 DEF Tx
    <3>2. again \in Tx
      BY <1>1, <3>1 DEF Tx, Points
    <3>3. QED
      BY <2>2, <3>2
  <2>3. QED
    BY <2>1, <2>2
<1>3. tx' = [tx EXCEPT ![p] = t] /\ tx'[p] = t
  BY DEF Conflict, Inv, TypeOK
<1>4. t.pc \in {"idle", "retry"} /\ (t.pc = "idle" => t.card = NoCard)
  <2>1. Idle.pc = "idle" /\ Idle.card = NoCard /\ again.pc = "retry"
    BY DEF Idle
  <2>2. QED
    BY <2>1
<1>5. (PlayHasCard(p) /\ EvaluationHasTrick(p) /\ PlayReadTurn(p))'
  <2>. HIDE DEF t
  <2>. QED
    BY <1>3, <1>4 DEF PlayHasCard, EvaluationHasTrick, PlayReadTurn, PlayPoints, NoCard
<1>6. UNCHANGED <<dealt, rows>> /\ clock' \in Nat
  BY DEF Conflict, Inv, TypeOK
<1>7. QED
  BY <1>2, <1>3, <1>5, <1>6, RequestMoves

LEMMA RetryPlayInv == ASSUME Inv, NEW p \in Req, RetryPlay(p) PROVE Inv'
<1>. UNCHANGED <<dealt, rows>> /\ clock' \in Nat /\ clock' = clock
  BY DEF RetryPlay, Inv, TypeOK
<1>1. CASE ~MayPlay(p)
  BY <1>1, RespondInv DEF RetryPlay, Respond
<1>2. CASE MayPlay(p)
  <2>. DEFINE t == [tx[p] EXCEPT !.pc = "validate", !.round = game.roll, !.row = game]
  <2>1. tx[p] \in Tx /\ game \in Row /\ game.roll \in Rounds /\ game.status = "Active"
    <3>1. game.status = "Active"
      BY <1>2 DEF Inv, TypeOK, Row, MayPlay, Status
    <3>2. QED
      BY <3>1 DEF Inv, TypeOK, RollInGame
  <2>2. t \in Tx
    <3>1. game.roll \in 0..(CARDS_PER_PLAYER + 1) /\ game \in Row \union {Idle.row}
      BY <2>1 DEF Rounds
    <3>2. QED
      BY <2>1, <3>1 DEF Tx, Points
  <2>3. tx' = [tx EXCEPT ![p] = t] /\ tx'[p] = t
    BY <1>2 DEF RetryPlay, Inv, TypeOK
  <2>4. t.pc = "validate" /\ t.card = tx[p].card /\ t.round = game.roll /\ t.row = game
    BY <2>1 DEF Tx
  <2>5. tx[p].card \in Deck
    BY <2>1 DEF RetryPlay, IsPlay, Tx
  <2>6. tx'[p].row = game /\ tx'[p].round = game.roll /\ tx'[p].card \in Deck /\ tx'[p].pc = "validate"
    BY <2>3, <2>4, <2>5
  <2>7. game' = game /\ game.rank = SeatOf[p] /\ game.version \in Nat
    BY <1>2, <2>1 DEF MayPlay, rows, Row
  <2>8. PlayHasCard(p)' /\ EvaluationHasTrick(p)'
    BY <2>1, <2>6 DEF PlayHasCard, EvaluationHasTrick
  <2>9. PlayReadTurn(p)'
    BY <2>1, <2>6, <2>7 DEF PlayReadTurn
  <2>10. QED
    BY <2>2, <2>3, <2>8, <2>9, RequestMoves
<1>3. QED
  BY <1>1, <1>2

LEMMA BeginEvaluateInv == ASSUME Inv, NEW p \in Req, BeginEvaluate(p) PROVE Inv'
<1>. DEFINE t == [tx[p] EXCEPT !.pc = "list", !.round = game.roll]
<1>1. tx[p] \in Tx /\ game.roll \in 1..(CARDS_PER_PLAYER + 1)
  BY DEF Inv, TypeOK, Row
<1>2. t \in Tx
  <2>1. game.roll \in 0..(CARDS_PER_PLAYER + 1)
    BY <1>1
  <2>2. QED
    BY <1>1, <2>1 DEF Tx, Points
<1>3. tx' = [tx EXCEPT ![p] = t] /\ tx'[p] = t
  BY DEF BeginEvaluate, Inv, TypeOK
<1>4. t.pc = "list" /\ t.card = tx[p].card /\ t.round = game.roll
  BY <1>1 DEF Tx
<1>5. tx[p].card \notin Deck
  BY DEF BeginEvaluate, IsPlay, Inv, TxSound, PlayHasCard, NoCard
<1>6. (PlayHasCard(p) /\ EvaluationHasTrick(p) /\ PlayReadTurn(p))'
  <2>. HIDE DEF t
  <2>1. /\ tx'[p].pc = "list" /\ tx'[p].card \notin Deck
        /\ tx'[p].round \in Int /\ tx'[p].round >= 1
    BY <1>1, <1>3, <1>4, <1>5
  <2>2. QED
    BY <2>1 DEF PlayHasCard, EvaluationHasTrick, PlayReadTurn, PlayPoints
<1>7. UNCHANGED <<dealt, rows>> /\ clock' \in Nat
  BY DEF BeginEvaluate, Inv, TypeOK
<1>8. QED
  BY <1>2, <1>3, <1>6, <1>7, RequestMoves

\* The played cards that a statement of p sees belong to its round, which is one
\* of the game's if there are any, and one of them is the earliest.
LEMMA VisibleTrick ==
  ASSUME Inv, NEW p \in Req, tx[p].pc = "list", Visible(p) # {}
  PROVE  /\ Visible(p) \in SUBSET Deck
         /\ tx[p].round \in Rounds
         /\ \E c \in Visible(p) : \A d \in Visible(p) : TimeOf(p, c) <= TimeOf(p, d)
<1>1. tx[p] \in Tx
  BY DEF Inv, TypeOK
<1>2. Visible(p) \in SUBSET Deck
  BY <1>1 DEF Visible, IsPlay, Tx
<1>3. tx[p].round \in Rounds
  <2>1. PICK c \in Visible(p) : TRUE
    OBVIOUS
  <2>2. CASE round[c] = tx[p].round
    <3>1. round[c] \in 0..CARDS_PER_PLAYER
      BY <1>2, <2>1 DEF Inv, TypeOK
    <3>2. tx[p].round >= 1
      BY DEF Inv, TxSound, EvaluationHasTrick
    <3>3. QED
      BY <2>2, <3>1, <3>2 DEF Rounds
  <2>3. CASE IsPlay(p)
    <3>1. tx[p].card \in Deck
      BY <1>1, <2>3 DEF IsPlay, Tx
    <3>2. QED
      BY <3>1 DEF Inv, TxSound, PlayHasCard
  <2>4. QED
    BY <2>1, <2>2, <2>3 DEF Visible
<1>4. \A c \in Visible(p) : TimeOf(p, c) \in Nat
  BY <1>1, <1>2 DEF TimeOf, Tx, Inv, TypeOK
<1>. DEFINE T == {TimeOf(p, c) : c \in Visible(p)}
<1>5. T \in SUBSET Nat /\ T # {}
  BY <1>4
<1>6. PICK n \in T : \A m \in T : n <= m
  BY <1>5, LeastOf
<1>7. PICK c \in Visible(p) : n = TimeOf(p, c)
  BY <1>6
<1>8. \A d \in Visible(p) : TimeOf(p, c) <= TimeOf(p, d)
  BY <1>6, <1>7
<1>9. QED
  BY <1>2, <1>3, <1>7, <1>8

LEMMA ListRoundInv == ASSUME Inv, NEW p \in Req, ListRound(p) PROVE Inv'
<1>. UNCHANGED <<dealt, rows>> /\ UNCHANGED clock /\ clock' \in Nat
  BY DEF ListRound, Inv, TypeOK
<1>1. CASE Visible(p) = {}
  BY <1>1, RespondInv DEF ListRound
<1>2. CASE Visible(p) # {}
  <2>. DEFINE best == CHOOSE c \in Visible(p) : \A d \in Visible(p) : TimeOf(p, c) <= TimeOf(p, d)
              t == [tx[p] EXCEPT !.pc = "read", !.seen = Visible(p), !.first = best, !.purse = purse]
  <2>1. tx[p].pc = "list" /\ tx[p] \in Tx /\ purse \in [Seats -> Int]
    BY DEF ListRound, Inv, TypeOK
  <2>2. Visible(p) \in SUBSET Deck /\ best \in Visible(p) /\ tx[p].round \in Rounds
    BY <1>2, <2>1, VisibleTrick
  <2>. HIDE DEF best
  <2>3. t \in Tx
    <3>1. best \in Deck \union {NoCard} /\ Visible(p) \in SUBSET Deck
      BY <2>2
    <3>2. QED
      BY <2>1, <3>1 DEF Tx, Points
  <2>4. tx' = [tx EXCEPT ![p] = t] /\ tx'[p] = t
    BY <1>2, <2>1 DEF ListRound, Inv, TypeOK, best
  <2>5. /\ t.pc = "read" /\ t.card = tx[p].card /\ t.round = tx[p].round
        /\ t.first = best /\ t.seen = Visible(p)
    BY <2>1 DEF Tx
  <2>. HIDE DEF t
  <2>6. /\ tx'[p].pc = "read" /\ tx'[p].card = tx[p].card /\ tx'[p].round = tx[p].round
        /\ tx'[p].first \in tx'[p].seen /\ tx[p].round \in Rounds /\ tx[p].round >= 1
    BY <2>2, <2>4, <2>5 DEF Rounds
  <2>7. (PlayHasCard(p) /\ EvaluationHasTrick(p) /\ PlayReadTurn(p))'
    BY <2>6 DEF PlayHasCard, EvaluationHasTrick, PlayReadTurn, PlayPoints
  <2>8. QED
    BY <2>3, <2>4, <2>7, RequestMoves
<1>3. QED
  BY <1>1, <1>2

LEMMA ReadVersionInv == ASSUME Inv, NEW p \in Req, ReadVersion(p) PROVE Inv'
<1>. DEFINE t == [tx[p] EXCEPT !.pc = "finish", !.row = game]
<1>1. tx[p] \in Tx /\ game \in Row \union {Idle.row}
  BY DEF Inv, TypeOK
<1>2. t \in Tx
  BY <1>1 DEF Tx, Points
<1>3. tx' = [tx EXCEPT ![p] = t] /\ tx'[p] = t
  BY DEF ReadVersion, Inv, TypeOK
<1>4. /\ t.pc = "finish" /\ t.card = tx[p].card /\ t.round = tx[p].round
      /\ t.first = tx[p].first /\ t.seen = tx[p].seen
  BY <1>1 DEF Tx
<1>5. tx[p].pc = "read" /\ PlayHasCard(p) /\ EvaluationHasTrick(p)
  BY DEF ReadVersion, Inv, TxSound
<1>6. (PlayHasCard(p) /\ EvaluationHasTrick(p) /\ PlayReadTurn(p))'
  BY <1>3, <1>4, <1>5 DEF PlayHasCard, EvaluationHasTrick, PlayReadTurn, PlayPoints
<1>7. UNCHANGED <<dealt, rows>> /\ clock' \in Nat
  BY DEF ReadVersion, Inv, TypeOK
<1>8. QED
  BY <1>2, <1>3, <1>6, <1>7, RequestMoves

LEMMA BeginClaimInv == ASSUME Inv, NEW p \in Req, BeginClaim(p) PROVE Inv'
<1>. DEFINE t == [tx[p] EXCEPT !.pc = "claim", !.purse = purse]
<1>1. tx[p] \in Tx /\ purse \in [Seats -> Int]
  BY DEF Inv, TypeOK
<1>2. t \in Tx
  BY <1>1 DEF Tx, Points
<1>3. tx' = [tx EXCEPT ![p] = t] /\ tx'[p] = t
  BY DEF BeginClaim, Inv, TypeOK
<1>4. t.pc = "claim" /\ t.card = tx[p].card
  BY <1>1 DEF Tx
<1>5. tx[p].card = NoCard /\ NoCard \notin Deck
  BY DEF BeginClaim, Inv, TxSound, PlayHasCard, NoCard
<1>6. (PlayHasCard(p) /\ EvaluationHasTrick(p) /\ PlayReadTurn(p))'
  BY <1>3, <1>4, <1>5 DEF PlayHasCard, EvaluationHasTrick, PlayReadTurn, PlayPoints
<1>7. UNCHANGED <<dealt, rows>> /\ clock' \in Nat
  BY DEF BeginClaim, Inv, TypeOK
<1>8. QED
  BY <1>2, <1>3, <1>6, <1>7, RequestMoves
------------------------------------------------------------------------------
\* The actions that write rows.

\* The leading card after a play is a card.
LEMMA NewWinningCardIsCard ==
  ASSUME NEW w \in Deck \union {NoCard}, NEW c \in Deck
  PROVE  NewWinningCard(w, c) \in Deck \union {NoCard}
  BY DEF NewWinningCard

\* Every final status ends the game.
LEMMA FinalStatusIsTerminal ==
  ASSUME NEW isKora \in BOOLEAN, NEW before, NEW w, NEW three \in BOOLEAN, NEW sp \in BOOLEAN
  PROVE  FinalStatus(isKora, before, w, three, sp) \in Terminal
  BY DEF FinalStatus, Terminal

LEMMA CardCommittedTyped ==
  ASSUME Inv, NEW p \in Req, tx[p].card \in Deck, tx[p].round \in Rounds, CardCommitted(p)
  PROVE  round' \in [Deck -> 0..CARDS_PER_PLAYER] /\ playedAt' \in [Deck -> Nat]
<1>1. tx[p].stamp \in Nat /\ tx[p].round \in 0..CARDS_PER_PLAYER
  BY DEF Inv, TypeOK, Tx, Rounds
<1>2. QED
  BY <1>1 DEF CardCommitted, Inv, TypeOK

LEMMA CommitPlayInv == ASSUME Inv, NEW p \in Req, CommitPlay(p) PROVE Inv'
<1>1. tx[p].pc \in PlayPoints /\ SeatOf[p] \in Seats /\ game \in Row
  BY DEF CommitPlay, PlayPoints, Inv, TypeOK
<1>2. /\ tx[p].card \in Deck /\ tx[p].round \in Rounds
      /\ tx[p].row.winCard \in Deck \union {NoCard}
  <2>1. tx[p].card \in Deck
    BY <1>1 DEF Inv, TxSound, PlayHasCard
  <2>2. tx[p].round \in Rounds
    BY <1>1, <2>1 DEF Inv, TxSound, PlayHasCard, CommitPlay
  <2>3. tx[p].row \in Row
    BY <1>1 DEF Inv, TxSound, PlayReadTurn
  <2>4. QED
    BY <2>1, <2>2, <2>3 DEF Row
<1>3. game' \in Row /\ game'.version = game.version + 1 /\ RollInGame'
  <2>. DEFINE rank == IF tx[p].pc = "hold" THEN SeatOf[p] ELSE NextSeat(SeatOf[p], N)
              win == NewWinningCard(tx[p].row.winCard, tx[p].card)
  <2>1. rank \in Seats /\ win \in Deck \union {NoCard}
    BY <1>1, <1>2, NextSeatIsSeat, NewWinningCardIsCard
  <2>. HIDE DEF rank, win
  <2>2. game' = [game EXCEPT !.rank = rank, !.winCard = win, !.version = game.version + 1]
    BY DEF CommitPlay, rank, win
  <2>3. game.version + 1 \in Nat
    BY <1>1 DEF Row
  <2>4. game' \in Row
    BY <1>1, <2>1, <2>2, <2>3 DEF Row
  <2>5. game'.version = game.version + 1 /\ game'.status = game.status /\ game'.roll = game.roll
    BY <1>1, <2>2 DEF Row
  <2>6. QED
    BY <2>4, <2>5 DEF Inv, RollInGame
<1>4. round' \in [Deck -> 0..CARDS_PER_PLAYER] /\ playedAt' \in [Deck -> Nat]
  BY <1>2, CardCommittedTyped DEF CommitPlay
<1>5. purse' \in [Seats -> Int] /\ credit' \in [Seats -> Int]
  BY DEF CommitPlay, Inv, TypeOK
<1>6. QED
  BY <1>3, <1>4, <1>5, RowIsWritten DEF CommitPlay

\* What a settlement pays are numbers.
LEMMA SettleTyped ==
  ASSUME Inv, NEW p \in Req, NEW w, NEW st \in Status, Settle(p, w, st)
  PROVE  purse' \in [Seats -> Int] /\ credit' \in [Seats -> Int]
<1>. DEFINE gain(s) == Bet + Payment(s, w, N, Bet * Multiplier(st))
<1>1. \A s \in Seats : gain(s) \in Int
  BY GainIsInt
<1>2. \A s \in Seats : tx[p].purse[s] \in Int /\ credit[s] \in Int
  BY DEF Inv, TypeOK, Tx
<1>3. /\ purse' = [s \in Seats |-> tx[p].purse[s] + gain(s)]
      /\ credit' = [s \in Seats |-> credit[s] + gain(s)]
  BY DEF Settle
<1>. HIDE DEF gain
<1>4. QED
  BY <1>1, <1>2, <1>3

\* The winner of the trick that an evaluation has read is a seat.
LEMMA WinnerIsSeat ==
  ASSUME Inv, NEW p \in Req, tx[p].pc \in {"read", "finish"}
  PROVE  /\ TrickWinner(tx[p].first, tx[p].seen) \in Deck
         /\ Owner(TrickWinner(tx[p].first, tx[p].seen)) \in Seats
<1>1. tx[p].seen \in SUBSET Deck /\ tx[p].first \in tx[p].seen
  BY DEF Inv, TypeOK, Tx, TxSound, EvaluationHasTrick
<1>2. TrickWinner(tx[p].first, tx[p].seen) \in Deck
  BY <1>1, TrickHasWinner
<1>3. QED
  BY <1>2 DEF Owner, Inv, EveryCardDealt

\* What the evaluation of a round leaves in the game row.
LEMMA CommitRoundWrites ==
  ASSUME Inv, NEW p \in Req, CommitRound(p)
  PROVE  \E w \in Seats, st \in Terminal :
           LET ends == tx[p].round + 1 > CARDS_PER_PLAYER
           IN /\ game' = [game EXCEPT
                   !.winner = w, !.rank = w, !.roll = tx[p].round + 1,
                   !.winCard = NoCard, !.version = game.version + 1,
                   !.status = IF ends THEN st ELSE game.status]
              /\ IF ends THEN Settle(p, w, st) ELSE UNCHANGED <<purse, credit>>
<1>. DEFINE best == TrickWinner(tx[p].first, tx[p].seen)
            w == Owner(best)
            before == tx[p].row.winner
            three == before = w /\ ThreeIn(p, w, CARDS_PER_PLAYER - 1)
            st == FinalStatus(IsThree(best), before, w, three, w \in special)
<1>1. w \in Seats
  BY WinnerIsSeat DEF CommitRound
<1>2. st \in Terminal
  <2>1. IsThree(best) \in BOOLEAN /\ three \in BOOLEAN /\ (w \in special) \in BOOLEAN
    BY DEF IsThree, ThreeIn
  <2>2. QED
    BY <2>1, FinalStatusIsTerminal
<1>3. QED
  BY <1>1, <1>2 DEF CommitRound

LEMMA CommitRoundInv == ASSUME Inv, NEW p \in Req, CommitRound(p) PROVE Inv'
<1>. DEFINE ends == tx[p].round + 1 > CARDS_PER_PLAYER
<1>1. PICK w \in Seats, st \in Terminal :
        /\ game' = [game EXCEPT
             !.winner = w, !.rank = w, !.roll = tx[p].round + 1,
             !.winCard = NoCard, !.version = game.version + 1,
             !.status = IF ends THEN st ELSE game.status]
        /\ IF ends THEN Settle(p, w, st) ELSE UNCHANGED <<purse, credit>>
  BY CommitRoundWrites
<1>2. game \in Row /\ tx[p].round \in Rounds /\ st \in Status /\ st # "Active"
  BY DEF Inv, TypeOK, TxSound, EvaluationHasTrick, CommitRound, Terminal, Status
<1>3. game' \in Row /\ game'.version = game.version + 1 /\ RollInGame'
  <2>1. tx[p].round + 1 \in 1..(CARDS_PER_PLAYER + 1)
    BY <1>2 DEF Rounds
  <2>2. game' \in Row /\ game'.version = game.version + 1
    <3>. DEFINE status == IF ends THEN st ELSE game.status
    <3>1. /\ status \in Status /\ game.version + 1 \in Nat
          /\ w \in Seats \union {NoSeat} /\ NoCard \in Deck \union {NoCard}
      BY <1>2 DEF Row
    <3>. HIDE DEF status
    <3>2. game' = [game EXCEPT !.winner = w, !.rank = w, !.roll = tx[p].round + 1,
                     !.winCard = NoCard, !.version = game.version + 1, !.status = status]
      BY <1>1 DEF status
    <3>3. QED
      BY <1>2, <2>1, <3>1, <3>2 DEF Row
  <2>3. RollInGame'
    <3>1. game'.roll = tx[p].round + 1 /\ (ends => game'.status = st)
      BY <1>1, <1>2 DEF Row
    <3>2. QED
      BY <1>2, <3>1 DEF RollInGame, Rounds
  <2>4. QED
    BY <2>2, <2>3
<1>4. round' \in [Deck -> 0..CARDS_PER_PLAYER] /\ playedAt' \in [Deck -> Nat]
  <2>1. CASE IsPlay(p)
    <3>1. tx[p].card \in Deck
      BY <2>1 DEF IsPlay, Inv, TypeOK, Tx
    <3>2. QED
      BY <1>2, <2>1, <3>1, CardCommittedTyped DEF CommitRound
  <2>2. CASE ~IsPlay(p)
    BY <2>2 DEF CommitRound, Inv, TypeOK
  <2>3. QED
    BY <2>1, <2>2
<1>5. purse' \in [Seats -> Int] /\ credit' \in [Seats -> Int]
  BY <1>1, <1>2, SettleTyped DEF Inv, TypeOK
<1>6. QED
  BY <1>3, <1>4, <1>5, RowIsWritten DEF CommitRound

LEMMA CommitClaimInv == ASSUME Inv, NEW p \in Req, CommitClaim(p) PROVE Inv'
<1>1. game \in Row /\ SeatOf[p] \in Seats
  BY DEF Inv, TypeOK
<1>2. game' \in Row /\ game'.version = game.version + 1 /\ RollInGame'
  <2>1. /\ game.version + 1 \in Nat /\ SeatOf[p] \in Seats \union {NoSeat}
        /\ NoSeat \in Seats \union {NoSeat} /\ "Finished" \in Status
    BY <1>1 DEF Row, Status, Terminal
  <2>2. game' = [game EXCEPT !.status = "Finished", !.winner = SeatOf[p],
                             !.claim = NoSeat, !.version = game.version + 1]
    BY DEF CommitClaim
  <2>3. game' \in Row /\ game'.version = game.version + 1 /\ game'.status = "Finished"
    BY <1>1, <2>1, <2>2 DEF Row
  <2>4. QED
    BY <2>3 DEF RollInGame
<1>3. purse' \in [Seats -> Int] /\ credit' \in [Seats -> Int]
  BY SettleTyped DEF CommitClaim, Status, Terminal
<1>4. round' \in [Deck -> 0..CARDS_PER_PLAYER] /\ playedAt' \in [Deck -> Nat]
  BY DEF CommitClaim, Inv, TypeOK
<1>5. QED
  BY <1>2, <1>3, <1>4, RowIsWritten DEF CommitClaim

LEMMA DeclineInv == ASSUME Inv, NEW p \in Req, Decline(p) PROVE Inv'
<1>1. game \in Row /\ tx' = tx /\ game' = [game EXCEPT !.claim = NoSeat]
  BY DEF Inv, TypeOK, Decline
<1>2. /\ game' \in Row /\ game'.version = game.version /\ game'.rank = game.rank
      /\ game'.roll = game.roll /\ game'.winCard = game.winCard /\ game'.status = game.status
  BY <1>1 DEF Row
<1>3. TypeOK' /\ EveryCardDealt' /\ RollInGame'
  BY <1>2 DEF Inv, TypeOK, EveryCardDealt, RollInGame, Decline, dealt
<1>4. TxSound'
  BY <1>1, <1>2 DEF Inv, TxSound, PlayHasCard, EvaluationHasTrick, PlayReadTurn
<1>5. QED
  BY <1>3, <1>4 DEF Inv

LEMMA StutterInv == ASSUME Inv, UNCHANGED vars PROVE Inv'
  BY DEF Inv, TypeOK, EveryCardDealt, RollInGame, TxSound, PlayHasCard,
         EvaluationHasTrick, PlayReadTurn, vars

\* Every step of every request keeps the invariant.
LEMMA NextInv == Inv /\ [Next]_vars => Inv'
<1>. SUFFICES ASSUME Inv, [Next]_vars PROVE Inv'
  OBVIOUS
<1>1. CASE UNCHANGED vars
  BY <1>1, StutterInv
<1>2. ASSUME NEW p \in Req, Step(p) PROVE Inv'
  BY <1>2, ValidateCardInv, RefuseCardInv, MarkCardInv, CountRoundInv, CommitPlayInv,
     ConflictInv, RetryPlayInv, BeginEvaluateInv, ListRoundInv, ReadVersionInv,
     CommitRoundInv, CommitClaimInv, ClaimRefusedInv
     DEF Step
<1>3. ASSUME NEW p \in Req, Ask(p) PROVE Inv'
  BY <1>3, BeginPlayInv, BeginEvaluateInv, BeginClaimInv, DeclineInv DEF Ask, AskPlay,
     AskEvaluate, AskClaim
<1>4. QED
  BY <1>1, <1>2, <1>3 DEF Next

LEMMA InvAlways == Spec => []Inv
  BY InitInv, NextInv, PTL DEF Spec

\* Every row and every transaction keeps its shape: the turn is a seat of the game,
\* the round one of its rounds, and the winner of a trick always exists, whatever
\* the number of seats, rounds and concurrent requests.
THEOREM TypeCorrect == Spec => []TypeOK
<1>1. Inv => TypeOK
  BY DEF Inv
<1>2. QED
  BY <1>1, InvAlways, PTL
------------------------------------------------------------------------------
\* What the version check and the claim's compare-and-set guarantee however many requests
\* interleave.

\* A step moves one request at most, and only the writes of the game row change it.
LEMMA StepMovesOne ==
  ASSUME Inv, NEW p \in Req, NEW q \in Req \ {p}, Step(q) \/ Ask(q)
  PROVE  tx'[p] = tx[p]
<1>1. tx \in [Req -> Tx]
  BY DEF Inv, TypeOK
<1>2. CASE Step(q)
  BY <1>1, <1>2 DEF Step, ValidateCard, RefuseCard, MarkCard, CountRound, CommitPlay, Conflict,
       RetryPlay, BeginEvaluate, ListRound, ReadVersion, CommitRound, CommitClaim,
       ClaimRefused, Goto, Respond
<1>3. CASE Ask(q)
  BY <1>1, <1>3 DEF Ask, AskPlay, AskEvaluate, AskClaim, BeginPlay, BeginEvaluate,
     BeginClaim, Decline
<1>4. QED
  BY <1>2, <1>3

LEMMA StepKeepsTurn ==
  ASSUME Inv, NEW p \in Req, NEW q \in Req, Step(q) \/ Ask(q) PROVE TurnKept(p)
<1>1. CASE q # p
  <2>1. tx'[p] = tx[p]
    BY <1>1, StepMovesOne
  <2>2. QED
    BY <2>1 DEF TurnKept
<1>2. CASE q = p /\ CommitPlay(p)
  <2>1. tx[p].pc \in PlayPoints /\ tx[p].row.version = game.version
    BY <1>2 DEF CommitPlay, SameVersion, PlayPoints
  <2>2. PlayReadTurn(p) /\ game \in Row
    BY DEF Inv, TxSound, TypeOK
  <2>3. game'.roll = game.roll
    BY <1>2, <2>2 DEF CommitPlay, Row
  <2>4. QED
    BY <2>1, <2>2, <2>3 DEF PlayReadTurn, TurnKept
<1>3. CASE q = p /\ ~CommitPlay(p)
  <2>1. CASE tx[p].pc \notin {"advance", "hold"}
    BY <2>1 DEF TurnKept
  <2>2. CASE tx[p].pc \in {"advance", "hold"}
    <3>1. Conflict(p)
      BY <1>3, <2>2 DEF Step, Ask, AskPlay, AskEvaluate, AskClaim, ValidateCard,
         RefuseCard, MarkCard, CountRound, RetryPlay,
           BeginEvaluate, ListRound, ReadVersion, CommitRound, CommitClaim,
           ClaimRefused, BeginPlay, BeginClaim, Decline
    <3>2. game' = game
      BY <3>1 DEF Conflict, rows
    <3>3. QED
      BY <3>2 DEF TurnKept
  <2>3. QED
    BY <2>1, <2>2
<1>4. QED
  BY <1>1, <1>2, <1>3

\* Optimistic locking (optimistic_update_round_state) loses no turn, however many
\* requests are made for a seat: a play is committed only on the turn, the round
\* and the leading card it was validated for.
THEOREM TurnIsNeverLost == Spec => NoLostTurn
<1>. DEFINE Kept == \A p \in Req : TurnKept(p)
<1>1. Inv /\ [Next]_vars => [Kept]_vars
  BY StepKeepsTurn DEF Next
<1>2. QED
  <2>1. Spec => [][Kept]_vars
    BY <1>1, InvAlways, PTL DEF Spec
  <2>2. QED
    BY <2>1 DEF NoLostTurn
------------------------------------------------------------------------------
\* Claims.

\* Nobody is paid while the game is active, and a claim in flight has read the
\* players before they were paid.
Unpaid(account) == \A s \in Seats : account[s] = StartCredit
PaidInv ==
  /\ game.status = "Active" => Unpaid(credit) /\ Unpaid(purse)
  /\ \A p \in Req : tx[p].pc = "claim" => Unpaid(tx[p].purse)

LEMMA PaidInit == Init => PaidInv
  BY DEF Init, PaidInv, Unpaid, Idle

LEMMA PaidStep ==
  ASSUME Inv, PaidInv, NEW q \in Req, Step(q) \/ Ask(q) PROVE PaidInv'
<1>1. tx \in [Req -> Tx] /\ game \in Row
  BY DEF Inv, TypeOK
<1>2. ASSUME NEW p \in Req \ {q}, tx'[p].pc = "claim" PROVE Unpaid(tx'[p].purse)
  <2>1. tx'[p] = tx[p]
    BY StepMovesOne
  <2>2. QED
    BY <1>2, <2>1 DEF PaidInv
<1>3. CASE BeginClaim(q)
  <2>1. game.status = "Active" /\ UNCHANGED <<game, credit, purse>>
    BY <1>1, <1>3 DEF BeginClaim, Row, Status, rows
  <2>2. tx'[q].purse = purse
    BY <1>1, <1>3 DEF BeginClaim, Tx
  <2>3. QED
    BY <1>2, <2>1, <2>2 DEF PaidInv
<1>4. ASSUME ~BeginClaim(q) PROVE tx'[q].pc # "claim" \/ tx' = tx
  <2>1. tx[q] \in Tx /\ Idle.pc = "idle"
    BY <1>1 DEF Inv, TypeOK, Idle
  <2>2. CASE ValidateCard(q) \/ MarkCard(q) \/ CountRound(q)
    BY <1>1, <2>1, <2>2 DEF ValidateCard, MarkCard, CountRound, Goto, Tx
  <2>3. CASE RefuseCard(q) \/ CommitPlay(q) \/ CommitRound(q) \/ CommitClaim(q) \/ ClaimRefused(q)
    BY <1>1, <2>1, <2>3 DEF RefuseCard, CommitPlay, CommitRound, CommitClaim, ClaimRefused, Respond
  <2>4. CASE Conflict(q)
    BY <1>1, <2>1, <2>4 DEF Conflict, Idle
  <2>5. CASE RetryPlay(q)
    BY <1>1, <2>1, <2>5 DEF RetryPlay, Tx
  <2>6. CASE BeginEvaluate(q) \/ ReadVersion(q)
    BY <1>1, <2>1, <2>6 DEF BeginEvaluate, ReadVersion, Tx
  <2>7. CASE ListRound(q) /\ Visible(q) = {}
    BY <1>1, <2>1, <2>7 DEF ListRound, Respond
  <2>8. CASE ListRound(q) /\ Visible(q) # {}
    <3>1. PICK first : tx' = [tx EXCEPT ![q].pc = "read", ![q].seen = Visible(q),
                                ![q].first = first, ![q].purse = purse]
      BY <2>8 DEF ListRound
    <3>2. QED
      BY <1>1, <2>1, <3>1 DEF Tx
  <2>9. ASSUME NEW c \in hand[SeatOf[q]], BeginPlay(q, c) PROVE tx'[q].pc # "claim"
    BY <1>1, <2>1, <2>9 DEF BeginPlay, Tx
  <2>10. CASE Decline(q)
    BY <2>10 DEF Decline
  <2>11. QED
    BY <1>4, <2>2, <2>3, <2>4, <2>5, <2>6, <2>9, <2>10, <2>7, <2>8 DEF Step, Ask,
       AskPlay, AskEvaluate, AskClaim
<1>5. CASE CommitRound(q)
  <2>1. PICK w \in Seats, st \in Terminal :
          LET ends == tx[q].round + 1 > CARDS_PER_PLAYER
          IN /\ game' = [game EXCEPT
                  !.winner = w, !.rank = w, !.roll = tx[q].round + 1,
                  !.winCard = NoCard, !.version = game.version + 1,
                  !.status = IF ends THEN st ELSE game.status]
             /\ IF ends THEN Settle(q, w, st) ELSE UNCHANGED <<purse, credit>>
    BY <1>5, CommitRoundWrites
  <2>2. game'.status = "Active" => game.status = "Active" /\ UNCHANGED <<purse, credit>>
    BY <1>1, <2>1 DEF Row, Terminal
  <2>3. ~BeginClaim(q)
    BY <1>5 DEF CommitRound, BeginClaim
  <2>4. QED
    BY <1>2, <1>4, <2>2, <2>3 DEF PaidInv
<1>6. CASE CommitClaim(q)
  <2>1. game'.status = "Finished" /\ ~BeginClaim(q)
    BY <1>1, <1>6 DEF CommitClaim, BeginClaim, Row
  <2>2. QED
    BY <1>2, <1>4, <2>1 DEF PaidInv
<1>7. CASE ~CommitRound(q) /\ ~CommitClaim(q) /\ ~BeginClaim(q)
  <2>1. game'.status = game.status /\ UNCHANGED <<purse, credit>>
    BY <1>1, <1>7 DEF Step, Ask, AskPlay, AskEvaluate, AskClaim, ValidateCard,
       RefuseCard, MarkCard, CountRound, CommitPlay,
         Conflict, RetryPlay, BeginEvaluate, ListRound, ReadVersion, ClaimRefused,
         BeginPlay, Decline, rows, Row
  <2>2. QED
    BY <1>2, <1>4, <1>7, <2>1 DEF PaidInv
<1>8. QED
  BY <1>3, <1>5, <1>6, <1>7

\* The settlement of a claim gives every seat what the final row says it is due.
LEMMA ClaimPaysDue ==
  ASSUME Inv, PaidInv, NEW p \in Req, CommitClaim(p) PROVE PaidByClaim(p)
<1>1. game \in Row /\ game.status = "Active" /\ tx[p].pc = "claim"
  BY DEF Inv, TypeOK, CommitClaim, ClaimStands
<1>2. Unpaid(credit) /\ Unpaid(purse) /\ Unpaid(tx[p].purse)
  BY <1>1 DEF PaidInv
<1>3. game'.status = "Finished" /\ game'.winner = SeatOf[p]
  BY <1>1 DEF CommitClaim, Row
<1>4. \A s \in Seats : Due(s)' = Bet + Payment(s, SeatOf[p], N, Bet * Multiplier("Finished"))
  BY <1>3 DEF Due
<1>5. QED
  BY <1>2, <1>4 DEF PaidByClaim, CommitClaim, Settle, Unpaid

\* Of the claims and the plays of one seat, made any number of times at once, a
\* claim is granted at most once and pays the whole pot then: finish_by_claim_in_txn
\* with its condition on the active status.
THEOREM ClaimIsPaidOnce == Spec => OneClaimWins
<1>. DEFINE Paid == \A p \in Req : PaidByClaim(p)
<1>1. Inv /\ PaidInv /\ [Next]_vars => PaidInv'
  <2>1. ASSUME Inv, PaidInv, UNCHANGED vars PROVE PaidInv'
    BY <2>1 DEF PaidInv, Unpaid, vars
  <2>2. QED
    BY <2>1, PaidStep DEF Next
<1>2. Inv /\ PaidInv /\ [Next]_vars => [Paid]_vars
  <2>. SUFFICES ASSUME Inv, PaidInv, NEW q \in Req, Step(q) \/ Ask(q), NEW p \in Req,
                       tx[p].pc = "claim", tx'[p].pc = "idle", game' # game
                PROVE  PaidByClaim(p)
    BY DEF Next, PaidByClaim
  <2>1. q = p
    BY StepMovesOne
  <2>2. CommitClaim(p)
    BY <2>1 DEF Step, Ask, AskPlay, AskEvaluate, AskClaim, ValidateCard, RefuseCard,
       MarkCard, CountRound, CommitPlay,
         Conflict, RetryPlay, BeginEvaluate, ListRound, ReadVersion, CommitRound,
         ClaimRefused, BeginPlay, BeginClaim, Decline, rows
  <2>3. QED
    BY <2>2, ClaimPaysDue
<1>3. Spec => []PaidInv
  BY <1>1, PaidInit, InvAlways, PTL DEF Spec
<1>4. Spec => [][Paid]_vars
  BY <1>2, <1>3, InvAlways, PTL DEF Spec
<1>5. QED
  BY <1>4 DEF OneClaimWins
------------------------------------------------------------------------------
\* One request in flight for each seat, rounds evaluated by the play that
\* completes them.

\* The points at which a play holds the turn.
TurnPoints == PlayPoints \union {"list", "read", "finish"}

\* While a play is in flight the game row is the one it read: nobody else can
\* write it.  A claim in flight stops everything else.
OneAtATime(p) ==
  /\ tx[p].pc \notin {"hold", "retry"}
  /\ tx[p].pc \in TurnPoints =>
       /\ tx[p].row = game /\ game.rank = SeatOf[p]
       /\ game.status = "Active" /\ game.claim = NoSeat
  /\ tx[p].pc = "claim" => game.status = "Active" /\ game.claim = SeatOf[p]
  /\ tx[p].pc \in {"read", "finish", "claim"} => tx[p].purse = purse

SequentialInv == SettledOnce /\ \A p \in Req : OneAtATime(p)

\* A request is made for a seat.
LEMMA RequestHasSeat == \A p \in Req : SeatOf[p] \in Seats /\ SeatOf[p] # NoSeat
<1>1. \A p \in Req : SeatOf[p] \in Seats
  OBVIOUS
<1>2. \A s \in Seats : s # NoSeat
  BY DEF Seats, NoSeat
<1>3. QED
  BY <1>1, <1>2

\* While a request is in flight no other one can take a step.
LEMMA NobodyElse ==
  ASSUME \A p, q \in Req : SeatOf[p] = SeatOf[q] => p = q,
         ~StepByStep, Inv, SequentialInv,
         NEW p \in Req, NEW q \in Req \ {p}, Step(q) \/ Ask(q)
  PROVE  tx[p].pc = "idle"
<1>. SUFFICES ASSUME tx[p].pc # "idle" PROVE FALSE
  OBVIOUS
<1>1. tx[p] \in Tx /\ tx[q] \in Tx /\ SeatOf[p] # SeatOf[q]
  BY DEF Inv, TypeOK
<1>2. SeatOf[p] # NoSeat /\ SeatOf[q] # NoSeat
  BY RequestHasSeat
<1>3. OneAtATime(p) /\ OneAtATime(q)
  BY DEF SequentialInv
<1>4. \A r \in {p, q} : tx[r].pc \in TurnPoints \union {"idle", "claim"}
  BY <1>1, <1>3 DEF Tx, Points, TurnPoints, PlayPoints, OneAtATime
<1>5. tx[q].pc = "idle"
  BY <1>1, <1>2, <1>3, <1>4 DEF OneAtATime
<1>6. (\E c \in hand[SeatOf[q]] : BeginPlay(q, c)) \/ BeginClaim(q) \/ Decline(q)
  BY <1>5 DEF Step, Ask, AskPlay, AskEvaluate, AskClaim, ValidateCard, RefuseCard,
     MarkCard, CountRound, CommitPlay, Conflict,
       RetryPlay, BeginEvaluate, ListRound, ReadVersion, CommitRound, CommitClaim, ClaimRefused
<1>7. QED
  BY <1>1, <1>2, <1>3, <1>4, <1>6 DEF OneAtATime, Decline, BeginClaim, BeginPlay, MayPlay

LEMMA SequentialInit == Init => SequentialInv
<1>. SUFFICES ASSUME Init PROVE SequentialInv
  OBVIOUS
<1>1. \A p \in Req : OneAtATime(p)
  BY DEF Init, OneAtATime, Idle, TurnPoints, PlayPoints
<1>2. game.status = "Active"
  BY DEF Init
<1>3. \A s \in Seats : credit[s] = StartCredit /\ purse[s] = StartCredit
  BY DEF Init
<1>4. SettledOnce
  BY <1>2, <1>3 DEF SettledOnce, Due
<1>5. QED
  BY <1>1, <1>4 DEF SequentialInv

\* The settlement of a game that nobody was paid for, written from the players as
\* they are, leaves every account at what the final row says is due.
LEMMA SettlePaysDue ==
  ASSUME Inv, SettledOnce, NEW p \in Req, NEW w \in Seats, NEW st \in Terminal,
         game.status = "Active", tx[p].purse = purse, Settle(p, w, st),
         game'.status = st, game'.winner = w
  PROVE  SettledOnce'
<1>. DEFINE gain(s) == Bet + Payment(s, w, N, Bet * Multiplier(st))
<1>1. \A s \in Seats : credit[s] = StartCredit /\ purse[s] = StartCredit
  BY DEF SettledOnce, Due
<1>2. \A s \in Seats : credit'[s] = StartCredit + gain(s) /\ purse'[s] = StartCredit + gain(s)
  BY <1>1 DEF Settle
<1>3. \A s \in Seats : Due(s)' = gain(s)
  BY DEF Due, Terminal
<1>4. QED
  BY <1>2, <1>3 DEF SettledOnce

\* The step of the one request in flight keeps the game settled once.
LEMMA SequentialStep ==
  ASSUME \A p, q \in Req : SeatOf[p] = SeatOf[q] => p = q,
         ~StepByStep, Inv, SequentialInv, NEW p \in Req, Step(p) \/ Ask(p)
  PROVE  SequentialInv'
<1>1. tx \in [Req -> Tx] /\ tx[p] \in Tx /\ game \in Row /\ Idle.pc = "idle"
  BY DEF Inv, TypeOK, Idle
<1>2. OneAtATime(p) /\ SettledOnce
  BY DEF SequentialInv
<1>3. ASSUME NEW q \in Req \ {p} PROVE OneAtATime(q)'
  <2>1. tx'[q] = tx[q] /\ tx[q].pc = "idle"
    BY StepMovesOne, NobodyElse
  <2>2. QED
    BY <2>1 DEF OneAtATime, TurnPoints, PlayPoints
<1>4. SUFFICES OneAtATime(p)' /\ SettledOnce'
  BY <1>3 DEF SequentialInv
<1>5. ASSUME tx'[p] = Idle PROVE OneAtATime(p)'
  BY <1>1, <1>5 DEF OneAtATime, TurnPoints, PlayPoints
<1>6. ASSUME UNCHANGED rows PROVE SettledOnce'
  BY <1>2, <1>6 DEF rows, SettledOnce, Due
<1>7. ASSUME NEW c \in hand[SeatOf[p]], BeginPlay(p, c) PROVE OneAtATime(p)' /\ SettledOnce'
  <2>1. /\ tx'[p].pc = "validate" /\ tx'[p].row = game /\ UNCHANGED rows
        /\ game.rank = SeatOf[p] /\ game.claim = NoSeat /\ game.status = "Active"
    BY <1>1, <1>7 DEF BeginPlay, MayPlay, Tx, Row, Status
  <2>2. QED
    BY <1>6, <2>1 DEF OneAtATime, TurnPoints, PlayPoints, rows
<1>8. CASE ValidateCard(p) \/ MarkCard(p) \/ CountRound(p)
  <2>1. tx[p].pc \in {"validate", "mark", "count"} /\ UNCHANGED rows
    BY <1>8 DEF ValidateCard, MarkCard, CountRound
  <2>2. tx'[p].row = tx[p].row /\ tx'[p].pc \in {"mark", "count", "advance", "list"}
    BY <1>1, <1>8 DEF ValidateCard, MarkCard, CountRound, Goto, Tx
  <2>3. QED
    BY <1>2, <1>6, <2>1, <2>2 DEF OneAtATime, TurnPoints, PlayPoints, rows
<1>9. CASE RefuseCard(p) \/ ClaimRefused(p)
  BY <1>1, <1>5, <1>6, <1>9 DEF RefuseCard, ClaimRefused, Respond
<1>10. CASE CommitPlay(p)
  <2>1. UNCHANGED <<purse, credit>> /\ game'.status = "Active" /\ game.status = "Active"
    BY <1>1, <1>2, <1>10 DEF CommitPlay, OneAtATime, TurnPoints, PlayPoints, Row
  <2>2. QED
    BY <1>1, <1>2, <1>5, <1>10, <2>1 DEF CommitPlay, Respond, SettledOnce, Due
<1>11. ~Conflict(p) /\ ~RetryPlay(p) /\ ~BeginEvaluate(p)
  BY <1>2 DEF OneAtATime, Conflict, RetryPlay, BeginEvaluate, TurnPoints, PlayPoints
<1>12. CASE ListRound(p) /\ Visible(p) = {}
  BY <1>1, <1>5, <1>6, <1>12 DEF ListRound, Respond
<1>13. CASE ListRound(p) /\ Visible(p) # {}
  <2>1. PICK first : tx' = [tx EXCEPT ![p].pc = "read", ![p].seen = Visible(p),
                              ![p].first = first, ![p].purse = purse]
    BY <1>13 DEF ListRound
  <2>2. /\ tx'[p].pc = "read" /\ tx'[p].row = tx[p].row /\ tx'[p].purse = purse
        /\ tx[p].pc = "list" /\ UNCHANGED rows
    BY <1>1, <1>13, <2>1 DEF ListRound, Tx
  <2>3. QED
    BY <1>2, <1>6, <2>2 DEF OneAtATime, TurnPoints, PlayPoints, rows
<1>14. CASE ReadVersion(p)
  <2>1. /\ tx'[p].pc = "finish" /\ tx'[p].row = game /\ tx'[p].purse = tx[p].purse
        /\ tx[p].pc = "read" /\ UNCHANGED rows
    BY <1>1, <1>14 DEF ReadVersion, Tx
  <2>2. QED
    BY <1>2, <1>6, <2>1 DEF OneAtATime, TurnPoints, PlayPoints, rows
<1>15. CASE CommitRound(p)
  <2>1. PICK w \in Seats, st \in Terminal :
          LET ends == tx[p].round + 1 > CARDS_PER_PLAYER
          IN /\ game' = [game EXCEPT
                  !.winner = w, !.rank = w, !.roll = tx[p].round + 1,
                  !.winCard = NoCard, !.version = game.version + 1,
                  !.status = IF ends THEN st ELSE game.status]
             /\ IF ends THEN Settle(p, w, st) ELSE UNCHANGED <<purse, credit>>
    BY <1>15, CommitRoundWrites
  <2>2. tx'[p] = Idle /\ tx[p].pc = "finish"
    BY <1>1, <1>15 DEF CommitRound, Respond
  <2>3. game.status = "Active" /\ tx[p].purse = purse
    BY <1>2, <2>2 DEF OneAtATime, TurnPoints
  <2>4. CASE tx[p].round + 1 > CARDS_PER_PLAYER
    <3>1. game'.status = st /\ game'.winner = w /\ Settle(p, w, st)
      BY <1>1, <2>1, <2>4 DEF Row
    <3>2. QED
      BY <1>2, <1>5, <2>2, <2>3, <3>1, SettlePaysDue
  <2>5. CASE ~(tx[p].round + 1 > CARDS_PER_PLAYER)
    <3>1. game'.status = "Active" /\ UNCHANGED <<purse, credit>>
      BY <1>1, <2>1, <2>3, <2>5 DEF Row
    <3>2. QED
      BY <1>2, <1>5, <2>2, <2>3, <3>1 DEF SettledOnce, Due
  <2>6. QED
    BY <2>4, <2>5
<1>16. CASE BeginClaim(p)
  <2>1. /\ tx'[p].pc = "claim" /\ tx'[p].purse = purse /\ UNCHANGED rows
        /\ game.status = "Active" /\ game.claim = SeatOf[p]
    BY <1>1, <1>16 DEF BeginClaim, Tx, Row, Status
  <2>2. QED
    BY <1>6, <2>1 DEF OneAtATime, TurnPoints, PlayPoints, rows
<1>17. CASE CommitClaim(p)
  <2>1. tx'[p] = Idle /\ tx[p].purse = purse /\ game.status = "Active"
    BY <1>1, <1>2, <1>17 DEF CommitClaim, Respond, OneAtATime
  <2>2. game'.status = "Finished" /\ game'.winner = SeatOf[p] /\ Settle(p, SeatOf[p], "Finished")
    BY <1>1, <1>17 DEF CommitClaim, Row
  <2>3. SeatOf[p] \in Seats /\ "Finished" \in Terminal
    BY RequestHasSeat DEF Terminal
  <2>4. QED
    BY <1>2, <1>5, <2>1, <2>2, <2>3, SettlePaysDue
<1>18. CASE Decline(p)
  <2>1. tx' = tx /\ tx[p].pc = "idle" /\ UNCHANGED <<purse, credit>>
    BY <1>18 DEF Decline
  <2>2. game'.status = game.status /\ game'.winner = game.winner
    BY <1>1, <1>18 DEF Decline, Row
  <2>3. QED
    BY <1>2, <2>1, <2>2 DEF OneAtATime, TurnPoints, PlayPoints, SettledOnce, Due
<1>19. QED
  BY <1>7, <1>8, <1>9, <1>10, <1>11, <1>12, <1>13, <1>14, <1>15, <1>16, <1>17, <1>18
     DEF Step, Ask, AskPlay, AskEvaluate, AskClaim

\* With one request in flight for each seat, and rounds evaluated by the play that
\* completes them, a game of any size pays its pot exactly once: the game row, the
\* player rows and the profiles agree at every moment (process_payment_in_txn).
\* Two requests of one seat may pay it twice: CardPlayDupPaid.
THEOREM SequentialGameIsSettledOnce ==
  ASSUME \A p, q \in Req : SeatOf[p] = SeatOf[q] => p = q, ~StepByStep
  PROVE  Spec => []SettledOnce
<1>1. Inv /\ SequentialInv /\ [Next]_vars => SequentialInv'
  <2>1. ASSUME SequentialInv, UNCHANGED vars PROVE SequentialInv'
    BY <2>1 DEF SequentialInv, SettledOnce, Due, OneAtATime, vars
  <2>2. QED
    BY <2>1, SequentialStep DEF Next
<1>2. SequentialInv => SettledOnce
  BY DEF SequentialInv
<1>3. QED
  BY <1>1, <1>2, SequentialInit, InvAlways, PTL DEF Spec
------------------------------------------------------------------------------
\* Such a game is the game of TrickGame, every request atomic.

\* The cards of the round being played, and the seats that have played in it.
Table == {c \in Deck : round[c] = game.roll}
Played(s) == \E c \in hand[s] : round[c] = game.roll

\* The seats from a up to b, in the order of the turn.
Ahead(a, b) == IF b >= a THEN b - a ELSE b - a + N

\* They have played in turn from the one that led up to the one whose turn it is,
InTurn ==
  \E lead \in Seats : \A s \in Seats : Played(s) <=> Ahead(lead, s) < Ahead(lead, game.rank)
\* a card each,
OneEach ==
  \A s \in Seats : \A c, d \in hand[s] : round[c] = game.roll /\ round[d] = game.roll => c = d
\* and the leading card in the game row is the highest of the suit played first.
Takes(w, f, T) == w \in T /\ SameSuit(w, f) /\ \A d \in T : SameSuit(d, f) => Rank(d) <= Rank(w)
PlayedFirst(f) == f \in Table /\ \A d \in Table \ {f} : playedAt[f] < playedAt[d]
Leads ==
  IF Table = {} THEN game.winCard = NoCard
  ELSE \E f \in Table : PlayedFirst(f) /\ Takes(game.winCard, f, Table)

RoundInv == /\ game.roll = 1 => game.winner = NoSeat
            /\ \A c \in Deck : round[c] <= game.roll
            /\ InTurn /\ OneEach /\ Leads

TableInv ==
  /\ hand \in Deals
  /\ \A c \in Deck : playedAt[c] <= clock
  /\ game.status # "Active" => game.claim = NoSeat
  /\ game.status = "Active" => RoundInv

\* A card that was found allowed still is when it is written, its time is after all
\* others, and what the play has counted and listed is still there.
Checked == {"mark", "count", "advance", "list", "read", "finish"}
Flight(p) ==
  /\ tx[p].pc \in Checked \union {"validate"} => tx[p].round = game.roll
  /\ tx[p].pc \in Checked =>
       /\ tx[p].card \in Unplayed(SeatOf[p])
       /\ FollowsSuit(tx[p].card, game.winCard, Unplayed(SeatOf[p]))
  /\ tx[p].pc \in Checked \ {"mark"} =>
       tx[p].stamp <= clock /\ \A d \in Deck : playedAt[d] < tx[p].stamp
  /\ tx[p].pc = "advance" => ~RoundIsComplete(p)
  /\ tx[p].pc \in {"list", "read", "finish"} => RoundIsComplete(p)
  /\ tx[p].pc \in {"read", "finish"} =>
       /\ tx[p].seen = Visible(p) /\ tx[p].first \in Visible(p)
       /\ \A d \in Visible(p) : TimeOf(p, tx[p].first) <= TimeOf(p, d)

TrickInv == TableInv /\ \A p \in Req : Flight(p)

\* Each card is in one hand.
LEMMA CardHasOwner ==
  ASSUME hand \in Deals, NEW c \in Deck
  PROVE  /\ Owner(c) \in Seats /\ c \in hand[Owner(c)]
         /\ \A s \in Seats : c \in hand[s] => s = Owner(c)
<1>1. PICK s \in Seats : c \in hand[s] /\ \A t \in Seats \ {s} : c \notin hand[t]
  BY DEF Deals
<1>2. \A t \in Seats : c \in hand[t] <=> t = s
  BY <1>1
<1>3. Owner(c) = s
  BY <1>2 DEF Owner
<1>4. QED
  BY <1>2, <1>3

LEMMA HandInDeck == hand \in Deals => \A s \in Seats : hand[s] \subseteq Deck
  BY DEF Deals

\* Going round the table.
LEMMA AheadOfNext ==
  ASSUME NEW a \in Seats, NEW b \in Seats
  PROVE  /\ Ahead(a, b) \in 0..(N - 1) /\ Ahead(a, a) = 0
         /\ \A s \in Seats : Ahead(a, s) = Ahead(a, b) => s = b
         /\ Ahead(a, b) # N - 1 => Ahead(a, NextSeat(b, N)) = Ahead(a, b) + 1
<1>1. a \in 0..(N - 1) /\ b \in 0..(N - 1) /\ N \in Nat /\ N > 1
  BY NAssumption DEF Seats
<1>2. NextSeat(b, N) = IF b + 1 = N THEN 0 ELSE b + 1
  BY <1>1 DEF NextSeat
<1>3. QED
  BY <1>1, <1>2 DEF Ahead, Seats

\* A card is known by its suit and its rank.
LEMMA CardKnown ==
  ASSUME NEW c \in Deck, NEW d \in Deck, Suit(c) = Suit(d), Rank(c) = Rank(d)
  PROVE  c = d
<1>1. c \in Nat /\ d \in Nat
  BY RankRange
<1>2. c = 8 * Suit(c) + Rank(c) /\ d = 8 * Suit(d) + Rank(d)
  BY <1>1 DEF Suit, Rank
<1>3. QED
  BY <1>2

\* The winner that an evaluation finds is the card that takes the trick.
LEMMA TakerWins ==
  ASSUME NEW T \in SUBSET Deck, NEW f \in T, NEW w, Takes(w, f, T)
  PROVE  TrickWinner(f, T) = w
<1> DEFINE v == TrickWinner(f, T)
<1>1. v \in T /\ SameSuit(v, f) /\ \A d \in T : SameSuit(d, f) => Rank(d) <= Rank(v)
  BY TrickHasWinner
<1>2. w \in T /\ SameSuit(w, f) /\ \A d \in T : SameSuit(d, f) => Rank(d) <= Rank(w)
  BY DEF Takes
<1> HIDE DEF v
<1>3. Rank(v) <= Rank(w) /\ Rank(w) <= Rank(v) /\ Rank(v) \in Int /\ Rank(w) \in Int
  BY <1>1, <1>2, RankRange
<1>4. Suit(v) = Suit(w)
  BY <1>1, <1>2 DEF SameSuit
<1>5. v = w
  BY <1>1, <1>2, <1>3, <1>4, CardKnown
<1>6. QED
  BY <1>5 DEF v

\* One card more on the table: it takes the trick if it is higher and of the suit.
LEMMA TakerAfter ==
  ASSUME NEW T \in SUBSET Deck, NEW f \in T, NEW w, Takes(w, f, T), NEW c \in Deck
  PROVE  Takes(NewWinningCard(w, c), f, T \union {c})
<1>1. w \in T /\ SameSuit(w, f) /\ \A d \in T : SameSuit(d, f) => Rank(d) <= Rank(w)
  BY DEF Takes
<1>2. w # NoCard
  BY <1>1, RankRange DEF NoCard
<1>3. \A d \in T \union {c} : Rank(d) \in Int
  BY RankRange
<1>4. CASE Beats(c, w)
  BY <1>1, <1>3, <1>4 DEF NewWinningCard, Beats, SameSuit, Takes
<1>5. CASE ~Beats(c, w)
  <2>1. SameSuit(c, f) => Rank(c) <= Rank(w)
    BY <1>1, <1>3, <1>5 DEF Beats, SameSuit
  <2>2. NewWinningCard(w, c) = w
    BY <1>2, <1>5 DEF NewWinningCard
  <2>3. QED
    BY <1>1, <2>1, <2>2 DEF Takes
<1>6. QED
  BY <1>4, <1>5

\* A play on its seat's turn, with a card that was found allowed.
OnTurn(p) ==
  /\ game.status = "Active" /\ game.rank = SeatOf[p]
  /\ tx[p].card \in Unplayed(SeatOf[p]) /\ tx[p].round = game.roll

LEMMA CardOnTurn ==
  ASSUME Inv, TableInv, NEW p \in Req, OnTurn(p)
  PROVE  /\ tx[p].card \in Deck /\ IsPlay(p) /\ tx[p].card \in hand[SeatOf[p]]
         /\ round[tx[p].card] = 0 /\ tx[p].round \in Rounds /\ game.roll \in Rounds
         /\ RoundInv /\ Visible(p) = Table \union {tx[p].card} /\ tx[p].card \notin Table
         /\ ~Played(SeatOf[p])
<1>1. hand \in Deals /\ RoundInv
  BY DEF TableInv, OnTurn
<1>2. tx[p].card \in hand[SeatOf[p]] /\ round[tx[p].card] = 0
  BY DEF OnTurn, Unplayed
<1>3. tx[p].card \in Deck
  BY <1>1, <1>2, HandInDeck, RequestHasSeat
<1>4. tx[p].card # NoCard
  BY <1>3, RankRange DEF NoCard
<1>5. game.roll \in Rounds /\ tx[p].round = game.roll
  BY DEF OnTurn, Inv, RollInGame
<1>6. tx[p].card \notin Table
  BY <1>2, <1>5 DEF Table, Rounds
<1>7. PICK lead \in Seats : \A s \in Seats : Played(s) <=> Ahead(lead, s) < Ahead(lead, game.rank)
  BY <1>1 DEF RoundInv, InTurn
<1>8. ~Played(SeatOf[p])
  <2>1. Ahead(lead, SeatOf[p]) \in Int /\ SeatOf[p] \in Seats
    BY RequestHasSeat, AheadOfNext
  <2>2. QED
    BY <1>7, <2>1 DEF OnTurn
<1>9. QED
  BY <1>1, <1>2, <1>3, <1>4, <1>5, <1>6, <1>8 DEF Visible, IsPlay, Table

\* As many cards as seats have been played when every seat has played.
LEMMA CompleteWhenAllPlayed ==
  ASSUME Inv, TableInv, NEW p \in Req, OnTurn(p)
  PROVE  RoundIsComplete(p) <=>
           \A s \in Seats : \E d \in hand[s] : d = tx[p].card \/ round[d] = game.roll
<1> DEFINE V == Visible(p)
           c == tx[p].card
           f == [d \in V |-> Owner(d)]
<1>1. V = Table \union {c} /\ c \in Deck /\ c \in hand[SeatOf[p]] /\ ~Played(SeatOf[p])
      /\ RoundInv /\ hand \in Deals
  BY CardOnTurn DEF TableInv
<1>2. V \in SUBSET Deck
  BY <1>1 DEF Table
<1>3. IsFiniteSet(V) /\ Cardinality(V) \in Nat
  <2>1. V \in SUBSET (0..31)
    BY <1>2, DeckAssumption
  <2>2. 0 \in Int /\ 31 \in Int
    OBVIOUS
  <2>3. IsFiniteSet(0..31)
    BY <2>2, FS_Interval
  <2> HIDE DEF V
  <2>4. QED
    BY <2>1, <2>3, FS_Subset, FS_CardinalityType
<1>4. IsFiniteSet(Seats) /\ Cardinality(Seats) = N
  BY NAssumption, FS_Interval DEF Seats
<1>5. \A d \in V : Owner(d) \in Seats /\ d \in hand[Owner(d)]
                   /\ \A s \in Seats : d \in hand[s] => s = Owner(d)
  BY <1>1, <1>2, CardHasOwner
<1>6. ASSUME NEW d \in V, NEW e \in V, Owner(d) = Owner(e)
      PROVE  d = e
  <2>1. d \in hand[Owner(d)] /\ e \in hand[Owner(d)] /\ Owner(d) \in Seats
    BY <1>5, <1>6
  <2>2. CASE d \in Table /\ e \in Table
    BY <1>1, <2>1, <2>2 DEF RoundInv, OneEach, Table
  <2>3. Owner(c) = SeatOf[p]
    BY <1>1, <1>5, RequestHasSeat
  <2>4. CASE d = c /\ e \in Table
    BY <1>1, <2>1, <2>3, <2>4 DEF Played, Table
  <2>5. CASE e = c /\ d \in Table
    BY <1>1, <1>6, <2>1, <2>3, <2>5 DEF Played, Table
  <2>6. QED
    BY <1>1, <2>2, <2>4, <2>5
<1>7. f \in Injection(V, Seats)
  BY <1>5, <1>6 DEF Injection, IsInjective
<1>8. Cardinality(V) <= N /\ (Cardinality(V) = N <=> f \in Surjection(V, Seats))
  <2> HIDE DEF V, f
  <2>1. QED
    BY <1>3, <1>4, <1>7, FS_Injection
<1>9. f \in Surjection(V, Seats) <=> \A s \in Seats : \E d \in V : Owner(d) = s
  BY <1>5 DEF Surjection
<1>10. (\A s \in Seats : \E d \in V : Owner(d) = s) <=>
         \A s \in Seats : \E d \in hand[s] : d = c \/ round[d] = game.roll
  <2>1. ASSUME NEW s \in Seats, NEW d \in V, Owner(d) = s
        PROVE  d \in hand[s] /\ (d = c \/ round[d] = game.roll)
    BY <1>1, <1>5, <2>1 DEF Table
  <2>2. ASSUME NEW s \in Seats, NEW d \in hand[s], d = c \/ round[d] = game.roll
        PROVE  d \in V /\ Owner(d) = s
    <3>1. d \in Deck
      BY <1>1, HandInDeck
    <3>2. d \in V
      BY <1>1, <2>2, <3>1 DEF Table
    <3>3. QED
      BY <1>5, <3>2
  <2> HIDE DEF V, c
  <2>3. QED
    BY <2>1, <2>2
<1>11. RoundIsComplete(p) <=> Cardinality(V) = N
  BY <1>3, <1>8, NAssumption DEF RoundIsComplete
<1>12. QED
  BY <1>8, <1>9, <1>10, <1>11

\* The cards on the table with the one of a play, in the order they were played: the
\* leading card after it takes the trick.
LEMMA TrickOnTurn ==
  ASSUME Inv, TrickInv, NEW p \in Req, OnTurn(p), tx[p].pc \in Checked \ {"mark"}
  PROVE  \E f \in Visible(p) :
           /\ \A d \in Visible(p) \ {f} : TimeOf(p, f) < TimeOf(p, d)
           /\ Takes(NewWinningCard(game.winCard, tx[p].card), f, Visible(p))
<1> DEFINE c == tx[p].card
<1>1. /\ c \in Deck /\ RoundInv /\ Visible(p) = Table \union {c} /\ c \notin Table
      /\ Table \in SUBSET Deck
  BY CardOnTurn DEF TrickInv, Table
<1>2. /\ \A d \in Deck : playedAt[d] < tx[p].stamp
      /\ TimeOf(p, c) = tx[p].stamp
      /\ \A d \in Table : TimeOf(p, d) = playedAt[d]
  BY <1>1 DEF TrickInv, Flight, TimeOf
<1>3. CASE Table = {}
  <2>1. NewWinningCard(game.winCard, c) = c
    BY <1>1, <1>3 DEF RoundInv, Leads, NewWinningCard
  <2>2. Visible(p) = {c} /\ Takes(c, c, {c})
    <3>1. Rank(c) <= Rank(c)
      BY <1>1, RankRange
    <3>2. QED
      BY <1>1, <1>3, <3>1 DEF Takes, SameSuit
  <2>3. QED
    BY <2>1, <2>2
<1>4. CASE Table # {}
  <2>1. PICK f \in Table : PlayedFirst(f) /\ Takes(game.winCard, f, Table)
    BY <1>1, <1>4 DEF RoundInv, Leads
  <2>2. Takes(NewWinningCard(game.winCard, c), f, Table \union {c})
    BY <1>1, <2>1, TakerAfter
  <2>3. \A d \in Visible(p) \ {f} : TimeOf(p, f) < TimeOf(p, d)
    BY <1>1, <1>2, <2>1 DEF PlayedFirst
  <2>4. QED
    BY <1>1, <2>2, <2>3
<1>5. QED
  BY <1>3, <1>4

\* What a step leaves alone.
LEMMA RoundRests ==
  ASSUME RoundInv, UNCHANGED <<hand, round, playedAt>>, game'.roll = game.roll,
         game'.rank = game.rank, game'.winCard = game.winCard, game'.winner = game.winner
  PROVE  RoundInv'
BY DEF RoundInv, InTurn, Played, OneEach, Leads, PlayedFirst, Table

LEMMA TableRests ==
  ASSUME Inv, TableInv, UNCHANGED <<dealt, rows>>, clock' = clock \/ clock' = clock + 1
  PROVE  TableInv'
<1>1. UNCHANGED <<hand, round, playedAt, game>> /\ clock \in Nat
  BY DEF dealt, rows, Inv, TypeOK
<1>2. \A c \in Deck : playedAt[c] \in Nat
  BY DEF Inv, TypeOK
<1>3. \A c \in Deck : playedAt'[c] <= clock'
  BY <1>1, <1>2 DEF TableInv
<1>4. game.status = "Active" => RoundInv'
  BY <1>1, RoundRests DEF TableInv
<1>5. QED
  BY <1>1, <1>3, <1>4 DEF TableInv

LEMMA FlightEnds ==
  ASSUME NEW p \in Req, tx'[p].pc \in {"idle", "claim"}
  PROVE  Flight(p)'
BY DEF Flight, Checked

LEMMA SightRests ==
  ASSUME NEW p \in Req, UNCHANGED <<dealt, rows>>, tx'[p].card = tx[p].card,
         tx'[p].round = tx[p].round
  PROVE  /\ Visible(p)' = Visible(p) /\ RoundIsComplete(p)' = RoundIsComplete(p)
         /\ \A s : Unplayed(s)' = Unplayed(s)
         /\ tx'[p].stamp = tx[p].stamp => \A d : TimeOf(p, d)' = TimeOf(p, d)
<1>1. UNCHANGED <<hand, round, playedAt>>
  BY DEF dealt, rows
<1>2. Visible(p)' = Visible(p)
  BY <1>1 DEF Visible, IsPlay
<1>3. QED
  BY <1>1, <1>2 DEF RoundIsComplete, Unplayed, TimeOf

\* A play that is read, checked, written, counted and listed.
LEMMA FlightGoesOn ==
  ASSUME ~StepByStep, Inv, SequentialInv, TrickInv, NEW p \in Req,
         ValidateCard(p) \/ MarkCard(p) \/ CountRound(p) \/ ReadVersion(p)
  PROVE  TableInv' /\ Flight(p)'
<1>1. tx \in [Req -> Tx] /\ tx[p] \in Tx /\ clock \in Nat
  BY DEF Inv, TypeOK
<1>2. OneAtATime(p) /\ Flight(p) /\ TableInv
  BY DEF SequentialInv, TrickInv
<1>3. UNCHANGED <<dealt, rows>> /\ (clock' = clock \/ clock' = clock + 1)
  BY DEF ValidateCard, MarkCard, CountRound, ReadVersion
<1>4. TableInv'
  BY <1>2, <1>3, TableRests
<1>5. tx'[p].card = tx[p].card /\ tx'[p].round = tx[p].round
  BY <1>1 DEF ValidateCard, MarkCard, CountRound, ReadVersion, Goto, Tx
<1>6. /\ Visible(p)' = Visible(p) /\ RoundIsComplete(p)' = RoundIsComplete(p)
      /\ \A s : Unplayed(s)' = Unplayed(s)
      /\ tx'[p].stamp = tx[p].stamp => \A d : TimeOf(p, d)' = TimeOf(p, d)
      /\ UNCHANGED <<game, playedAt>>
  BY <1>3, <1>5, SightRests DEF rows
<1>7. Flight(p)'
  <2>1. CASE ValidateCard(p)
    <3>1. tx[p].pc = "validate" /\ tx'[p].pc = "mark"
      BY <1>1, <2>1 DEF ValidateCard, Goto, Tx
    <3>2. tx[p].row = game
      BY <1>2, <3>1 DEF OneAtATime, TurnPoints, PlayPoints
    <3>3. tx[p].card \in Unplayed(SeatOf[p])
          /\ FollowsSuit(tx[p].card, game.winCard, Unplayed(SeatOf[p]))
      BY <2>1, <3>2 DEF ValidateCard
    <3>4. QED
      BY <1>2, <1>5, <1>6, <3>1, <3>3 DEF Flight, Checked
  <2>2. CASE MarkCard(p)
    <3>1. tx[p].pc = "mark" /\ tx'[p].pc = "count" /\ tx'[p].stamp = clock + 1 /\ clock' = clock + 1
      BY <1>1, <2>2 DEF MarkCard, Tx
    <3>2. \A d \in Deck : playedAt[d] \in Nat /\ playedAt[d] <= clock
      BY <1>2 DEF TableInv, Inv, TypeOK
    <3>3. tx'[p].stamp <= clock' /\ \A d \in Deck : playedAt'[d] < tx'[p].stamp
      BY <1>1, <1>6, <3>1, <3>2
    <3>4. QED
      BY <1>2, <1>5, <1>6, <3>1, <3>3 DEF Flight, Checked
  <2>3. CASE CountRound(p)
    <3>1. /\ tx[p].pc = "count" /\ tx'[p].stamp = tx[p].stamp /\ clock' = clock
          /\ tx'[p].pc = IF ~RoundIsComplete(p) THEN "advance" ELSE "list"
      BY <1>1, <2>3 DEF CountRound, Goto, Tx
    <3>2. QED
      BY <1>2, <1>5, <1>6, <3>1 DEF Flight, Checked
  <2>4. CASE ReadVersion(p)
    <3>1. /\ tx[p].pc = "read" /\ tx'[p].pc = "finish" /\ tx'[p].stamp = tx[p].stamp
          /\ tx'[p].seen = tx[p].seen /\ tx'[p].first = tx[p].first /\ clock' = clock
      BY <1>1, <2>4 DEF ReadVersion, Tx
    <3>2. QED
      BY <1>2, <1>5, <1>6, <3>1 DEF Flight, Checked
  <2>5. QED
    BY <2>1, <2>2, <2>3, <2>4
<1>8. QED
  BY <1>4, <1>7

LEMMA FlightLists ==
  ASSUME ~StepByStep, Inv, SequentialInv, TrickInv, NEW p \in Req, ListRound(p), Visible(p) # {}
  PROVE  TableInv' /\ Flight(p)'
<1>1. tx \in [Req -> Tx] /\ tx[p] \in Tx /\ tx[p].pc = "list"
  BY DEF Inv, TypeOK, ListRound
<1>2. Flight(p) /\ TableInv
  BY DEF TrickInv
<1>3. UNCHANGED <<dealt, rows>> /\ clock' = clock
  BY DEF ListRound
<1> DEFINE f == CHOOSE c \in Visible(p) : \A d \in Visible(p) : TimeOf(p, c) <= TimeOf(p, d)
<1>4. f \in Visible(p) /\ \A d \in Visible(p) : TimeOf(p, f) <= TimeOf(p, d)
  BY <1>1, VisibleTrick
<1>5. tx' = [tx EXCEPT ![p].pc = "read", ![p].seen = Visible(p), ![p].first = f,
                       ![p].purse = purse]
  BY DEF ListRound
<1> HIDE DEF f
<1>6. /\ tx'[p].pc = "read" /\ tx'[p].seen = Visible(p) /\ tx'[p].first = f
      /\ tx'[p].card = tx[p].card /\ tx'[p].round = tx[p].round /\ tx'[p].stamp = tx[p].stamp
  BY <1>1, <1>5 DEF Tx
<1>7. /\ Visible(p)' = Visible(p) /\ RoundIsComplete(p)' = RoundIsComplete(p)
      /\ \A s : Unplayed(s)' = Unplayed(s)
      /\ \A d : TimeOf(p, d)' = TimeOf(p, d)
      /\ UNCHANGED <<game, playedAt>>
  BY <1>3, <1>6, SightRests DEF rows
<1>8. Flight(p)'
  BY <1>1, <1>2, <1>3, <1>4, <1>6, <1>7 DEF Flight, Checked
<1>9. QED
  BY <1>2, <1>3, <1>8, TableRests

\* A play that is written: its card is on the table, and the turn passes on.
LEMMA TableAfterPlay ==
  ASSUME ~StepByStep, Inv, SequentialInv, TrickInv, NEW p \in Req, CommitPlay(p)
  PROVE  TableInv'
<1> DEFINE c == tx[p].card
           best == NewWinningCard(game.winCard, c)
<1>1. tx \in [Req -> Tx] /\ game \in Row /\ clock \in Nat /\ SeatOf[p] \in Seats
      /\ round \in [Deck -> 0..CARDS_PER_PLAYER] /\ playedAt \in [Deck -> Nat]
  BY RequestHasSeat DEF Inv, TypeOK
<1>2. OneAtATime(p) /\ Flight(p) /\ TableInv
  BY DEF SequentialInv, TrickInv
<1>3. tx[p].pc = "advance" /\ tx[p].row = game /\ OnTurn(p) /\ game.claim = NoSeat
  BY <1>2 DEF CommitPlay, OneAtATime, TurnPoints, PlayPoints, OnTurn, Flight, Checked
<1>4. /\ c \in Deck /\ c \in hand[SeatOf[p]] /\ RoundInv /\ Visible(p) = Table \union {c}
      /\ ~Played(SeatOf[p]) /\ game.roll \in Rounds /\ tx[p].round = game.roll
  BY <1>2, <1>3, CardOnTurn DEF OnTurn
<1>5. /\ game' = [game EXCEPT !.rank = NextSeat(SeatOf[p], N), !.winCard = best,
                              !.version = game.version + 1]
      /\ round' = [round EXCEPT ![c] = game.roll]
      /\ playedAt' = [playedAt EXCEPT ![c] = tx[p].stamp]
      /\ UNCHANGED <<hand, clock>>
  BY <1>3, <1>4 DEF CommitPlay, CardCommitted, dealt
<1>6. /\ game'.roll = game.roll /\ game'.winner = game.winner /\ game'.claim = NoSeat
      /\ game'.status = "Active" /\ game'.rank = NextSeat(SeatOf[p], N) /\ game'.winCard = best
  BY <1>1, <1>3, <1>5 DEF Row, OnTurn
<1>7. /\ \A d \in Deck : round'[d] = IF d = c THEN game.roll ELSE round[d]
      /\ \A d \in Deck : playedAt'[d] = IF d = c THEN tx[p].stamp ELSE playedAt[d]
  BY <1>1, <1>4, <1>5
<1> HIDE DEF c, best
<1>8. Table' = Visible(p)
  BY <1>4, <1>6, <1>7 DEF Table
<1>9. hand \in Deals /\ hand' \in Deals /\ \A s \in Seats : hand[s] \subseteq Deck
  BY <1>2, <1>5, HandInDeck DEF TableInv
<1>10. \A s \in Seats : c \in hand[s] <=> s = SeatOf[p]
  BY <1>1, <1>4, <1>9, CardHasOwner
<1>11. \A s \in Seats : Played(s)' <=> Played(s) \/ s = SeatOf[p]
  <2>1. \A s \in Seats : Played(s)' <=> \E d \in hand[s] : round'[d] = game.roll
    BY <1>5, <1>6 DEF Played
  <2>2. ASSUME NEW s \in Seats
        PROVE  (\E d \in hand[s] : round'[d] = game.roll) <=> Played(s) \/ c \in hand[s]
    <3>1. hand[s] \subseteq Deck
      BY <1>9
    <3>2. \A d \in hand[s] : round'[d] = IF d = c THEN game.roll ELSE round[d]
      BY <1>7, <3>1
    <3>3. QED
      BY <3>2 DEF Played
  <2>3. QED
    BY <1>10, <2>1, <2>2
<1>12. InTurn'
  <2>1. PICK lead \in Seats : \A s \in Seats : Played(s) <=> Ahead(lead, s) < Ahead(lead, game.rank)
    BY <1>4 DEF RoundInv, InTurn
  <2>2. /\ \A s \in Seats : Ahead(lead, s) \in 0..(N - 1)
        /\ \A s \in Seats : Ahead(lead, s) = Ahead(lead, SeatOf[p]) => s = SeatOf[p]
        /\ Ahead(lead, SeatOf[p]) # N - 1 =>
             Ahead(lead, NextSeat(SeatOf[p], N)) = Ahead(lead, SeatOf[p]) + 1
    BY <1>1, AheadOfNext
  <2>3. game.rank = SeatOf[p] /\ N \in Nat
    BY <1>3, NAssumption DEF OnTurn
  <2>4. ~\A s \in Seats : \E d \in hand[s] : d = tx[p].card \/ round[d] = game.roll
    BY <1>2, <1>3, CompleteWhenAllPlayed DEF Flight
  <2>5. PICK s \in Seats : ~Played(s) /\ s # SeatOf[p]
    BY <1>10, <2>4 DEF Played, c
  <2>6. Ahead(lead, SeatOf[p]) # N - 1
    <3>1. Ahead(lead, s) # Ahead(lead, SeatOf[p]) /\ ~(Ahead(lead, s) < Ahead(lead, SeatOf[p]))
      BY <2>1, <2>2, <2>3, <2>5
    <3>2. Ahead(lead, s) \in 0..(N - 1) /\ Ahead(lead, SeatOf[p]) \in 0..(N - 1)
      BY <1>1, <2>2
    <3>3. QED
      BY <2>3, <3>1, <3>2
  <2>7. \A t \in Seats : Played(t)' <=> Ahead(lead, t) < Ahead(lead, SeatOf[p]) + 1
    <3> SUFFICES ASSUME NEW t \in Seats
                 PROVE  Played(t)' <=> Ahead(lead, t) < Ahead(lead, SeatOf[p]) + 1
      OBVIOUS
    <3>1. Ahead(lead, t) \in Int /\ Ahead(lead, SeatOf[p]) \in Int
      BY <1>1, <2>2
    <3>2. Played(t) <=> Ahead(lead, t) < Ahead(lead, SeatOf[p])
      BY <2>1, <2>3
    <3>3. t = SeatOf[p] <=> Ahead(lead, t) = Ahead(lead, SeatOf[p])
      BY <2>2
    <3>4. Played(t)' <=> Played(t) \/ t = SeatOf[p]
      BY <1>11
    <3>5. QED
      BY <3>1, <3>2, <3>3, <3>4
  <2>8. \A t \in Seats : Played(t)' <=> Ahead(lead, t) < Ahead(lead, game'.rank)
    BY <1>6, <2>2, <2>6, <2>7
  <2>9. QED
    BY <2>8 DEF InTurn, Ahead
<1>13. OneEach'
  <2> SUFFICES ASSUME NEW s \in Seats, NEW d \in hand[s], NEW e \in hand[s],
                      round'[d] = game.roll, round'[e] = game.roll
               PROVE  d = e
    BY <1>5, <1>6 DEF OneEach
  <2>1. d \in Deck /\ e \in Deck
    BY <1>9
  <2>2. CASE d = c \/ e = c
    <3>1. s = SeatOf[p]
      BY <1>10, <2>2
    <3>2. \A i \in hand[s] : round[i] # game.roll
      BY <1>4, <3>1 DEF Played
    <3>3. QED
      BY <1>7, <2>1, <3>2
  <2>3. CASE d # c /\ e # c
    BY <1>4, <1>7, <2>1, <2>3 DEF RoundInv, OneEach
  <2>4. QED
    BY <2>2, <2>3
<1>14. Leads'
  <2>1. PICK f \in Visible(p) : /\ \A d \in Visible(p) \ {f} : TimeOf(p, f) < TimeOf(p, d)
                                /\ Takes(best, f, Visible(p))
    BY <1>3, TrickOnTurn DEF Checked, best, c
  <2>2. \A d \in Visible(p) : playedAt'[d] = TimeOf(p, d)
    BY <1>4, <1>7 DEF TimeOf, Table, c
  <2>3. PlayedFirst(f)'
    BY <1>8, <2>1, <2>2 DEF PlayedFirst
  <2>4. QED
    BY <1>6, <1>8, <2>1, <2>3 DEF Leads
<1>15. \A d \in Deck : playedAt'[d] <= clock' /\ round'[d] <= game'.roll
  <2>1. tx[p].stamp <= clock
    BY <1>2, <1>3 DEF Flight, Checked
  <2>2. \A d \in Deck : playedAt[d] <= clock /\ round[d] <= game.roll
    BY <1>2, <1>4 DEF TableInv, RoundInv
  <2>3. game.roll <= game.roll
    BY <1>4 DEF Rounds
  <2>4. QED
    BY <1>5, <1>6, <1>7, <2>1, <2>2, <2>3
<1>16. RoundInv'
  BY <1>4, <1>6, <1>12, <1>13, <1>14, <1>15 DEF RoundInv
<1>17. QED
  BY <1>6, <1>9, <1>15, <1>16 DEF TableInv

\* The next round begins with an empty table and its winner to lead.
LEMMA TableAfterRound ==
  ASSUME ~StepByStep, Inv, SequentialInv, TrickInv, NEW p \in Req, CommitRound(p)
  PROVE  TableInv'
<1>1. tx \in [Req -> Tx] /\ game \in Row /\ clock \in Nat
      /\ round \in [Deck -> 0..CARDS_PER_PLAYER] /\ playedAt \in [Deck -> Nat]
  BY DEF Inv, TypeOK
<1>2. OneAtATime(p) /\ Flight(p) /\ TableInv
  BY DEF SequentialInv, TrickInv
<1>3. tx[p].pc = "finish" /\ OnTurn(p) /\ game.claim = NoSeat
  BY <1>2 DEF CommitRound, OneAtATime, TurnPoints, OnTurn, Flight, Checked
<1>4. /\ tx[p].card \in Deck /\ IsPlay(p) /\ RoundInv /\ hand \in Deals
      /\ game.roll \in Rounds /\ tx[p].round = game.roll
  BY <1>2, <1>3, CardOnTurn DEF OnTurn, TableInv
<1>5. PICK w \in Seats, st \in Terminal :
        LET ends == tx[p].round + 1 > CARDS_PER_PLAYER
        IN /\ game' = [game EXCEPT
                !.winner = w, !.rank = w, !.roll = tx[p].round + 1,
                !.winCard = NoCard, !.version = game.version + 1,
                !.status = IF ends THEN st ELSE game.status]
           /\ IF ends THEN Settle(p, w, st) ELSE UNCHANGED <<purse, credit>>
  BY CommitRoundWrites
<1>6. /\ round' = [round EXCEPT ![tx[p].card] = game.roll]
      /\ playedAt' = [playedAt EXCEPT ![tx[p].card] = tx[p].stamp]
      /\ UNCHANGED <<hand, clock>>
  BY <1>4 DEF CommitRound, CardCommitted, dealt
<1>7. /\ game'.roll = game.roll + 1 /\ game'.rank = w /\ game'.winCard = NoCard
      /\ game'.claim = NoSeat
  BY <1>1, <1>3, <1>4, <1>5 DEF Row
<1>8. \A d \in Deck : round[d] \in Nat /\ round[d] <= game.roll /\ playedAt[d] <= clock
                      /\ tx[p].stamp <= clock
  BY <1>1, <1>2, <1>3, <1>4, CardsAssumption DEF TableInv, RoundInv, Flight, Checked
<1>9. \A d \in Deck : round'[d] <= game.roll /\ round'[d] \in Int /\ playedAt'[d] <= clock'
  BY <1>1, <1>4, <1>6, <1>8 DEF Rounds
<1>10. game.roll \in Int /\ game.roll >= 1
  BY <1>4 DEF Rounds
<1>11. \A d \in Deck : round'[d] # game'.roll /\ round'[d] <= game'.roll
  BY <1>7, <1>9, <1>10
<1>12. Table' = {} /\ \A s \in Seats : ~Played(s)'
  <2>1. \A s \in Seats : hand'[s] \subseteq Deck
    BY <1>4, <1>6, HandInDeck
  <2>2. QED
    BY <1>11, <2>1 DEF Table, Played
<1>13. InTurn'
  <2>1. \A s \in Seats : Ahead(w, s) \in 0..(N - 1) /\ Ahead(w, w) = 0
    BY AheadOfNext
  <2>2. \A s \in Seats : ~(Ahead(w, s) < Ahead(w, game'.rank))
    BY <1>7, <2>1, NAssumption
  <2>3. QED
    BY <1>12, <2>2 DEF InTurn, Ahead
<1>14. OneEach' /\ Leads'
  BY <1>7, <1>12 DEF OneEach, Leads, Played
<1>15. RoundInv'
  BY <1>7, <1>10, <1>11, <1>13, <1>14 DEF RoundInv
<1>16. QED
  BY <1>4, <1>6, <1>7, <1>9, <1>15 DEF TableInv

LEMMA TrickStep ==
  ASSUME \A p, q \in Req : SeatOf[p] = SeatOf[q] => p = q,
         ~StepByStep, Inv, SequentialInv, TrickInv, NEW p \in Req, Step(p) \/ Ask(p)
  PROVE  TrickInv'
<1>1. tx \in [Req -> Tx] /\ tx[p] \in Tx /\ game \in Row /\ Idle.pc = "idle"
  BY DEF Inv, TypeOK, Idle
<1>2. OneAtATime(p) /\ Flight(p) /\ TableInv
  BY DEF SequentialInv, TrickInv
<1>3. ASSUME NEW q \in Req \ {p} PROVE Flight(q)'
  <2>1. tx'[q].pc = "idle"
    BY StepMovesOne, NobodyElse
  <2>2. QED
    BY <2>1, FlightEnds
<1>4. SUFFICES TableInv' /\ Flight(p)'
  BY <1>3 DEF TrickInv
<1>5. ASSUME tx'[p] = Idle PROVE Flight(p)'
  BY <1>1, <1>5, FlightEnds
<1>6. CASE ValidateCard(p) \/ MarkCard(p) \/ CountRound(p) \/ ReadVersion(p)
  BY <1>6, FlightGoesOn
<1>7. CASE ListRound(p) /\ Visible(p) # {}
  BY <1>7, FlightLists
<1>8. CASE RefuseCard(p) \/ ClaimRefused(p) \/ (ListRound(p) /\ Visible(p) = {})
  <2>1. tx'[p] = Idle /\ UNCHANGED <<dealt, rows, clock>>
    BY <1>1, <1>8 DEF RefuseCard, ClaimRefused, ListRound, Respond
  <2>2. QED
    BY <1>2, <1>5, <2>1, TableRests
<1>9. ASSUME NEW c \in hand[SeatOf[p]], BeginPlay(p, c) PROVE TableInv' /\ Flight(p)'
  <2>1. /\ tx'[p].pc = "validate" /\ tx'[p].round = game.roll
        /\ UNCHANGED <<dealt, rows, clock>> /\ game' = game
    BY <1>1, <1>9 DEF BeginPlay, Tx, rows
  <2>2. QED
    BY <1>2, <2>1, TableRests DEF Flight, Checked
<1>10. CASE BeginClaim(p)
  <2>1. tx'[p].pc = "claim" /\ UNCHANGED <<dealt, rows, clock>>
    BY <1>1, <1>10 DEF BeginClaim, Tx
  <2>2. QED
    BY <1>2, <2>1, FlightEnds, TableRests
<1>11. CASE CommitPlay(p)
  <2>1. tx'[p] = Idle
    BY <1>1, <1>11 DEF CommitPlay, Respond
  <2>2. QED
    BY <1>5, <1>11, <2>1, TableAfterPlay
<1>12. CASE CommitRound(p)
  <2>1. tx'[p] = Idle
    BY <1>1, <1>12 DEF CommitRound, Respond
  <2>2. QED
    BY <1>5, <1>12, <2>1, TableAfterRound
<1>13. CASE CommitClaim(p)
  <2>1. /\ tx'[p] = Idle /\ game'.status = "Finished" /\ game'.claim = NoSeat
        /\ UNCHANGED <<hand, playedAt, clock>>
    BY <1>1, <1>13 DEF CommitClaim, Respond, Row, dealt
  <2>2. QED
    BY <1>2, <1>5, <2>1 DEF TableInv
<1>14. CASE Decline(p)
  <2>1. /\ tx'[p].pc = "idle" /\ UNCHANGED <<hand, round, playedAt, clock>>
        /\ game'.claim = NoSeat /\ game'.status = game.status /\ game'.roll = game.roll
        /\ game'.rank = game.rank /\ game'.winCard = game.winCard /\ game'.winner = game.winner
    BY <1>1, <1>14 DEF Decline, Row, dealt, Ask, Step
  <2>2. QED
    BY <1>2, <2>1, FlightEnds, RoundRests DEF TableInv
<1>15. ~Conflict(p) /\ ~RetryPlay(p) /\ ~BeginEvaluate(p)
  BY <1>2 DEF OneAtATime, Conflict, RetryPlay, BeginEvaluate, TurnPoints, PlayPoints
<1>16. QED
  BY <1>6, <1>7, <1>8, <1>9, <1>10, <1>11, <1>12, <1>13, <1>14, <1>15
     DEF Step, Ask, AskPlay, AskEvaluate, AskClaim

\* Both modules have the rules of CardRules.
LEMMA SameCount == \A S : Engine!Cardinality(S) = Cardinality(S)
BY DEF Engine!Cardinality, Cardinality, Engine!IsFiniteSet, IsFiniteSet

LEMMA SameDeals == Engine!Deals = Deals /\ \A sp : Engine!Askees(sp) = Askees(sp)
<1>1. Engine!Seats = Seats /\ Engine!NoSeat = NoSeat
  BY DEF Engine!Seats, Seats, Engine!NoSeat, NoSeat
<1>2. Engine!Deals = Deals
  BY <1>1, SameCount DEF Engine!Deals, Deals
<1>3. \A sp : Engine!Askees(sp) = Askees(sp)
  BY <1>1, SameCount DEF Engine!Askees, Askees
<1>4. QED
  BY <1>2, <1>3

LEMMA SameTable ==
  /\ Engine!Seats = Seats /\ Engine!NoSeat = NoSeat /\ Engine!NoCard = NoCard
  /\ \A s : Engine!Unplayed(s) = Unplayed(s)
  /\ \A c : Engine!Owner(c) = Owner(c)
BY DEF Engine!Seats, Seats, Engine!NoSeat, NoSeat, Engine!NoCard, NoCard, Engine!Unplayed, Unplayed,
   Engine!Owner, Owner

LEMMA SameRules ==
  /\ \A c : Engine!IsThree(c) <=> IsThree(c)
  /\ \A c, d : Engine!SameSuit(c, d) <=> SameSuit(c, d)
  /\ \A c, d : Engine!NewWinningCard(c, d) = NewWinningCard(c, d)
  /\ \A c, d, u : Engine!FollowsSuit(c, d, u) <=> FollowsSuit(c, d, u)
  /\ \A s, n : Engine!NextSeat(s, n) = NextSeat(s, n)
  /\ \A s, w, n, b : Engine!Payment(s, w, n, b) = Payment(s, w, n, b)
  /\ \A st : Engine!Multiplier(st) = Multiplier(st)
<1>1. \A c, d : Engine!SameSuit(c, d) <=> SameSuit(c, d)
  BY DEF Engine!SameSuit, SameSuit, Engine!Suit, Suit
<1>2. \A c : Engine!IsThree(c) <=> IsThree(c)
  BY DEF Engine!IsThree, IsThree, Engine!Rank, Rank
<1>3. \A c, d : Engine!NewWinningCard(c, d) = NewWinningCard(c, d)
  BY <1>1 DEF Engine!NewWinningCard, NewWinningCard, Engine!Beats, Beats, Engine!Rank, Rank,
     Engine!NoCard, NoCard
<1>4. \A c, d, u : Engine!FollowsSuit(c, d, u) <=> FollowsSuit(c, d, u)
  BY <1>1 DEF Engine!FollowsSuit, FollowsSuit, Engine!NoCard, NoCard
<1>5. \A s, n : Engine!NextSeat(s, n) = NextSeat(s, n)
  BY DEF Engine!NextSeat, NextSeat
<1>6. \A s, w, n, b : Engine!Payment(s, w, n, b) = Payment(s, w, n, b)
  BY DEF Engine!Payment, Payment
<1>7. \A st : Engine!Multiplier(st) = Multiplier(st)
  BY DEF Engine!Multiplier, Multiplier
<1>8. QED
  BY <1>1, <1>2, <1>3, <1>4, <1>5, <1>6, <1>7

\* The payment by the final status, one account at a time.
LEMMA SameSettlement ==
  ASSUME Inv, NEW p \in Req, NEW w, NEW st \in Status, Settle(p, w, st)
  PROVE  Engine!Settle(w, st)
<1>1. \A s \in Seats : credit[s] \in Int
  BY DEF Inv, TypeOK
<1>2. \A s \in Seats : Payment(s, w, N, Bet * Multiplier(st)) \in Int
  <2>1. Bet * Multiplier(st) \in Int
    BY MultiplierRange, BetAssumption
  <2>2. \A b \in Int : b * (N - 1) \in Int /\ -b \in Int
    BY NAssumption
  <2>3. QED
    BY <2>1, <2>2 DEF Payment
<1>3. \A s \in Seats : credit[s] + (Bet + Payment(s, w, N, Bet * Multiplier(st))) =
                       credit[s] + Bet + Payment(s, w, N, Bet * Multiplier(st))
  BY <1>1, <1>2, BetAssumption
<1>4. credit' = [s \in Seats |-> credit[s] + Bet + Payment(s, w, N, Bet * Multiplier(st))]
  BY <1>3 DEF Settle
<1>5. QED
  BY <1>4, SameTable, SameRules DEF Engine!Settle

LEMMA EngineInit == Init => Engine!Init
<1> SUFFICES ASSUME Init PROVE Engine!Init
  OBVIOUS
<1>1. PICK s \in Seats, a \in Askees(special) :
        game = [version |-> 0, rank |-> s, roll |-> 1, winCard |-> NoCard,
                winner |-> NoSeat, claim |-> a, status |-> "Active"]
  BY DEF Init
<1>2. /\ game.rank = s /\ game.roll = 1 /\ game.winCard = NoCard /\ game.winner = NoSeat
      /\ game.claim = a /\ game.status = "Active"
  BY <1>1
<1>3. hand \in Engine!Deals /\ a \in Engine!Askees(special)
  BY <1>1, SameDeals DEF Init
<1>4. s \in Engine!Seats /\ special \in SUBSET (IF Multiplayer THEN Engine!Seats ELSE {})
      /\ credit = [t \in Engine!Seats |-> StartCredit]
  BY <1>1, SameTable DEF Init
<1>5. round = [c \in Deck |-> 0]
  BY DEF Init
<1>6. QED
  BY <1>2, <1>3, <1>4, <1>5, SameTable DEF Engine!Init

\* A play on its turn is one that the rules of the abstract game allow.
LEMMA MayPlayOnTurn ==
  ASSUME Inv, TableInv, NEW p \in Req, OnTurn(p), game.claim = NoSeat,
         FollowsSuit(tx[p].card, game.winCard, Unplayed(SeatOf[p]))
  PROVE  Engine!CanPlay(SeatOf[p], tx[p].card)
BY SameTable, SameRules DEF Engine!CanPlay, OnTurn

LEMMA EnginePlaysOn ==
  ASSUME ~StepByStep, Inv, SequentialInv, TrickInv, NEW p \in Req, CommitPlay(p)
  PROVE  Engine!Next
<1> DEFINE c == tx[p].card
<1>1. game \in Row /\ SeatOf[p] \in Seats
  BY RequestHasSeat DEF Inv, TypeOK
<1>2. OneAtATime(p) /\ Flight(p) /\ TableInv
  BY DEF SequentialInv, TrickInv
<1>3. tx[p].pc = "advance" /\ tx[p].row = game /\ OnTurn(p) /\ game.claim = NoSeat
      /\ FollowsSuit(c, game.winCard, Unplayed(SeatOf[p]))
  BY <1>2 DEF CommitPlay, OneAtATime, TurnPoints, PlayPoints, OnTurn, Flight, Checked
<1>4. tx[p].round = game.roll /\ c \in hand[SeatOf[p]]
  BY <1>2, <1>3, CardOnTurn DEF OnTurn
<1>5. Engine!CanPlay(SeatOf[p], c)
  BY <1>2, <1>3, MayPlayOnTurn
<1>6. ~Engine!Completes(c)
  <2>1. ~\A s \in Seats : \E d \in hand[s] : d = c \/ round[d] = game.roll
    BY <1>2, <1>3, CompleteWhenAllPlayed DEF Flight
  <2>2. QED
    BY <2>1, SameTable DEF Engine!Completes
<1>7. /\ game' = [game EXCEPT !.rank = NextSeat(SeatOf[p], N),
                              !.winCard = NewWinningCard(game.winCard, c),
                              !.version = game.version + 1]
      /\ round' = [round EXCEPT ![c] = game.roll]
      /\ UNCHANGED <<hand, special, credit>>
  BY <1>3, <1>4 DEF CommitPlay, CardCommitted, dealt
<1>8. /\ game'.status = game.status /\ game'.roll = game.roll /\ game'.winner = game.winner
      /\ game'.claim = game.claim /\ game'.rank = NextSeat(SeatOf[p], N)
      /\ game'.winCard = NewWinningCard(game.winCard, c)
  BY <1>1, <1>7 DEF Row
<1> HIDE DEF c
<1>9. Engine!PlayOn(SeatOf[p], c)
  BY <1>5, <1>6, <1>7, <1>8, SameRules DEF Engine!PlayOn, Engine!dealt
<1>10. QED
  BY <1>1, <1>4, <1>9, SameTable DEF Engine!Next

LEMMA EngineEndsRound ==
  ASSUME ~StepByStep, Inv, SequentialInv, TrickInv, NEW p \in Req, CommitRound(p)
  PROVE  Engine!Next
<1> DEFINE c == tx[p].card
           best == NewWinningCard(game.winCard, c)
           w == Owner(best)
           again == game.winner = w /\ ThreeIn(p, w, CARDS_PER_PLAYER - 1)
           st == FinalStatus(IsThree(best), game.winner, w, again, w \in special)
           ends == game.roll + 1 > CARDS_PER_PLAYER
<1>1. game \in Row /\ SeatOf[p] \in Seats /\ CARDS_PER_PLAYER \in Nat \ {0}
  BY RequestHasSeat, CardsAssumption DEF Inv, TypeOK
<1>2. OneAtATime(p) /\ Flight(p) /\ TableInv
  BY DEF SequentialInv, TrickInv
<1>3. tx[p].pc = "finish" /\ tx[p].row = game /\ OnTurn(p) /\ game.claim = NoSeat
      /\ FollowsSuit(c, game.winCard, Unplayed(SeatOf[p]))
  BY <1>2 DEF CommitRound, OneAtATime, TurnPoints, OnTurn, Flight, Checked
<1>4. /\ c \in Deck /\ IsPlay(p) /\ c \in hand[SeatOf[p]] /\ round[c] = 0
      /\ game.roll \in Rounds /\ tx[p].round = game.roll /\ RoundInv
      /\ Visible(p) \in SUBSET Deck
  BY <1>2, <1>3, CardOnTurn DEF OnTurn, Table
<1>5. Engine!CanPlay(SeatOf[p], c)
  BY <1>2, <1>3, MayPlayOnTurn
<1>6. Engine!Completes(c)
  <2>1. \A s \in Seats : \E d \in hand[s] : d = c \/ round[d] = game.roll
    BY <1>2, <1>3, CompleteWhenAllPlayed DEF Flight
  <2>2. QED
    BY <2>1, SameTable DEF Engine!Completes
<1>7. TrickWinner(tx[p].first, tx[p].seen) = best
  <2>1. PICK f \in Visible(p) : /\ \A d \in Visible(p) \ {f} : TimeOf(p, f) < TimeOf(p, d)
                                /\ Takes(best, f, Visible(p))
    BY <1>3, TrickOnTurn DEF Checked
  <2>2. tx[p].seen = Visible(p) /\ tx[p].first \in Visible(p)
        /\ TimeOf(p, tx[p].first) <= TimeOf(p, f)
    BY <1>2, <1>3, <2>1 DEF Flight
  <2>3. \A d \in Visible(p) : TimeOf(p, d) \in Int
    <3>1. tx[p] \in Tx /\ playedAt \in [Deck -> Nat]
      BY DEF Inv, TypeOK
    <3>2. tx[p].stamp \in Int
      BY <3>1 DEF Tx
    <3>3. \A d \in Deck : playedAt[d] \in Int
      BY <3>1
    <3>4. \A d \in Visible(p) : d \in Deck
      BY <1>4
    <3>5. QED
      BY <3>2, <3>3, <3>4 DEF TimeOf
  <2>4. tx[p].first = f
    BY <2>1, <2>2, <2>3
  <2> HIDE DEF best
  <2>5. QED
    BY <1>4, <2>1, <2>2, <2>4, TakerWins
<1>8. w \in Seats
  BY <1>3, <1>7, WinnerIsSeat
<1> HIDE DEF best
<1>9. /\ game' = [game EXCEPT !.winner = w, !.rank = w, !.roll = game.roll + 1,
                              !.winCard = NoCard, !.version = game.version + 1,
                              !.status = IF ends THEN st ELSE game.status]
      /\ round' = [round EXCEPT ![c] = game.roll]
      /\ IF ends THEN Settle(p, w, st) ELSE UNCHANGED <<purse, credit>>
      /\ UNCHANGED <<hand, special>>
  BY <1>3, <1>4, <1>7 DEF CommitRound, CardCommitted, dealt
<1>10. again \in BOOLEAN /\ IsThree(best) \in BOOLEAN /\ (w \in special) \in BOOLEAN
  BY DEF ThreeIn, IsThree
<1>11. st \in Terminal
  BY <1>10, FinalStatusIsTerminal
\* The play that ends the game was not in the round before, nor was there one before
\* the first.
<1>12. ends => (again <=> game.winner = w /\ Engine!ThreeIn(w, CARDS_PER_PLAYER - 1))
  <2> SUFFICES ASSUME ends, game.winner = w
               PROVE  ThreeIn(p, w, CARDS_PER_PLAYER - 1) <=> Engine!ThreeIn(w, CARDS_PER_PLAYER - 1)
    OBVIOUS
  <2>1. game.roll = CARDS_PER_PLAYER
    BY <1>1, <1>4 DEF Rounds
  <2>2. w # NoSeat
    BY <1>8 DEF Seats, NoSeat
  <2>3. game.roll # 1
    BY <1>4, <2>2 DEF RoundInv
  <2>4. CARDS_PER_PLAYER # CARDS_PER_PLAYER - 1 /\ CARDS_PER_PLAYER - 1 # 0
    BY <1>1, <2>1, <2>3
  <2>5. \A d : Engine!IsThree(d) <=> IsThree(d)
    BY SameRules
  <2> HIDE DEF w
  <2>6. QED
    BY <1>4, <2>1, <2>4, <2>5 DEF ThreeIn, Engine!ThreeIn
<1> DEFINE abstract == Engine!FinalStatus(Engine!IsThree(best), game.winner, w,
                                game.winner = w /\ Engine!ThreeIn(w, CARDS_PER_PLAYER - 1),
                                w \in special)
<1>13. ends => abstract = st
  <2>1. Engine!IsThree(best) <=> IsThree(best)
    BY SameRules
  <2>2. (Engine!IsThree(best) = IsThree(best))
    BY <1>10, <2>1 DEF Engine!IsThree, Engine!Rank, IsThree, Rank
  <2>3. ends => (game.winner = w /\ Engine!ThreeIn(w, CARDS_PER_PLAYER - 1)) = again
    BY <1>10, <1>12 DEF Engine!ThreeIn
  <2>4. Engine!FinalStatus(IsThree(best), game.winner, w, again, w \in special) = st
    BY <1>10 DEF Engine!FinalStatus, FinalStatus
  <2>5. QED
    BY <2>2, <2>3, <2>4
<1>14. /\ game'.winner = w /\ game'.rank = w /\ game'.roll = game.roll + 1
       /\ game'.winCard = NoCard /\ game'.claim = game.claim
       /\ game'.status = IF ends THEN st ELSE game.status
  BY <1>1, <1>9 DEF Row
<1>15. ends <=> game.roll = CARDS_PER_PLAYER
  BY <1>1, <1>4 DEF Rounds
<1>16. ends => game'.status = abstract /\ Engine!Settle(w, abstract)
  <2>1. st \in Status
    BY <1>11 DEF Status
  <2> HIDE DEF st, w
  <2>2. ends => Engine!Settle(w, st)
    BY <1>9, <2>1, SameSettlement
  <2>3. QED
    BY <1>13, <1>14, <2>2
<1>17. ~ends => game'.status = game.status /\ credit' = credit
  BY <1>9, <1>14
<1>18. Engine!NewWinningCard(game.winCard, c) = best /\ Engine!Owner(best) = w
       /\ Engine!NoCard = NoCard
  BY SameRules, SameTable DEF best
<1> HIDE DEF c, w, st, ends, again
<1>19. Engine!PlayLast(SeatOf[p], c)
  BY <1>5, <1>6, <1>9, <1>14, <1>15, <1>16, <1>17, <1>18 DEF Engine!PlayLast, Engine!dealt
<1>20. c \in hand[SeatOf[p]]
  BY <1>4
<1>21. QED
  BY <1>1, <1>19, <1>20, SameTable DEF Engine!Next

LEMMA EngineClaims ==
  ASSUME Inv, SequentialInv, TrickInv, NEW p \in Req, CommitClaim(p)
  PROVE  Engine!Next
<1>1. game \in Row /\ SeatOf[p] \in Seats
  BY RequestHasSeat DEF Inv, TypeOK
<1>2. game.status = "Active" /\ game.claim = SeatOf[p]
  BY DEF SequentialInv, OneAtATime, CommitClaim
<1>3. /\ game'.status = "Finished" /\ game'.winner = SeatOf[p] /\ game'.claim = NoSeat
      /\ game'.rank = game.rank /\ game'.roll = game.roll /\ game'.winCard = game.winCard
      /\ UNCHANGED <<hand, special, round>>
  BY <1>1 DEF CommitClaim, Row, dealt
<1>4. Engine!Settle(SeatOf[p], "Finished")
  BY <1>1, SameSettlement DEF CommitClaim, Status, Terminal
<1>5. Engine!Claim(SeatOf[p])
  BY <1>2, <1>3, <1>4, SameTable DEF Engine!Claim, Engine!dealt
<1>6. QED
  BY <1>1, <1>5, SameTable DEF Engine!Next

LEMMA EngineDeclines ==
  ASSUME Inv, TrickInv, NEW p \in Req, Decline(p)
  PROVE  Engine!Next
<1>1. game \in Row /\ SeatOf[p] \in Seats /\ SeatOf[p] # NoSeat
  BY RequestHasSeat DEF Inv, TypeOK
<1>2. game.status = "Active" /\ game.claim = SeatOf[p]
  BY <1>1 DEF TrickInv, TableInv, Decline
<1>3. /\ game'.status = game.status /\ game'.winner = game.winner /\ game'.claim = NoSeat
      /\ game'.rank = game.rank /\ game'.roll = game.roll /\ game'.winCard = game.winCard
      /\ UNCHANGED <<hand, special, round, credit>>
  BY <1>1 DEF Decline, Row, dealt
<1>4. Engine!Decline(SeatOf[p])
  BY <1>2, <1>3, SameTable DEF Engine!Decline, Engine!dealt
<1>5. QED
  BY <1>1, <1>4, SameTable DEF Engine!Next

LEMMA EngineStep ==
  ASSUME ~StepByStep, Inv, SequentialInv, TrickInv, NEW p \in Req, Step(p) \/ Ask(p)
  PROVE  Engine!Next \/ UNCHANGED Engine!vars
<1>1. CASE CommitPlay(p) \/ CommitRound(p) \/ CommitClaim(p) \/ Decline(p)
  BY <1>1, EnginePlaysOn, EngineEndsRound, EngineClaims, EngineDeclines
<1>2. CASE ~(CommitPlay(p) \/ CommitRound(p) \/ CommitClaim(p) \/ Decline(p))
  <2>1. UNCHANGED <<dealt, rows>>
    BY <1>2 DEF Step, Ask, AskPlay, AskEvaluate, AskClaim, ValidateCard, RefuseCard, MarkCard,
       CountRound, Conflict, RetryPlay, BeginEvaluate, ListRound, ReadVersion, ClaimRefused,
       BeginPlay, BeginClaim
  <2>2. QED
    BY <2>1 DEF dealt, rows, Engine!vars
<1>3. QED
  BY <1>1, <1>2

\* With one request in flight for each seat, and rounds evaluated by the play that
\* completes them, a game of any size is one of TrickGame: seats play in turn, each
\* follows suit, the holder of the highest card of the suit led wins the round and
\* leads the next, and the pot is paid by the final status (card_play/, evaluation.rs,
\* turn_order.rs).
THEOREM SequentialGameIsTrickGame ==
  ASSUME \A p, q \in Req : SeatOf[p] = SeatOf[q] => p = q, ~StepByStep
  PROVE  Spec => ImplementsTrickGame
<1>1. Init => TrickInv
  <2> SUFFICES ASSUME Init PROVE TrickInv
    OBVIOUS
  <2>1. /\ game.status = "Active" /\ game.roll = 1 /\ game.winner = NoSeat
        /\ game.winCard = NoCard /\ game.rank \in Seats
    BY DEF Init
  <2>2. Table = {} /\ \A s \in Seats : ~Played(s)
    <3>1. \A s \in Seats : hand[s] \subseteq Deck
      BY HandInDeck DEF Init
    <3>2. QED
      BY <2>1, <3>1 DEF Init, Table, Played
  <2>3. InTurn
    <3>1. \A s \in Seats : Ahead(game.rank, s) \in 0..(N - 1) /\ Ahead(game.rank, game.rank) = 0
      BY <2>1, AheadOfNext
    <3>2. QED
      BY <2>1, <2>2, <3>1, NAssumption DEF InTurn
  <2>4. OneEach /\ Leads
    BY <2>1, <2>2 DEF OneEach, Leads, Played
  <2>5. TableInv
    BY <2>1, <2>3, <2>4 DEF Init, TableInv, RoundInv
  <2>6. \A p \in Req : Flight(p)
    BY DEF Init, Idle, Flight, Checked
  <2>7. QED
    BY <2>5, <2>6 DEF TrickInv
<1>2. Inv /\ SequentialInv /\ [Next]_vars => SequentialInv'
  <2>1. ASSUME SequentialInv, UNCHANGED vars PROVE SequentialInv'
    BY <2>1 DEF SequentialInv, SettledOnce, Due, OneAtATime, vars
  <2>2. QED
    BY <2>1, SequentialStep DEF Next
<1>3. Inv /\ SequentialInv /\ TrickInv /\ [Next]_vars => TrickInv'
  <2>1. ASSUME Inv, TrickInv, UNCHANGED vars PROVE TrickInv'
    <3>1. TableInv'
      BY <2>1, TableRests DEF TrickInv, vars, dealt, rows
    <3>2. ASSUME NEW p \in Req PROVE Flight(p)'
      <4>1. Flight(p)
        BY <2>1 DEF TrickInv
      <4>2. QED
        BY <2>1, <4>1 DEF vars, Flight, Unplayed, RoundIsComplete, Visible, IsPlay, TimeOf
    <3>3. QED
      BY <3>1, <3>2 DEF TrickInv
  <2>2. QED
    BY <2>1, TrickStep DEF Next
<1>4. Inv /\ SequentialInv /\ TrickInv /\ [Next]_vars => [Engine!Next]_Engine!vars
  <2>1. ASSUME UNCHANGED vars PROVE UNCHANGED Engine!vars
    BY <2>1 DEF vars, Engine!vars
  <2>2. QED
    BY <2>1, EngineStep DEF Next
<1>5. Spec => Engine!Init /\ [][Engine!Next]_Engine!vars
  BY <1>1, <1>2, <1>3, <1>4, EngineInit, SequentialInit, InvAlways, PTL DEF Spec
<1>6. QED
  BY <1>5 DEF ImplementsTrickGame, Engine!Spec
==============================================================================
