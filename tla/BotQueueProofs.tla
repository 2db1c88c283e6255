---------------------------- MODULE BotQueueProofs ----------------------------
(***************************************************************************)
(* Theorems about BotQueue for every number of games, seats, bots, permits  *)
(* and chains: while nothing fails, no turn of a bot is dropped between the *)
(* processes that hand it on.                                               *)
(***************************************************************************)
EXTENDS BotQueue, FiniteSetTheorems, TLAPS

USE QueueAssumption
------------------------------------------------------------------------------
\* The invariant.  What a fault has left behind is anybody's guess: the turn of a
\* bot is then in the hands of the scan.

GameRows == [status : {"Active", "Finished"}, turn : Seats, roll : 1..ROUNDS,
             done : SUBSET Seats]
SlotRows == [pc : {"locks", "game", "play", "next", "settle"}, task : Tasks,
             live : BOOLEAN, next : Seats \union {None}]
ChainRows == [pc : {"wait", "run", "next"}, game : Games, seat : Bots, tries : Nat,
              home : {"server", "worker"}]

RowsTyped == game \in [Games -> GameRows] /\ hand \in [Games -> [Seats -> SUBSET (1..ROUNDS)]]
QueueTyped == IsABag(queue) /\ BagToSet(queue) \subseteq Tasks
SlotsTyped ==
  /\ slot \in [Slots -> SlotRows \union {NoTask}]
  /\ \A i \in Slots : slot[i].pc = "next" => slot[i].task.hand # {}
ChainsTyped == chain \in [ChainIds -> ChainRows \union {NoChain}]
Typed ==
  RowsTyped /\ QueueTyped /\ SlotsTyped /\ ChainsTyped /\ due \subseteq Games \X Bots

\* The seats that have played in a round are those from its first seat up to the
\* turn, round the table.
Arc(first, turn) ==
  IF first <= turn THEN first..(turn - 1) ELSE (first..(N - 1)) \union (0..(turn - 1))
InOrder(g) ==
  game[g].status = "Active" => \E first \in Seats : game[g].done = Arc(first, game[g].turn)

\* The snapshot of a task is of now or of an earlier moment, and holds every card
\* that its seat still has.
Fresh(t) ==
  /\ hand[t.game][t.seat] \subseteq t.hand
  /\ t.at <= Plays(t.game)
  /\ game[t.game].status = "Active" /\ t.at = Plays(t.game) => t.hand = hand[t.game][t.seat]
TasksFresh ==
  /\ \A t \in BagToSet(queue) : Fresh(t)
  /\ \A i \in Slots : slot[i] # NoTask => Fresh(slot[i].task)

AllCarried == \A g \in Games : BotTurn(g) => Carried(g)

Calm ==
  /\ Typed /\ worker = "up"
  /\ \A g \in Games : InOrder(g)
  /\ TasksFresh /\ AllCarried

Inv == faults \in Nat /\ (faults = 0 => Calm)
------------------------------------------------------------------------------
\* Bags and records.

LEMMA BagAdd ==
  ASSUME NEW B, IsABag(B), NEW t
  PROVE  /\ IsABag(B (+) SetToBag({t}))
         /\ BagToSet(B (+) SetToBag({t})) = BagToSet(B) \union {t}
<1> DEFINE C == B (+) SetToBag({t})
<1>1. C = [e \in DOMAIN B \union {t} |->
             (IF e \in DOMAIN B THEN B[e] ELSE 0) + (IF e \in {t} THEN 1 ELSE 0)]
  BY DEF (+), SetToBag
<1>2. \A e \in DOMAIN B : B[e] \in Nat /\ B[e] > 0
  BY DEF IsABag
<1>3. \A e \in DOMAIN B \union {t} : C[e] \in {n \in Nat : n > 0}
  BY <1>1, <1>2
<1>4. DOMAIN C = DOMAIN B \union {t}
  BY <1>1
<1>5. C \in [DOMAIN C -> {n \in Nat : n > 0}]
  BY <1>1, <1>3, <1>4
<1>6. QED
  BY <1>4, <1>5 DEF IsABag, BagToSet

LEMMA BagTake ==
  ASSUME NEW B, IsABag(B), NEW t \in BagToSet(B)
  PROVE  /\ IsABag(B (-) SetToBag({t}))
         /\ BagToSet(B (-) SetToBag({t})) \subseteq BagToSet(B)
         /\ BagToSet(B) \ {t} \subseteq BagToSet(B (-) SetToBag({t}))
<1> DEFINE D == [e \in DOMAIN B |-> IF e \in {t} THEN B[e] - 1 ELSE B[e]]
           C == B (-) SetToBag({t})
<1>1. C = [e \in {d \in DOMAIN B : D[d] > 0} |-> D[e]]
  BY DEF (-), SetToBag
<1>2. \A e \in DOMAIN B : B[e] \in Nat /\ B[e] > 0
  BY DEF IsABag
<1>3. \A e \in DOMAIN B : D[e] \in Int /\ (e # t => D[e] > 0)
  BY <1>2
<1> HIDE DEF D
<1>4. DOMAIN C = {d \in DOMAIN B : D[d] > 0}
  BY <1>1
<1>5. C \in [DOMAIN C -> {n \in Nat : n > 0}]
  BY <1>1, <1>3, <1>4
<1>6. QED
  BY <1>3, <1>4, <1>5 DEF IsABag, BagToSet

\* A slot and a chain in use are told from free ones by their points.
LEMMA SlotInUse ==
  ASSUME SlotsTyped, NEW i \in Slots, slot[i].pc # "free"
  PROVE  slot[i] \in SlotRows /\ slot[i] # NoTask
  BY DEF SlotsTyped, NoTask

LEMMA ChainInUse ==
  ASSUME ChainsTyped, NEW k \in ChainIds, chain[k].pc # "none"
  PROVE  chain[k] \in ChainRows /\ chain[k] # NoChain
  BY DEF ChainsTyped, NoChain

\* The carriers, one by one.
Fits(t, g) == t.game = g /\ t.seat = game[g].turn /\ t.at = Plays(g)
DueFor(g) == <<g, game[g].turn>> \in due
QueueFor(g) == \E t \in BagToSet(queue) : Fits(t, g)
SlotFor(i, g) ==
  \/ slot[i].pc \in {"locks", "game", "play"} /\ Fits(slot[i].task, g)
  \/ slot[i].pc = "next" /\ slot[i].task.game = g /\ slot[i].next = game[g].turn
ChainFor(k, g) ==
  chain[k] # NoChain /\ chain[k].game = g
    /\ (chain[k].pc = "next" \/ chain[k].seat = game[g].turn)

LEMMA Carriers ==
  ASSUME NEW g \in Games
  PROVE  Carried(g) <=> \/ DueFor(g) \/ QueueFor(g)
                        \/ \E i \in Slots : SlotFor(i, g)
                        \/ \E k \in ChainIds : ChainFor(k, g)
  BY DEF Carried, Fits, DueFor, QueueFor, SlotFor, ChainFor
------------------------------------------------------------------------------
\* A play.

LEMMA PlaysIsNat ==
  ASSUME RowsTyped, NEW g \in Games
  PROVE  Plays(g) \in Nat /\ IsFiniteSet(game[g].done) /\ Cardinality(game[g].done) \in Nat
<1>1. game[g].roll \in 1..ROUNDS /\ game[g].done \in SUBSET Seats
  BY DEF RowsTyped, GameRows
<1>2. IsFiniteSet(Seats)
  BY FS_Interval DEF Seats
<1>3. IsFiniteSet(game[g].done) /\ Cardinality(game[g].done) \in Nat
  BY <1>1, <1>2, FS_Subset, FS_CardinalityType
<1>4. \A a \in Nat : a * N \in Nat
  OBVIOUS
<1>5. game[g].roll - 1 \in Nat
  BY <1>1
<1>6. QED
  BY <1>3, <1>4, <1>5 DEF Plays

\* The seat whose turn it is has not played; after its play the order is the same.
LEMMA TurnNotDone ==
  ASSUME RowsTyped, NEW g \in Games, InOrder(g), game[g].status = "Active"
  PROVE  game[g].turn \notin game[g].done
<1>1. game[g].turn \in Seats
  BY DEF RowsTyped, GameRows
<1>2. PICK first \in Seats : game[g].done = Arc(first, game[g].turn)
  BY DEF InOrder
<1>3. QED
  BY <1>1, <1>2 DEF Arc, Seats

LEMMA ArcGrows ==
  ASSUME NEW first \in Seats, NEW turn \in Seats, Arc(first, turn) \union {turn} # Seats
  PROVE  /\ (turn + 1) % N \in Seats
         /\ Arc(first, turn) \union {turn} = Arc(first, (turn + 1) % N)
<1>1. CASE turn + 1 < N
  <2>1. (turn + 1) % N = turn + 1
    BY <1>1 DEF Seats
  <2>2. CASE first <= turn
    BY <1>1, <2>1, <2>2 DEF Arc, Seats
  <2>3. CASE first = turn + 1
    BY <1>1, <2>3 DEF Arc, Seats
  <2>4. CASE first > turn + 1
    BY <1>1, <2>1, <2>4 DEF Arc, Seats
  <2>5. QED
    BY <2>2, <2>3, <2>4 DEF Seats
<1>2. CASE turn = N - 1
  <2>1. (turn + 1) % N = 0
    BY <1>2
  <2>2. first <= turn
    BY <1>2 DEF Seats
  <2>3. first # 0
    BY <1>2, <2>2 DEF Arc, Seats
  <2>4. QED
    BY <1>2, <2>1, <2>2, <2>3 DEF Arc, Seats
<1>3. QED
  BY <1>1, <1>2 DEF Seats

\* What a play does to the game: other games keep their rows, hands shrink, and a
\* game that goes on is a play further.
LEMMA PlayAdvances ==
  ASSUME RowsTyped, NEW g \in Games, InOrder(g), NEW s \in Seats, NEW c, PlayCard(g, s, c)
  PROVE  /\ RowsTyped' /\ InOrder(g)'
         /\ \A h \in Games \ {g} : game'[h] = game[h] /\ hand'[h] = hand[h]
         /\ \A u \in Seats : hand'[g][u] \subseteq hand[g][u]
         /\ Plays(g)' \in Nat /\ Plays(g)' >= Plays(g)
         /\ game'[g].status = "Active" => Plays(g)' > Plays(g)
<1> DEFINE now == game[g].done \union {s}
<1>1. /\ game[g] \in GameRows /\ game[g].status = "Active" /\ game[g].turn = s
      /\ game[g].roll \in 1..ROUNDS /\ game[g].done \in SUBSET Seats
      /\ hand[g] \in [Seats -> SUBSET (1..ROUNDS)]
  BY DEF PlayCard, Turn, RowsTyped, GameRows
<1>2. s \notin game[g].done
  BY <1>1, TurnNotDone
<1>3. /\ hand' \in [Games -> [Seats -> SUBSET (1..ROUNDS)]]
      /\ \A h \in Games \ {g} : hand'[h] = hand[h]
      /\ \A u \in Seats : hand'[g][u] \subseteq hand[g][u]
  BY <1>1 DEF PlayCard, RowsTyped
<1>4. Plays(g) \in Nat /\ IsFiniteSet(game[g].done) /\ Cardinality(game[g].done) \in Nat
  BY PlaysIsNat
<1>5. Cardinality(now) = Cardinality(game[g].done) + 1
  BY <1>2, <1>4, FS_AddElement
<1> DEFINE Wrote == game' \in [Games -> GameRows] /\ \A h \in Games \ {g} : game'[h] = game[h]
           Further == Plays(g)' = Plays(g) + 1
           Over == Plays(g)' = Plays(g) /\ game'[g].status = "Finished"
<1>6. ASSUME now # Seats, game' = [game EXCEPT ![g].turn = (s + 1) % N, ![g].done = now]
      PROVE  Wrote /\ InOrder(g)' /\ Further
  <2>1. PICK first \in Seats : game[g].done = Arc(first, s)
    BY <1>1 DEF InOrder
  <2>2. (s + 1) % N \in Seats /\ now = Arc(first, (s + 1) % N)
    BY <1>6, <2>1, ArcGrows
  <2>3. game'[g] = [game[g] EXCEPT !.turn = (s + 1) % N, !.done = now]
    BY <1>6 DEF RowsTyped
  <2>4. game'[g] \in GameRows
    BY <1>1, <2>2, <2>3 DEF GameRows
  <2>5. Wrote
    BY <1>6, <2>3, <2>4 DEF RowsTyped
  <2>6. game'[g].done = now /\ game'[g].turn = (s + 1) % N /\ game'[g].roll = game[g].roll
    BY <1>1, <2>3 DEF GameRows
  <2>7. InOrder(g)'
    BY <2>2, <2>6 DEF InOrder
  <2>8. Plays(g)' = (game[g].roll - 1) * N + (Cardinality(game[g].done) + 1)
    BY <1>5, <2>6 DEF Plays
  <2>9. (game[g].roll - 1) * N \in Int
    BY <1>1
  <2>10. Further
    BY <1>4, <2>8, <2>9 DEF Plays
  <2>11. QED
    BY <2>5, <2>7, <2>10
<1>7. ASSUME now = Seats,
             \E w \in Seats :
               game' = [game EXCEPT
                 ![g] = IF @.roll = ROUNDS THEN [@ EXCEPT !.status = "Finished", !.turn = w]
                        ELSE [@ EXCEPT !.roll = game[g].roll + 1, !.turn = w, !.done = {}]]
      PROVE  Wrote /\ InOrder(g)' /\ (Further \/ Over)
  <2>1. PICK w \in Seats :
               game' = [game EXCEPT
                 ![g] = IF @.roll = ROUNDS THEN [@ EXCEPT !.status = "Finished", !.turn = w]
                        ELSE [@ EXCEPT !.roll = game[g].roll + 1, !.turn = w, !.done = {}]]
    BY <1>7
  <2>2. game'[g] = IF game[g].roll = ROUNDS
                   THEN [game[g] EXCEPT !.status = "Finished", !.turn = w]
                   ELSE [game[g] EXCEPT !.roll = game[g].roll + 1, !.turn = w, !.done = {}]
    BY <2>1 DEF RowsTyped
  <2>3. (\A h \in Games \ {g} : game'[h] = game[h]) /\ DOMAIN game' = Games
        /\ game' = [h \in Games |-> game'[h]]
    BY <2>1 DEF RowsTyped
  <2>4. Cardinality(now) = N
    <3>1. Cardinality(0..(N - 1)) = (N - 1) - 0 + 1
      BY FS_Interval
    <3>2. now = 0..(N - 1)
      BY <1>7 DEF Seats
    <3>3. (N - 1) - 0 + 1 = N
      OBVIOUS
    <3> HIDE DEF now
    <3>4. QED
      BY <3>1, <3>2, <3>3
  <2>5. CASE game[g].roll = ROUNDS
    <3>1. game'[g] \in GameRows /\ game'[g].status = "Finished"
          /\ game'[g].roll = game[g].roll /\ game'[g].done = game[g].done
      BY <1>1, <2>2, <2>5 DEF GameRows
    <3>2. Wrote
      BY <2>3, <3>1 DEF RowsTyped
    <3>3. Over
      BY <3>1 DEF Plays
    <3>4. InOrder(g)'
      BY <3>1 DEF InOrder
    <3>5. QED
      BY <3>2, <3>3, <3>4
  <2>6. CASE game[g].roll # ROUNDS
    <3>1. game[g].roll + 1 \in 1..ROUNDS
      BY <1>1, <2>6
    <3>2. game'[g] = [game[g] EXCEPT !.roll = game[g].roll + 1, !.turn = w, !.done = {}]
      BY <2>2, <2>6
    <3>3. game'[g] \in GameRows /\ game'[g].turn = w
          /\ game'[g].roll = game[g].roll + 1 /\ game'[g].done = {}
      BY <1>1, <3>1, <3>2 DEF GameRows
    <3>4. Wrote
      BY <2>3, <3>3 DEF RowsTyped
    <3>5. InOrder(g)'
      <4>1. game'[g].done = Arc(w, w)
        BY <3>3 DEF Arc, Seats
      <4>2. QED
        BY <3>3, <4>1 DEF InOrder
    <3>6. Plays(g)' = game[g].roll * N
      <4>1. Cardinality(game'[g].done) = 0
        BY <3>3, FS_EmptySet
      <4>2. Plays(g)' = (game'[g].roll - 1) * N + Cardinality(game'[g].done)
        BY DEF Plays
      <4>3. game'[g].roll - 1 = game[g].roll /\ game[g].roll * N \in Int
        BY <1>1, <3>3
      <4>4. QED
        BY <4>1, <4>2, <4>3
    <3>7. game[g].roll * N = (game[g].roll - 1) * N + N
      <4>1. \A a \in Int : a * N = (a - 1) * N + N
        OBVIOUS
      <4>2. QED
        BY <1>1, <4>1
    <3>8. (game[g].roll - 1) * N \in Int
      BY <1>1
    <3>9. Plays(g) = (game[g].roll - 1) * N + (N - 1)
      BY <1>4, <1>5, <2>4, <3>8 DEF Plays
    <3>10. Further
      BY <3>6, <3>7, <3>8, <3>9
    <3>11. QED
      BY <3>4, <3>5, <3>10
  <2>7. QED
    BY <2>5, <2>6
<1> HIDE DEF Further, Over
<1>8. Wrote /\ InOrder(g)' /\ (Further \/ Over)
  BY <1>6, <1>7 DEF PlayCard
<1>9. Plays(g)' \in Nat /\ Plays(g)' >= Plays(g)
      /\ (game'[g].status = "Active" => Plays(g)' > Plays(g))
  <2>1. CASE Further
    BY <1>4, <2>1 DEF Further
  <2>2. CASE Over
    BY <1>4, <2>2 DEF Over
  <2>3. QED
    BY <1>8, <2>1, <2>2
<1>10. RowsTyped'
  BY <1>3, <1>8 DEF RowsTyped
<1>11. QED
  BY <1>3, <1>8, <1>9, <1>10
------------------------------------------------------------------------------
\* Writing a slot or a chain, publishing and spawning.

LEMMA SlotWritten ==
  ASSUME SlotsTyped, NEW i \in Slots, NEW v \in SlotRows \union {NoTask},
         v.pc = "next" => v.task.hand # {},
         slot' = [slot EXCEPT ![i] = v]
  PROVE  SlotsTyped' /\ slot'[i] = v /\ \A j \in Slots \ {i} : slot'[j] = slot[j]
<1>1. slot'[i] = v /\ \A j \in Slots \ {i} : slot'[j] = slot[j]
  BY DEF SlotsTyped
<1>2. slot' \in [Slots -> SlotRows \union {NoTask}]
  BY DEF SlotsTyped
<1>3. QED
  BY <1>1, <1>2 DEF SlotsTyped

LEMMA ChainWritten ==
  ASSUME ChainsTyped, NEW k \in ChainIds, NEW v \in ChainRows \union {NoChain},
         chain' = [chain EXCEPT ![k] = v]
  PROVE  ChainsTyped' /\ chain'[k] = v /\ \A j \in ChainIds \ {k} : chain'[j] = chain[j]
  BY DEF ChainsTyped

LEMMA SpawnWrites ==
  ASSUME ChainsTyped, NEW g \in Games, NEW s \in Bots, NEW home \in {"server", "worker"},
         Spawn(g, s, home)
  PROVE  /\ ChainsTyped'
         /\ \E k \in ChainIds : chain'[k] # NoChain /\ chain'[k].game = g /\ chain'[k].seat = s
         /\ \A k \in ChainIds : chain[k] # NoChain => chain'[k] = chain[k]
<1> DEFINE v == [pc |-> "wait", game |-> g, seat |-> s, tries |-> 0, home |-> home]
<1>1. PICK k \in ChainIds : chain[k] = NoChain /\ chain' = [chain EXCEPT ![k] = v]
  BY DEF Spawn
<1>2. v \in ChainRows
  BY DEF ChainRows
<1>3. ChainsTyped' /\ chain'[k] = v /\ \A j \in ChainIds \ {k} : chain'[j] = chain[j]
  BY <1>1, <1>2, ChainWritten
<1>4. v # NoChain /\ v.game = g /\ v.seat = s
  BY DEF NoChain
<1>5. QED
  BY <1>1, <1>3, <1>4

LEMMA PublishWrites ==
  ASSUME faults = 0, faults' = 0, QueueTyped, NEW t \in Tasks, NEW home, Publish(t, home)
  PROVE  /\ QueueTyped' /\ chain' = chain
         /\ BagToSet(queue') = BagToSet(queue) \union {t}
<1>1. ~Fault
  BY DEF Fault
<1>2. queue' = queue (+) SetToBag({t}) /\ chain' = chain
  BY <1>1 DEF Publish
<1>3. IsABag(queue) /\ BagToSet(queue) \subseteq Tasks
  BY DEF QueueTyped
<1>4. IsABag(queue') /\ BagToSet(queue') = BagToSet(queue) \union {t}
  BY <1>2, <1>3, BagAdd
<1>5. QED
  BY <1>2, <1>3, <1>4 DEF QueueTyped

LEMMA FullTaskIsFresh ==
  ASSUME RowsTyped, NEW g \in Games, NEW s \in Seats
  PROVE  /\ FullTask(g, s) \in Tasks /\ Fresh(FullTask(g, s))
         /\ s = game[g].turn => Fits(FullTask(g, s), g)
<1> DEFINE t == FullTask(g, s)
<1>1. Plays(g) \in Nat /\ hand[g][s] \in SUBSET (1..ROUNDS)
  BY PlaysIsNat DEF RowsTyped
<1>2. t.game = g /\ t.seat = s /\ t.hand = hand[g][s] /\ t.at = Plays(g)
  BY DEF FullTask
<1>3. t \in Tasks
  BY <1>1 DEF FullTask, Tasks
<1> HIDE DEF t
<1>4. Fresh(t) /\ (s = game[g].turn => Fits(t, g))
  BY <1>1, <1>2 DEF Fresh, Fits
<1>5. QED
  BY <1>3, <1>4 DEF t

\* A game whose row stands is carried by whom it was, and its snapshots are as
\* fresh as they were.
LEMMA RowStands ==
  ASSUME NEW g \in Games, game'[g] = game[g], hand'[g] = hand[g]
  PROVE  /\ Plays(g)' = Plays(g) /\ (BotTurn(g)' <=> BotTurn(g))
         /\ InOrder(g)' <=> InOrder(g)
         /\ \A t : t.game = g => (Fresh(t)' <=> Fresh(t))
         /\ \A t : Fits(t, g)' <=> Fits(t, g)
<1>1. Plays(g)' = Plays(g)
  BY DEF Plays
<1>2. (BotTurn(g)' <=> BotTurn(g)) /\ (InOrder(g)' <=> InOrder(g))
  BY DEF BotTurn, InOrder
<1>3. \A t : t.game = g => (Fresh(t)' <=> Fresh(t))
  BY <1>1 DEF Fresh
<1>4. \A t : Fits(t, g)' <=> Fits(t, g)
  BY <1>1 DEF Fits
<1>5. QED
  BY <1>1, <1>2, <1>3, <1>4

LEMMA CarriersAfter ==
  ASSUME NEW g \in Games
  PROVE  Carried(g)' <=> \/ DueFor(g)' \/ QueueFor(g)'
                         \/ \E i \in Slots : SlotFor(i, g)'
                         \/ \E k \in ChainIds : ChainFor(k, g)'
  BY DEF Carried, Fits, DueFor, QueueFor, SlotFor, ChainFor
------------------------------------------------------------------------------
\* The actions that leave the games alone.

LEMMA RowsStand ==
  ASSUME Calm, UNCHANGED rows
  PROVE  /\ RowsTyped' /\ \A g \in Games : InOrder(g)'
         /\ \A g \in Games : BotTurn(g)' => BotTurn(g)
         /\ \A g \in Games : Plays(g)' = Plays(g)
         /\ \A t \in Tasks : Fresh(t)' <=> Fresh(t)
         /\ \A g \in Games : \A t : Fits(t, g)' <=> Fits(t, g)
<1>1. RowsTyped'
  BY DEF Calm, Typed, RowsTyped, rows
<1>2. \A g \in Games : game'[g] = game[g] /\ hand'[g] = hand[g]
  BY DEF rows
<1>3. \A t \in Tasks : t.game \in Games
  BY DEF Tasks
<1>4. \A g \in Games : InOrder(g)
  BY DEF Calm
<1>5. QED
  BY <1>1, <1>2, <1>3, <1>4, RowStands

\* What does not move carries on.
LEMMA CarriersStay ==
  ASSUME NEW g \in Games, game'[g] = game[g], hand'[g] = hand[g]
  PROVE  /\ DueFor(g) /\ due \subseteq due' => DueFor(g)'
         /\ QueueFor(g) /\ BagToSet(queue) \subseteq BagToSet(queue') => QueueFor(g)'
         /\ \A i \in Slots : SlotFor(i, g) /\ slot'[i] = slot[i] => SlotFor(i, g)'
         /\ \A k \in ChainIds : ChainFor(k, g) /\ chain'[k] = chain[k] => ChainFor(k, g)'
<1>1. \A t : Fits(t, g)' <=> Fits(t, g)
  BY RowStands
<1>2. DueFor(g) /\ due \subseteq due' => DueFor(g)'
  BY DEF DueFor
<1>3. QueueFor(g) /\ BagToSet(queue) \subseteq BagToSet(queue') => QueueFor(g)'
  BY <1>1 DEF QueueFor
<1>4. \A i \in Slots : SlotFor(i, g) /\ slot'[i] = slot[i] => SlotFor(i, g)'
  BY <1>1 DEF SlotFor
<1>5. \A k \in ChainIds : ChainFor(k, g) /\ chain'[k] = chain[k] => ChainFor(k, g)'
  BY DEF ChainFor
<1>6. QED
  BY <1>2, <1>3, <1>4, <1>5

\* A carrier that goes has to leave the turn with another.
LEMMA CarriedStays ==
  ASSUME NEW g \in Games, game'[g] = game[g], hand'[g] = hand[g], Carried(g),
         DueFor(g) => due \subseteq due' \/ Carried(g)',
         \A t \in BagToSet(queue) : Fits(t, g) => t \in BagToSet(queue') \/ Carried(g)',
         \A i \in Slots : SlotFor(i, g) => slot'[i] = slot[i] \/ Carried(g)',
         \A k \in ChainIds : ChainFor(k, g) => chain'[k] = chain[k] \/ Carried(g)'
  PROVE  Carried(g)'
<1>1. CASE DueFor(g)
  BY <1>1, CarriersStay, CarriersAfter
<1>2. ASSUME NEW t \in BagToSet(queue), Fits(t, g)
      PROVE  Carried(g)'
  <2>1. CASE t \in BagToSet(queue')
    <3>1. Fits(t, g)'
      BY <1>2, RowStands
    <3>2. QueueFor(g)'
      BY <2>1, <3>1 DEF QueueFor
    <3>3. QED
      BY <3>2, CarriersAfter
  <2>2. QED
    BY <1>2, <2>1
<1>3. ASSUME NEW i \in Slots, SlotFor(i, g)
      PROVE  Carried(g)'
  BY <1>3, CarriersStay, CarriersAfter
<1>4. ASSUME NEW k \in ChainIds, ChainFor(k, g)
      PROVE  Carried(g)'
  BY <1>4, CarriersStay, CarriersAfter
<1>5. QED
  BY <1>1, <1>2, <1>3, <1>4, Carriers DEF QueueFor

LEMMA FreshStays ==
  ASSUME Calm, UNCHANGED rows,
         \A t \in BagToSet(queue') : t \in Tasks /\ Fresh(t),
         \A i \in Slots : \/ slot'[i] = NoTask
                         \/ (slot'[i].task = slot[i].task /\ slot[i] # NoTask)
                         \/ slot'[i].task \in BagToSet(queue)
  PROVE  TasksFresh'
<1>1. \A t \in BagToSet(queue') : Fresh(t)'
  BY RowsStand
<1>2. ASSUME NEW i \in Slots
      PROVE  slot'[i] = NoTask \/ \E t \in Tasks : slot'[i].task = t /\ Fresh(t)
  <2>1. slot[i] # NoTask => slot[i].task \in Tasks /\ Fresh(slot[i].task)
    BY DEF Calm, Typed, SlotsTyped, SlotRows, TasksFresh
  <2>2. \A t \in BagToSet(queue) : t \in Tasks /\ Fresh(t)
    BY DEF Calm, Typed, QueueTyped, TasksFresh
  <2>3. QED
    BY <2>1, <2>2
<1>3. \A i \in Slots : slot'[i] = NoTask \/ \E t \in Tasks : slot'[i].task = t /\ Fresh(t)'
  BY <1>2, RowsStand
<1>4. \A i \in Slots : (slot[i] # NoTask => Fresh(slot[i].task))'
  BY <1>3
<1>5. QED
  BY <1>1, <1>4 DEF TasksFresh

LEMMA ScheduleKeeps ==
  ASSUME Calm, faults = 0, faults' = 0, NEW g \in Games, NEW s \in Seats, Schedule(g, s)
  PROVE  Calm'
<1>1. <<g, s>> \in due /\ due' = due \ {<<g, s>>} /\ s \in Bots
  BY DEF Schedule, Calm, Typed
<1>2. UNCHANGED rows /\ UNCHANGED worker /\ UNCHANGED slot
  BY DEF Schedule
<1>3. RowsTyped /\ QueueTyped /\ ChainsTyped /\ SlotsTyped /\ SlotsTyped'
      /\ due' \subseteq Games \X Bots
  BY <1>1, <1>2 DEF Calm, Typed, SlotsTyped
<1>4. ~Fault
  BY DEF Fault
<1>5. PICK t \in Tasks :
        t = FullTask(g, s) /\ Fresh(t) /\ (s = game[g].turn => Fits(t, g))
  BY <1>3, FullTaskIsFresh
<1>6. \/ /\ QueueTyped' /\ chain' = chain /\ BagToSet(queue') = BagToSet(queue) \union {t}
      \/ Spawn(g, s, "server") /\ queue' = queue
  BY <1>3, <1>4, <1>5, PublishWrites DEF Schedule
<1>7. TasksFresh'
  <2>1. \A u \in BagToSet(queue') : u \in Tasks /\ Fresh(u)
    BY <1>3, <1>5, <1>6 DEF Calm, TasksFresh, QueueTyped
  <2>2. \A i \in Slots : slot'[i] = NoTask \/ (slot'[i].task = slot[i].task /\ slot[i] # NoTask)
    BY <1>2
  <2>3. QED
    BY <1>2, <2>1, <2>2, FreshStays
<1>8. QueueTyped' /\ ChainsTyped'
  BY <1>1, <1>3, <1>6, SpawnWrites DEF QueueTyped, ChainsTyped
<1>9. ASSUME NEW h \in Games, BotTurn(h)'
      PROVE  Carried(h)'
  <2>1. game'[h] = game[h] /\ hand'[h] = hand[h]
    BY <1>2 DEF rows
  <2>2. Carried(h)
    BY <1>2, <1>9, RowsStand DEF Calm, AllCarried
  <2>3. DueFor(h) => due \subseteq due' \/ Carried(h)'
    <3>1. CASE h = g /\ game[h].turn = s
      <4>1. CASE BagToSet(queue') = BagToSet(queue) \union {t}
        <5>1. Fits(t, h)'
          BY <1>5, <2>1, <3>1, RowStands
        <5>2. QED
          BY <4>1, <5>1, CarriersAfter DEF QueueFor
      <4>2. CASE Spawn(g, s, "server")
        BY <1>1, <1>3, <2>1, <3>1, <4>2, SpawnWrites, CarriersAfter DEF ChainFor
      <4>3. QED
        BY <1>6, <4>1, <4>2
    <3>2. CASE ~(h = g /\ game[h].turn = s)
      <4>1. DueFor(h) => DueFor(h)'
        BY <1>1, <2>1, <3>2 DEF DueFor
      <4>2. QED
        BY <4>1, CarriersAfter
    <3>3. QED
      BY <3>1, <3>2
  <2>4. BagToSet(queue) \subseteq BagToSet(queue')
    BY <1>6
  <2>5. \A k \in ChainIds : ChainFor(k, h) => chain'[k] = chain[k]
    BY <1>1, <1>3, <1>6, SpawnWrites DEF ChainFor
  <2>6. QED
    BY <1>2, <2>1, <2>2, <2>3, <2>4, <2>5, CarriedStays
<1>10. QED
  BY <1>2, <1>3, <1>7, <1>8, <1>9, RowsStand DEF Calm, Typed, AllCarried

LEMMA RecoverKeeps ==
  ASSUME Calm, faults = 0, faults' = 0, NEW g \in Games, Recover(g)
  PROVE  Calm'
<1>1. UNCHANGED rows /\ UNCHANGED <<due, queue, worker, slot>>
  BY DEF Recover
<1>2. game[g].turn \in Bots /\ Spawn(g, game[g].turn, "server")
  BY DEF Recover, Stalled, BotTurn
<1>3. /\ ChainsTyped'
      /\ \A k \in ChainIds : chain[k] # NoChain => chain'[k] = chain[k]
  BY <1>2, SpawnWrites DEF Calm, Typed
<1>4. QueueTyped /\ QueueTyped' /\ SlotsTyped' /\ due' \subseteq Games \X Bots
  BY <1>1 DEF Calm, Typed, QueueTyped, SlotsTyped
<1>5. TasksFresh'
  <2>1. \A u \in BagToSet(queue') : u \in Tasks /\ Fresh(u)
    BY <1>1, <1>4 DEF Calm, TasksFresh, QueueTyped
  <2>2. \A i \in Slots : slot'[i] = NoTask \/ (slot'[i].task = slot[i].task /\ slot[i] # NoTask)
    BY <1>1
  <2>3. QED
    BY <1>1, <2>1, <2>2, FreshStays
<1>6. ASSUME NEW h \in Games, BotTurn(h)'
      PROVE  Carried(h)'
  <2>1. game'[h] = game[h] /\ hand'[h] = hand[h] /\ Carried(h)
    BY <1>1, <1>6, RowsStand DEF rows, Calm, AllCarried
  <2>2. \A k \in ChainIds : ChainFor(k, h) => chain'[k] = chain[k]
    BY <1>3 DEF ChainFor
  <2>3. QED
    BY <1>1, <2>1, <2>2, CarriedStays
<1>7. QED
  BY <1>1, <1>3, <1>4, <1>5, <1>6, RowsStand DEF Calm, Typed, AllCarried

LEMMA ChainStartKeeps ==
  ASSUME Calm, NEW k \in ChainIds, ChainStart(k)
  PROVE  Calm'
<1>1. UNCHANGED rows /\ UNCHANGED <<due, queue, worker, slot>>
  BY DEF ChainStart
<1> DEFINE v == [chain[k] EXCEPT !.pc = "run"]
<1>2. chain[k] \in ChainRows /\ chain[k] # NoChain
  BY ChainInUse DEF ChainStart, Calm, Typed
<1>3. v \in ChainRows /\ v.game = chain[k].game /\ v.seat = chain[k].seat /\ v # NoChain
  BY <1>2 DEF ChainRows, NoChain
<1>4. chain' = [chain EXCEPT ![k] = v]
  BY DEF ChainStart
<1>5. ChainsTyped' /\ chain'[k] = v /\ \A j \in ChainIds \ {k} : chain'[j] = chain[j]
  BY <1>3, <1>4, ChainWritten DEF Calm, Typed
<1>6. QueueTyped /\ QueueTyped' /\ SlotsTyped' /\ due' \subseteq Games \X Bots
  BY <1>1 DEF Calm, Typed, QueueTyped, SlotsTyped
<1>7. TasksFresh'
  <2>1. \A u \in BagToSet(queue') : u \in Tasks /\ Fresh(u)
    BY <1>1, <1>6 DEF Calm, TasksFresh, QueueTyped
  <2>2. \A i \in Slots : slot'[i] = NoTask \/ (slot'[i].task = slot[i].task /\ slot[i] # NoTask)
    BY <1>1
  <2>3. QED
    BY <1>1, <2>1, <2>2, FreshStays
<1>8. ASSUME NEW h \in Games, BotTurn(h)'
      PROVE  Carried(h)'
  <2>1. game'[h] = game[h] /\ hand'[h] = hand[h] /\ Carried(h)
    BY <1>1, <1>8, RowsStand DEF rows, Calm, AllCarried
  <2>2. ChainFor(k, h) => Carried(h)'
    <3>1. chain[k].pc = "wait"
      BY DEF ChainStart
    <3>2. ChainFor(k, h) => ChainFor(k, h)'
      BY <1>3, <1>5, <2>1, <3>1 DEF ChainFor
    <3>3. QED
      BY <3>2, CarriersAfter
  <2>3. \A j \in ChainIds : ChainFor(j, h) => chain'[j] = chain[j] \/ Carried(h)'
    BY <1>5, <2>2
  <2>4. QED
    BY <1>1, <2>1, <2>3, CarriedStays
<1>9. QED
  BY <1>1, <1>5, <1>6, <1>7, <1>8, RowsStand DEF Calm, Typed, AllCarried

------------------------------------------------------------------------------
\* The actions that play a card.

LEMMA AfterPlay ==
  ASSUME Calm, NEW g \in Games, NEW s \in Seats, NEW c, PlayCard(g, s, c)
  PROVE  /\ RowsTyped' /\ \A h \in Games : InOrder(h)'
         /\ \A h \in Games \ {g} : game'[h] = game[h] /\ hand'[h] = hand[h]
         /\ \A t \in Tasks : Fresh(t) => Fresh(t)'
         /\ \A h \in Games \ {g} : BotTurn(h)' => BotTurn(h)
<1>1. RowsTyped /\ InOrder(g) /\ \A h \in Games : InOrder(h)
  BY DEF Calm, Typed
<1>2. Plays(g) \in Nat
  BY <1>1, PlaysIsNat
<1>3. /\ RowsTyped' /\ InOrder(g)'
      /\ \A h \in Games \ {g} : game'[h] = game[h] /\ hand'[h] = hand[h]
      /\ \A u \in Seats : hand'[g][u] \subseteq hand[g][u]
      /\ Plays(g)' \in Nat /\ Plays(g)' >= Plays(g)
      /\ game'[g].status = "Active" => Plays(g)' > Plays(g)
  BY <1>1, PlayAdvances
<1>4. ASSUME NEW t \in Tasks, Fresh(t)
      PROVE  Fresh(t)'
  <2>1. t.game \in Games /\ t.seat \in Seats /\ t.at \in Nat
    BY DEF Tasks
  <2>2. CASE t.game = g
    <3>1. hand'[g][t.seat] \subseteq t.hand
      BY <1>3, <1>4, <2>1, <2>2 DEF Fresh
    <3>2. t.at <= Plays(g)
      BY <1>4, <2>2 DEF Fresh
    <3>3. t.at <= Plays(g)'
      BY <1>2, <1>3, <2>1, <3>2
    <3>4. ~(game'[g].status = "Active" /\ t.at = Plays(g)')
      BY <1>2, <1>3, <2>1, <3>2
    <3>5. QED
      BY <2>2, <3>1, <3>3, <3>4 DEF Fresh
  <2>3. CASE t.game # g
    <3>1. Fresh(t)' <=> Fresh(t)
      BY <1>3, <2>1, <2>3, RowStands
    <3>2. QED
      BY <1>4, <3>1
  <2>4. QED
    BY <2>2, <2>3
<1>5. \A h \in Games : InOrder(h)'
  BY <1>1, <1>3, RowStands
<1>6. \A h \in Games \ {g} : BotTurn(h)' => BotTurn(h)
  BY <1>3, RowStands
<1>7. QED
  BY <1>3, <1>4, <1>5, <1>6

LEMMA FreshAfterPlay ==
  ASSUME Calm, NEW g \in Games, NEW s \in Seats, NEW c, PlayCard(g, s, c), queue' = queue,
         \A i \in Slots : \/ slot'[i] = NoTask
                         \/ (slot'[i].task = slot[i].task /\ slot[i] # NoTask)
  PROVE  TasksFresh'
<1>1. \A t \in BagToSet(queue') : Fresh(t)'
  BY AfterPlay DEF Calm, Typed, QueueTyped, TasksFresh
<1>2. \A i \in Slots : slot[i] # NoTask => slot[i].task \in Tasks /\ Fresh(slot[i].task)
  BY DEF Calm, Typed, SlotsTyped, SlotRows, TasksFresh
<1>3. \A i \in Slots : slot'[i] = NoTask \/ \E t \in Tasks : slot'[i].task = t /\ Fresh(t)
  BY <1>2
<1>4. \A i \in Slots : slot'[i] = NoTask \/ \E t \in Tasks : slot'[i].task = t /\ Fresh(t)'
  BY <1>3, AfterPlay
<1>5. \A i \in Slots : (slot[i] # NoTask => Fresh(slot[i].task))'
  BY <1>4
<1>6. QED
  BY <1>1, <1>5 DEF TasksFresh

LEMMA HumanPlaysKeeps ==
  ASSUME Calm, NEW g \in Games, HumanPlays(g)
  PROVE  Calm'
<1>0. PICK s \in Seats : \E c : PlayCard(g, s, c)
  BY DEF HumanPlays
<1>1. PICK c : PlayCard(g, s, c)
  BY <1>0
<1>2. UNCHANGED <<queue, worker, slot, chain>>
  BY DEF HumanPlays
<1>3. /\ RowsTyped' /\ \A h \in Games : InOrder(h)'
      /\ \A h \in Games \ {g} : game'[h] = game[h] /\ hand'[h] = hand[h]
      /\ \A h \in Games \ {g} : BotTurn(h)' => BotTurn(h)
  BY <1>1, AfterPlay
<1>4. due \subseteq due' /\ due' \subseteq Games \X Bots
      /\ (BotTurn(g)' => <<g, game'[g].turn>> \in due')
  BY DEF HumanPlays, BotTurn, Turn, Calm, Typed
<1>5. QueueTyped' /\ SlotsTyped' /\ ChainsTyped'
  BY <1>2 DEF Calm, Typed, QueueTyped, SlotsTyped, ChainsTyped
<1>6. TasksFresh'
  BY <1>1, <1>2, FreshAfterPlay
<1>7. ASSUME NEW h \in Games, BotTurn(h)'
      PROVE  Carried(h)'
  <2>1. CASE h = g
    <3>1. DueFor(g)'
      BY <1>4, <1>7, <2>1 DEF DueFor
    <3>2. QED
      BY <2>1, <3>1, CarriersAfter
  <2>2. CASE h # g
    <3>1. game'[h] = game[h] /\ hand'[h] = hand[h] /\ Carried(h)
      BY <1>3, <1>7, <2>2 DEF Calm, AllCarried
    <3>2. QED
      BY <1>2, <1>4, <3>1, CarriedStays
  <2>3. QED
    BY <2>1, <2>2
<1>8. QED
  BY <1>2, <1>3, <1>4, <1>5, <1>6, <1>7 DEF Calm, Typed, AllCarried

LEMMA ChainMoveKeeps ==
  ASSUME Calm, faults = 0, faults' = 0, NEW k \in ChainIds, ChainMove(k)
  PROVE  Calm'
<1> DEFINE g == chain[k].game
           s == chain[k].seat
           more == [chain[k] EXCEPT !.tries = chain[k].tries + 1, !.pc = "run"]
           again == IF chain[k].tries < MaxTries THEN more ELSE NoChain
           next == [chain[k] EXCEPT !.pc = "next"]
<1>1. chain[k] \in ChainRows /\ chain[k] # NoChain /\ chain[k].pc = "run"
  BY ChainInUse DEF ChainMove, Calm, Typed
<1>2. g \in Games /\ s \in Bots /\ s \in Seats /\ chain[k].tries \in Nat
  BY <1>1 DEF ChainRows
<1>3. UNCHANGED <<due, queue, worker, slot>>
  BY DEF ChainMove
<1>4. QueueTyped /\ QueueTyped' /\ SlotsTyped' /\ due' \subseteq Games \X Bots /\ ChainsTyped
  BY <1>3 DEF Calm, Typed, QueueTyped, SlotsTyped
<1>5. \A i \in Slots : slot'[i] = NoTask \/ (slot'[i].task = slot[i].task /\ slot[i] # NoTask)
  BY <1>3
<1>6. \/ (\E c \in hand[g][s] : PlayCard(g, s, c)) /\ chain' = [chain EXCEPT ![k] = next]
      \/ ~Turn(g, s) /\ chain' = [chain EXCEPT ![k] = again] /\ UNCHANGED rows
  BY DEF ChainMove, Fault, TryAgain
<1>7. CASE (\E c \in hand[g][s] : PlayCard(g, s, c)) /\ chain' = [chain EXCEPT ![k] = next]
  <2>1. PICK c : PlayCard(g, s, c)
    BY <1>7
  <2>2. next \in ChainRows /\ next.game = g /\ next.pc = "next" /\ next # NoChain
    BY <1>1 DEF ChainRows, NoChain
  <2>3. ChainsTyped' /\ chain'[k] = next /\ \A j \in ChainIds \ {k} : chain'[j] = chain[j]
    BY <1>4, <1>7, <2>2, ChainWritten
  <2>4. PICK x \in Games, y \in Seats : x = g /\ y = s /\ PlayCard(x, y, c)
    BY <1>2, <2>1
  <2>5. TasksFresh'
    BY <1>3, <1>5, <2>4, FreshAfterPlay
  <2>6. /\ RowsTyped' /\ \A h \in Games : InOrder(h)'
        /\ \A h \in Games \ {x} : game'[h] = game[h] /\ hand'[h] = hand[h]
        /\ \A h \in Games \ {x} : BotTurn(h)' => BotTurn(h)
    BY <2>4, AfterPlay
  <2>7. ASSUME NEW h \in Games, BotTurn(h)'
        PROVE  Carried(h)'
    <3>1. CASE h = x
      <4>1. ChainFor(k, h)'
        BY <2>2, <2>3, <2>4, <3>1 DEF ChainFor
      <4>2. QED
        BY <4>1, CarriersAfter
    <3>2. CASE h # x
      <4>1. game'[h] = game[h] /\ hand'[h] = hand[h] /\ Carried(h)
        BY <2>6, <2>7, <3>2 DEF Calm, AllCarried
      <4>2. \A j \in ChainIds : ChainFor(j, h) => chain'[j] = chain[j] \/ Carried(h)'
        BY <2>3, <2>4, <3>2 DEF ChainFor
      <4>3. QED
        BY <1>3, <4>1, <4>2, CarriedStays
    <3>3. QED
      BY <3>1, <3>2
  <2>8. QED
    BY <1>3, <1>4, <2>3, <2>5, <2>6, <2>7 DEF Calm, Typed, AllCarried
<1>8. CASE ~Turn(g, s) /\ chain' = [chain EXCEPT ![k] = again] /\ UNCHANGED rows
  <2>1. again \in ChainRows \union {NoChain}
    <3>1. PICK n \in Nat : n = chain[k].tries + 1
      BY <1>2
    <3>2. [chain[k] EXCEPT !.tries = n, !.pc = "run"] \in ChainRows
      BY <1>1 DEF ChainRows
    <3>3. more \in ChainRows
      BY <3>1, <3>2
    <3> HIDE DEF more
    <3>4. QED
      BY <3>3
  <2>2. ChainsTyped' /\ \A j \in ChainIds \ {k} : chain'[j] = chain[j]
    BY <1>4, <1>8, <2>1, ChainWritten
  <2>3. TasksFresh'
    <3>1. \A u \in BagToSet(queue') : u \in Tasks /\ Fresh(u)
      BY <1>3, <1>4 DEF Calm, TasksFresh, QueueTyped
    <3>2. QED
      BY <1>5, <1>8, <3>1, FreshStays
  <2>4. ASSUME NEW h \in Games, BotTurn(h)'
        PROVE  Carried(h)'
    <3>1. game'[h] = game[h] /\ hand'[h] = hand[h] /\ Carried(h) /\ BotTurn(h)
      BY <1>8, <2>4, RowsStand DEF rows, Calm, AllCarried
    <3>2. ~ChainFor(k, h)
      BY <1>1, <1>8, <3>1 DEF ChainFor, BotTurn, Turn
    <3>3. \A j \in ChainIds : ChainFor(j, h) => chain'[j] = chain[j]
      BY <2>2, <3>2
    <3>4. QED
      BY <1>3, <3>1, <3>3, CarriedStays
  <2>5. QED
    BY <1>3, <1>4, <1>8, <2>2, <2>3, <2>4, RowsStand DEF Calm, Typed, AllCarried
<1>9. QED
  BY <1>6, <1>7, <1>8

------------------------------------------------------------------------------
\* The chain's next seat, and the worker's steps.

LEMMA ChainNextKeeps ==
  ASSUME Calm, faults = 0, faults' = 0, NEW k \in ChainIds, ChainNext(k)
  PROVE  Calm'
<1> DEFINE g == chain[k].game
           next == game[g].turn
           v == IF next \in Bots
                  THEN [chain[k] EXCEPT !.seat = next, !.tries = 0, !.pc = "run"] ELSE NoChain
<1>1. chain[k] \in ChainRows /\ chain[k] # NoChain
  BY ChainInUse DEF ChainNext, Calm, Typed
<1>2. UNCHANGED rows /\ UNCHANGED <<due, queue, worker, slot>>
  BY DEF ChainNext
<1>3. chain' = [chain EXCEPT ![k] = v]
  BY DEF ChainNext, Fault
<1>4. /\ v \in ChainRows \union {NoChain}
      /\ next \in Bots => v # NoChain /\ v.game = g /\ v.seat = next
  <2>1. CASE next \in Bots
    <3>1. [chain[k] EXCEPT !.seat = next, !.tries = 0, !.pc = "run"] \in ChainRows
      BY <1>1, <2>1 DEF ChainRows
    <3>2. [chain[k] EXCEPT !.seat = next, !.tries = 0, !.pc = "run"].game = g
          /\ [chain[k] EXCEPT !.seat = next, !.tries = 0, !.pc = "run"].seat = next
          /\ [chain[k] EXCEPT !.seat = next, !.tries = 0, !.pc = "run"].pc # "none"
      BY <1>1 DEF ChainRows
    <3>3. QED
      BY <2>1, <3>1, <3>2 DEF NoChain
  <2>2. QED
    BY <2>1
<1>5. ChainsTyped' /\ chain'[k] = v /\ \A j \in ChainIds \ {k} : chain'[j] = chain[j]
  BY <1>3, <1>4, ChainWritten DEF Calm, Typed
<1>6. QueueTyped /\ QueueTyped' /\ SlotsTyped' /\ due' \subseteq Games \X Bots
  BY <1>2 DEF Calm, Typed, QueueTyped, SlotsTyped
<1>7. TasksFresh'
  <2>1. \A u \in BagToSet(queue') : u \in Tasks /\ Fresh(u)
    BY <1>2, <1>6 DEF Calm, TasksFresh, QueueTyped
  <2>2. \A i \in Slots : slot'[i] = NoTask \/ (slot'[i].task = slot[i].task /\ slot[i] # NoTask)
    BY <1>2
  <2>3. QED
    BY <1>2, <2>1, <2>2, FreshStays
<1>8. ASSUME NEW h \in Games, BotTurn(h)'
      PROVE  Carried(h)'
  <2>1. game'[h] = game[h] /\ hand'[h] = hand[h] /\ Carried(h) /\ BotTurn(h)
    BY <1>2, <1>8, RowsStand DEF rows, Calm, AllCarried
  <2>2. ChainFor(k, h) => ChainFor(k, h)'
    BY <1>4, <1>5, <2>1 DEF ChainFor, BotTurn
  <2>3. \A j \in ChainIds : ChainFor(j, h) => chain'[j] = chain[j] \/ Carried(h)'
    BY <1>5, <2>2, CarriersAfter
  <2>4. QED
    BY <1>2, <2>1, <2>3, CarriedStays
<1>9. QED
  BY <1>2, <1>5, <1>6, <1>7, <1>8, RowsStand DEF Calm, Typed, AllCarried

\* A slot is written and nothing else: as long as it keeps the task and what it
\* carries.
LEMMA SlotStepKeeps ==
  ASSUME Calm, NEW i \in Slots, NEW v \in SlotRows \union {NoTask},
         v.pc = "next" => v.task.hand # {},
         slot' = [slot EXCEPT ![i] = v],
         v = NoTask \/ (v.task = slot[i].task /\ slot[i] # NoTask),
         \A g \in Games : SlotFor(i, g) /\ BotTurn(g) => SlotFor(i, g)',
         UNCHANGED rows, UNCHANGED <<due, queue, worker, chain>>
  PROVE  Calm'
<1>1. SlotsTyped' /\ slot'[i] = v /\ \A j \in Slots \ {i} : slot'[j] = slot[j]
  BY SlotWritten DEF Calm, Typed
<1>2. QueueTyped /\ QueueTyped' /\ ChainsTyped' /\ due' \subseteq Games \X Bots
  BY DEF Calm, Typed, QueueTyped, ChainsTyped
<1>3. TasksFresh'
  <2>1. \A u \in BagToSet(queue') : u \in Tasks /\ Fresh(u)
    BY <1>2 DEF Calm, TasksFresh, QueueTyped
  <2>2. \A j \in Slots : slot'[j] = NoTask \/ slot[j] = NoTask
                         \/ (slot'[j].task = slot[j].task /\ slot[j] # NoTask)
    BY <1>1
  <2>3. \A j \in Slots : slot'[j] = NoTask \/ (slot'[j].task = slot[j].task /\ slot[j] # NoTask)
    BY <1>1, <2>2
  <2>4. QED
    BY <2>1, <2>3, FreshStays
<1>4. ASSUME NEW h \in Games, BotTurn(h)'
      PROVE  Carried(h)'
  <2>1. game'[h] = game[h] /\ hand'[h] = hand[h] /\ Carried(h) /\ BotTurn(h)
    BY <1>4, RowsStand DEF rows, Calm, AllCarried
  <2>2. \A j \in Slots : SlotFor(j, h) => slot'[j] = slot[j] \/ Carried(h)'
    BY <1>1, <2>1, CarriersAfter
  <2>3. QED
    BY <2>1, <2>2, CarriedStays
<1>5. QED
  BY <1>1, <1>2, <1>3, <1>4, RowsStand DEF Calm, Typed, AllCarried

LEMMA WaitingKeeps ==
  ASSUME Calm, NEW i \in Slots, LockTable(i) \/ LockGame(i) \/ Settle(i)
  PROVE  Calm'
<1>1. UNCHANGED rows /\ UNCHANGED <<due, queue, worker, chain>>
  BY DEF LockTable, LockGame, Settle
<1>2. slot[i] \in SlotRows /\ slot[i] # NoTask
  BY SlotInUse DEF LockTable, LockGame, Settle, Calm, Typed
<1>3. CASE Settle(i)
  <2>1. slot' = [slot EXCEPT ![i] = NoTask] /\ slot[i].pc = "settle"
    BY <1>3 DEF Settle
  <2>2. \A g \in Games : ~SlotFor(i, g)
    BY <2>1 DEF SlotFor
  <2>3. QED
    BY <1>1, <2>1, <2>2, SlotStepKeeps DEF NoTask
<1>4. ASSUME NEW pc \in {"game", "play"}, slot' = [slot EXCEPT ![i].pc = pc],
             slot[i].pc \in {"locks", "game"}
      PROVE  Calm'
  <2> DEFINE v == [slot[i] EXCEPT !.pc = pc]
  <2>1. v \in SlotRows /\ v.task = slot[i].task /\ v.pc = pc
    BY <1>2 DEF SlotRows
  <2>2. slot' = [slot EXCEPT ![i] = v]
    BY <1>4
  <2>3. slot'[i] = v
    BY <2>2 DEF Calm, Typed, SlotsTyped
  <2>4. ASSUME NEW g \in Games, SlotFor(i, g)
        PROVE  SlotFor(i, g)'
    <3>1. Fits(slot[i].task, g)
      BY <1>4, <2>4 DEF SlotFor
    <3>2. PICK t : t = slot[i].task
      OBVIOUS
    <3>3. Fits(t, g)'
      BY <1>1, <3>1, <3>2, RowStands DEF rows
    <3>4. QED
      BY <2>1, <2>3, <3>2, <3>3 DEF SlotFor
  <2>5. QED
    BY <1>1, <1>2, <2>1, <2>2, <2>4, SlotStepKeeps
<1>5. QED
  BY <1>3, <1>4 DEF LockTable, LockGame

LEMMA DispatchKeeps ==
  ASSUME Calm, NEW i \in Slots, Dispatch(i)
  PROVE  Calm'
<1>1. UNCHANGED rows /\ UNCHANGED <<due, worker, chain>> /\ slot[i] = NoTask
  BY DEF Dispatch
<1>2. PICK t \in BagToSet(queue) :
        /\ queue' = queue (-) SetToBag({t})
        /\ slot' = [slot EXCEPT ![i] = [pc |-> "locks", task |-> t, live |-> TRUE,
                                        next |-> None]]
  BY DEF Dispatch, Deliver
<1> DEFINE v == [pc |-> "locks", task |-> t, live |-> TRUE, next |-> None]
<1>3. QueueTyped /\ IsABag(queue) /\ BagToSet(queue) \subseteq Tasks
  BY DEF Calm, Typed, QueueTyped
<1>4. /\ IsABag(queue') /\ BagToSet(queue') \subseteq BagToSet(queue)
      /\ BagToSet(queue) \ {t} \subseteq BagToSet(queue')
  BY <1>2, <1>3, BagTake
<1>5. v \in SlotRows /\ v.pc = "locks" /\ v.task = t /\ v.next = None
  BY <1>3 DEF SlotRows
<1>6. SlotsTyped' /\ slot'[i] = v /\ \A j \in Slots \ {i} : slot'[j] = slot[j]
  BY <1>2, <1>5, SlotWritten DEF Calm, Typed
<1>7. QueueTyped' /\ ChainsTyped' /\ due' \subseteq Games \X Bots
  BY <1>1, <1>3, <1>4 DEF Calm, Typed, QueueTyped, ChainsTyped
<1>8. TasksFresh'
  <2>1. \A u \in BagToSet(queue') : u \in Tasks /\ Fresh(u)
    BY <1>3, <1>4 DEF Calm, TasksFresh
  <2>2. \A j \in Slots : \/ slot'[j] = NoTask
                         \/ (slot'[j].task = slot[j].task /\ slot[j] # NoTask)
                         \/ slot'[j].task \in BagToSet(queue)
    BY <1>2, <1>5, <1>6
  <2>3. QED
    BY <1>1, <2>1, <2>2, FreshStays
<1>9. ASSUME NEW h \in Games, BotTurn(h)'
      PROVE  Carried(h)'
  <2>1. game'[h] = game[h] /\ hand'[h] = hand[h] /\ Carried(h)
    BY <1>1, <1>9, RowsStand DEF rows, Calm, AllCarried
  <2>2. Fits(t, h) => Carried(h)'
    <3>1. Fits(t, h) => Fits(t, h)'
      BY <2>1, RowStands
    <3>2. Fits(t, h) => SlotFor(i, h)'
      BY <1>5, <1>6, <3>1 DEF SlotFor
    <3>3. QED
      BY <3>2, CarriersAfter
  <2>3. \A u \in BagToSet(queue) : Fits(u, h) => u \in BagToSet(queue') \/ Carried(h)'
    BY <1>4, <2>2
  <2>4. \A j \in Slots : SlotFor(j, h) => slot'[j] = slot[j]
    <3>1. ~SlotFor(i, h)
      BY <1>1 DEF SlotFor, NoTask
    <3>2. QED
      BY <1>6, <3>1
  <2>5. QED
    BY <1>1, <2>1, <2>3, <2>4, CarriedStays
<1>10. QED
  BY <1>1, <1>6, <1>7, <1>8, <1>9, RowsStand DEF Calm, Typed, AllCarried

LEMMA WorkerMoveKeeps ==
  ASSUME Calm, faults = 0, faults' = 0, NEW i \in Slots, WorkerMove(i)
  PROVE  Calm'
<1>1. slot[i] \in SlotRows /\ slot[i] # NoTask /\ slot[i].pc = "play"
  BY SlotInUse DEF WorkerMove, Calm, Typed
<1>2. PICK t \in Tasks : t = slot[i].task /\ Fresh(t)
  BY <1>1 DEF SlotRows, Calm, TasksFresh
<1>3. PICK g \in Games, s \in Seats : g = t.game /\ s = t.seat
  BY DEF Tasks
<1>4. UNCHANGED <<due, queue, worker, chain>>
  BY DEF WorkerMove
<1>5. QueueTyped' /\ ChainsTyped' /\ due' \subseteq Games \X Bots
  BY <1>4 DEF Calm, Typed, QueueTyped, ChainsTyped
<1>6. \/ /\ \E c \in Choices(t) : PlayCard(g, s, c)
         /\ slot' = [slot EXCEPT ![i].pc = "next", ![i].next = NextOf(t)]
      \/ /\ \/ ~Turn(g, s)
            \/ \E c \in t.hand : c \notin hand[g][s]
            \/ t.hand # {} /\ t.at # Plays(g)
         /\ slot' = [slot EXCEPT ![i].pc = "settle"] /\ UNCHANGED rows
  <2>1. ~Fault
    BY DEF Fault
  <2>2. t = slot[i].task /\ t.game = g /\ t.seat = s
    BY <1>2, <1>3
  <2>3. QED
    BY <2>1, <2>2, Zenon DEF WorkerMove
<1>7. CASE /\ \E c \in Choices(t) : PlayCard(g, s, c)
           /\ slot' = [slot EXCEPT ![i].pc = "next", ![i].next = NextOf(t)]
  <2>1. PICK c : c \in Choices(t) /\ PlayCard(g, s, c)
    BY <1>7
  <2>2. t.hand # {}
    BY <1>2, <1>3, <2>1 DEF Choices, PlayCard, Fresh
  <2>3. /\ RowsTyped' /\ \A h \in Games : InOrder(h)'
        /\ \A h \in Games \ {g} : game'[h] = game[h] /\ hand'[h] = hand[h]
        /\ \A h \in Games \ {g} : BotTurn(h)' => BotTurn(h)
    BY <2>1, AfterPlay
  <2>4. PICK n \in Seats \union {None} :
          n = NextOf(t) /\ (game'[g].status = "Active" => n = game'[g].turn)
    BY <1>3, <2>2, <2>3 DEF NextOf, RowsTyped, GameRows
  <2> DEFINE v == [slot[i] EXCEPT !.pc = "next", !.next = n]
  <2>5. v \in SlotRows /\ v.pc = "next" /\ v.task = t /\ v.next = n
    BY <1>1, <1>2 DEF SlotRows
  <2>6. slot' = [slot EXCEPT ![i] = v]
    BY <1>7, <2>4 DEF Calm, Typed, SlotsTyped
  <2>7. SlotsTyped' /\ slot'[i] = v /\ \A j \in Slots \ {i} : slot'[j] = slot[j]
    BY <2>2, <2>5, <2>6, SlotWritten DEF Calm, Typed
  <2>8. TasksFresh'
    <3>1. \A j \in Slots : \/ slot'[j] = NoTask
                           \/ (slot'[j].task = slot[j].task /\ slot[j] # NoTask)
      <4>1. slot'[i].task = slot[i].task
        BY <1>2, <2>5, <2>7
      <4>2. \A j \in Slots \ {i} : slot'[j] = slot[j]
        BY <2>7
      <4>3. QED
        BY <1>1, <4>1, <4>2
    <3>2. QED
      BY <1>4, <2>1, <3>1, FreshAfterPlay
  <2>9. ASSUME NEW h \in Games, BotTurn(h)'
        PROVE  Carried(h)'
    <3>1. CASE h = g
      <4>1. SlotFor(i, h)'
        BY <1>3, <2>4, <2>5, <2>7, <2>9, <3>1 DEF SlotFor, BotTurn
      <4>2. QED
        BY <4>1, CarriersAfter
    <3>2. CASE h # g
      <4>1. game'[h] = game[h] /\ hand'[h] = hand[h] /\ Carried(h)
        BY <2>3, <2>9, <3>2 DEF Calm, AllCarried
      <4>2. ~SlotFor(i, h)
        BY <1>1, <1>2, <1>3, <3>2 DEF SlotFor, Fits
      <4>3. \A j \in Slots : SlotFor(j, h) => slot'[j] = slot[j]
        BY <2>7, <4>2
      <4>4. QED
        BY <1>4, <4>1, <4>3, CarriedStays
    <3>3. QED
      BY <3>1, <3>2
  <2>10. QED
    BY <1>4, <1>5, <2>3, <2>7, <2>8, <2>9 DEF Calm, Typed, AllCarried
<1>8. CASE /\ \/ ~Turn(g, s)
              \/ \E c \in t.hand : c \notin hand[g][s]
              \/ t.hand # {} /\ t.at # Plays(g)
           /\ slot' = [slot EXCEPT ![i].pc = "settle"] /\ UNCHANGED rows
  <2> DEFINE v == [slot[i] EXCEPT !.pc = "settle"]
  <2>1. v \in SlotRows /\ v.pc = "settle" /\ v.task = slot[i].task
    BY <1>1 DEF SlotRows
  <2>2. slot' = [slot EXCEPT ![i] = v]
    BY <1>8
  <2>3. ASSUME NEW h \in Games, SlotFor(i, h), BotTurn(h)
        PROVE  FALSE
    <3>1. Fits(t, h) /\ h = g /\ s = game[g].turn /\ t.at = Plays(g)
      BY <1>1, <1>2, <1>3, <2>3 DEF SlotFor, Fits
    <3>2. Turn(g, s) /\ t.hand = hand[g][s]
      BY <1>2, <1>3, <2>3, <3>1 DEF Fresh, BotTurn, Turn
    <3>3. QED
      BY <1>8, <3>1, <3>2
  <2>4. QED
    BY <1>1, <1>4, <1>8, <2>1, <2>2, <2>3, SlotStepKeeps
<1>9. QED
  BY <1>6, <1>7, <1>8

LEMMA WorkerNextKeeps ==
  ASSUME Calm, faults = 0, faults' = 0, NEW i \in Slots, WorkerNext(i)
  PROVE  Calm'
<1>1. slot[i] \in SlotRows /\ slot[i] # NoTask /\ slot[i].pc = "next"
      /\ slot[i].task.hand # {}
  BY SlotInUse DEF WorkerNext, Calm, Typed, SlotsTyped
<1>2. UNCHANGED rows /\ UNCHANGED <<due, worker>>
  BY DEF WorkerNext
<1>3. PICK t \in Tasks : t = slot[i].task
  BY <1>1 DEF SlotRows
<1>4. PICK g \in Games : g = t.game
  BY DEF Tasks
<1>5. /\ RowsTyped /\ QueueTyped /\ ChainsTyped /\ SlotsTyped /\ due' \subseteq Games \X Bots
      /\ BagToSet(queue) \subseteq Tasks /\ \A u \in BagToSet(queue) : Fresh(u)
  BY <1>2 DEF Calm, Typed, QueueTyped, TasksFresh
<1>6. ~Fault
  BY DEF Fault
<1>7. PICK n \in Seats \union {None} : n = slot[i].next
  BY <1>1 DEF SlotRows
<1>8. \/ n \in Bots /\ Publish(FullTask(g, n), "worker")
      \/ n \notin Bots /\ UNCHANGED <<queue, chain>>
  BY <1>1, <1>3, <1>4, <1>6, <1>7 DEF WorkerNext
<1> DEFINE v == [slot[i] EXCEPT !.pc = "settle"]
<1>9. v \in SlotRows /\ v.pc = "settle" /\ v.task = slot[i].task
  BY <1>1 DEF SlotRows
<1>10. SlotsTyped' /\ slot'[i] = v /\ \A j \in Slots \ {i} : slot'[j] = slot[j]
  <2>1. slot' = [slot EXCEPT ![i] = v]
    BY DEF WorkerNext
  <2>2. QED
    BY <1>5, <1>9, <2>1, SlotWritten
<1>11. CASE n \in Bots /\ Publish(FullTask(g, n), "worker")
  <2>1. n \in Seats
    BY <1>11
  <2>2. PICK u \in Tasks : u = FullTask(g, n) /\ Fresh(u) /\ (n = game[g].turn => Fits(u, g))
    BY <1>5, <2>1, FullTaskIsFresh
  <2>3. QueueTyped' /\ chain' = chain /\ BagToSet(queue') = BagToSet(queue) \union {u}
    BY <1>5, <1>11, <2>2, PublishWrites
  <2>4. TasksFresh'
    <3>1. \A w \in BagToSet(queue') : w \in Tasks /\ Fresh(w)
      BY <1>5, <2>2, <2>3
    <3>2. \A j \in Slots : \/ slot'[j] = NoTask
                           \/ (slot'[j].task = slot[j].task /\ slot[j] # NoTask)
      <4>1. slot'[i].task = slot[i].task
        BY <1>9, <1>10
      <4>2. QED
        BY <1>1, <1>10, <4>1
    <3>3. QED
      BY <1>2, <3>1, <3>2, FreshStays
  <2>5. ASSUME NEW h \in Games, BotTurn(h)'
        PROVE  Carried(h)'
    <3>1. game'[h] = game[h] /\ hand'[h] = hand[h] /\ Carried(h)
      BY <1>2, <2>5, RowsStand DEF rows, Calm, AllCarried
    <3>2. SlotFor(i, h) => Carried(h)'
      <4>1. SlotFor(i, h) => h = g /\ n = game[g].turn
        BY <1>1, <1>3, <1>4, <1>7 DEF SlotFor
      <4>2. Fits(u, h) => Fits(u, h)'
        BY <3>1, RowStands
      <4>3. SlotFor(i, h) => QueueFor(h)'
        BY <2>2, <2>3, <4>1, <4>2 DEF QueueFor
      <4>4. QED
        BY <4>3, CarriersAfter
    <3>3. \A j \in Slots : SlotFor(j, h) => slot'[j] = slot[j] \/ Carried(h)'
      BY <1>10, <3>2
    <3>4. BagToSet(queue) \subseteq BagToSet(queue')
      BY <2>3
    <3>5. QED
      BY <1>2, <2>3, <3>1, <3>3, <3>4, CarriedStays
  <2>6. ChainsTyped'
    BY <1>5, <2>3 DEF ChainsTyped
  <2>7. QED
    BY <1>2, <1>5, <1>10, <2>3, <2>4, <2>5, <2>6, RowsStand DEF Calm, Typed, AllCarried
<1>12. CASE n \notin Bots /\ UNCHANGED <<queue, chain>>
  <2>1. \A h \in Games : BotTurn(h) => ~SlotFor(i, h)
    BY <1>1, <1>7, <1>12 DEF SlotFor, BotTurn
  <2>2. slot' = [slot EXCEPT ![i] = v]
    BY DEF WorkerNext
  <2>3. QED
    BY <1>1, <1>2, <1>9, <1>12, <2>1, <2>2, SlotStepKeeps
<1>13. QED
  BY <1>8, <1>11, <1>12
------------------------------------------------------------------------------
\* The theorem.

LEMMA InitIsCalm == Init => Inv
<1> SUFFICES ASSUME Init
             PROVE  Inv
  OBVIOUS
<1>1. PICK first \in Seats : game = [g \in Games |-> NewGame(first)] /\ due = FirstMoves(first)
  BY DEF Init
<1>2. Bots \subseteq Seats /\ 1 \in 1..ROUNDS
  OBVIOUS
<1>3. RowsTyped
  <2>1. NewGame(first) \in GameRows
    BY <1>2 DEF NewGame, GameRows
  <2>2. QED
    BY <1>1, <2>1 DEF RowsTyped, Init, FullHand
<1>4. QueueTyped /\ BagToSet(queue) = {}
  BY DEF Init, QueueTyped, EmptyBag, SetToBag, IsABag, BagToSet
<1>5. SlotsTyped /\ \A i \in Slots : slot[i] = NoTask
  BY DEF Init, SlotsTyped, NoTask
<1>6. ChainsTyped
  BY DEF Init, ChainsTyped
<1>7. due \subseteq Games \X Bots /\ TasksFresh
  BY <1>1, <1>4, <1>5 DEF FirstMoves, TasksFresh
<1>8. ASSUME NEW g \in Games
      PROVE  InOrder(g) /\ (BotTurn(g) => Carried(g))
  <2>1. game[g].turn = first /\ game[g].done = {}
    BY <1>1 DEF NewGame
  <2>2. Arc(first, first) = {}
    BY DEF Arc, Seats
  <2>3. InOrder(g)
    BY <2>1, <2>2 DEF InOrder
  <2>4. BotTurn(g) => DueFor(g)
    BY <1>1, <2>1 DEF BotTurn, DueFor, FirstMoves
  <2>5. QED
    BY <2>3, <2>4, Carriers
<1>9. faults = 0 /\ worker = "up"
  BY DEF Init
<1>10. QED
  BY <1>3, <1>4, <1>5, <1>6, <1>7, <1>8, <1>9 DEF Inv, Calm, Typed, AllCarried

LEMMA StepKeepsCalm == Inv /\ [Next]_vars => Inv'
<1> SUFFICES ASSUME Inv, [Next]_vars
             PROVE  Inv'
  OBVIOUS
<1>1. faults \in Nat /\ (faults' = faults \/ Fault) /\ (faults = 0 => Calm)
  <2>1. \A t, home : Publish(t, home) => faults' = faults \/ Fault
    BY DEF Publish
  <2>2. CASE UNCHANGED vars
    BY <2>2 DEF Inv, vars
  <2>3. CASE Next
    BY <2>1, <2>3 DEF Inv, Next, HumanPlays, Recover, Schedule, ChainStep, ChainStart, ChainMove,
       ChainNext, SlotStep, Dispatch, LockTable, LockGame, WorkerMove, WorkerNext, Settle,
       ConnectionLost, WorkerCrash, Shutdown, Exit, ServerCrash
  <2>4. QED
    BY <2>2, <2>3 DEF Inv
<1>2. faults' \in Nat /\ (faults' = 0 => faults = 0)
  BY <1>1 DEF Fault
<1>3. SUFFICES ASSUME faults = 0, faults' = 0
               PROVE  Calm'
  BY <1>2 DEF Inv
<1>4. Calm /\ ~Fault
  BY <1>1, <1>3 DEF Fault
<1>5. CASE UNCHANGED vars
  <2>1. UNCHANGED rows /\ UNCHANGED <<due, queue, worker, slot, chain>>
    BY <1>5 DEF vars, rows
  <2>2. Typed' /\ worker' = "up"
    BY <1>4, <1>5, <2>1 DEF Calm, Typed, RowsTyped, QueueTyped, SlotsTyped, ChainsTyped, rows,
       vars
  <2>3. \A g \in Games : InOrder(g)'
    BY <1>4, <2>1 DEF Calm, InOrder, rows
  <2>4. TasksFresh'
    BY <1>4, <2>1 DEF Calm, TasksFresh, Fresh, Plays, rows
  <2>5. AllCarried'
    BY <1>4, <2>1 DEF Calm, AllCarried, BotTurn, Carried, Plays, rows
  <2>6. QED
    BY <2>2, <2>3, <2>4, <2>5 DEF Calm
<1>6. ASSUME NEW g \in Games, HumanPlays(g) \/ Recover(g) \/ \E s \in Seats : Schedule(g, s)
      PROVE  Calm'
  BY <1>3, <1>4, <1>6, HumanPlaysKeeps, RecoverKeeps, ScheduleKeeps
<1>7. ASSUME NEW k \in ChainIds, ChainStep(k)
      PROVE  Calm'
  BY <1>3, <1>4, <1>7, ChainStartKeeps, ChainMoveKeeps, ChainNextKeeps DEF ChainStep
<1>8. ASSUME NEW i \in Slots, SlotStep(i)
      PROVE  Calm'
  BY <1>3, <1>4, <1>8, DispatchKeeps, WaitingKeeps, WorkerMoveKeeps, WorkerNextKeeps DEF SlotStep
<1>9. ~(ConnectionLost \/ WorkerCrash \/ Shutdown \/ Exit \/ ServerCrash)
  BY <1>4 DEF ConnectionLost, WorkerCrash, Shutdown, Exit, ServerCrash, Calm
<1>10. QED
  BY <1>5, <1>6, <1>7, <1>8, <1>9 DEF Next

\* While nothing fails, no turn of a bot is dropped between the request, the queue,
\* the worker and the chains that hand it on (bot_scheduler.rs, worker_core.rs).
THEOREM TurnIsCarried == Spec => []BotTurnCarried
<1>1. Inv => BotTurnCarried
  BY DEF Inv, Calm, AllCarried, BotTurnCarried
<1>2. QED
  BY <1>1, InitIsCalm, StepKeepsCalm, PTL DEF Spec
==============================================================================
