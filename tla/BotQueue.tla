------------------------------ MODULE BotQueue ------------------------------
(***************************************************************************)
(* The moves of the bots, from the end of a human's play to the bot's own:  *)
(* the server builds a task and publishes it to RabbitMQ, a worker takes it *)
(* from the queue, makes the move and publishes the task of the next bot; a *)
(* chain of moves in the memory of a process takes over where publishing    *)
(* fails, and a scan starts one where a game stands still.                  *)
(*                                                                          *)
(* The broker confirms nothing to a publisher and delivers again what was   *)
(* not acknowledged; the dead-letter exchange the queue names is declared   *)
(* nowhere, so a task that is refused is gone.  A move is one step here:    *)
(* CardPlay shows how two of them interleave.                               *)
(***************************************************************************)
EXTENDS Naturals, FiniteSets, Bags

CONSTANTS
  Games,
  N,          \* number of seats
  Bots,       \* the seats of bots
  ROUNDS,     \* cards of a hand
  Slots,      \* the permits of the worker's semaphore, 50 in the code
  ChainIds,   \* bound: the chains alive at once
  CHAINS,     \* the permits of a process for chains, 10 in the code
  MaxTries,   \* how often a chain tries a move again, 3 in the code
  MaxFaults,  \* bound: crashes, losses and errors
  MaxEarly    \* bound: scans that find a game whose move is under way

Seats == 0..(N - 1)
None == N

ASSUME QueueAssumption ==
  /\ N \in Nat \ {0} /\ ROUNDS \in Nat \ {0} /\ Bots \subseteq Seats
  /\ CHAINS \in Nat \ {0} /\ MaxTries \in Nat /\ MaxFaults \in Nat
  /\ MaxEarly \in Nat

VARIABLES
  game,    \* game -> its row
  hand,    \* game -> seat -> unplayed cards
  broker,  \* whether the server has a client of RabbitMQ
  due,     \* the <<game, bot>> a request in flight is about to schedule
  queue,   \* the tasks ready for delivery
  worker,  \* "up", or "stopping" while it drains
  slot,    \* permit -> the task that holds it
  chain,   \* the chains of bot moves
  faults,
  early    \* scans that came early

rows == <<game, hand>>
vars == <<game, hand, broker, due, queue, worker, slot, chain, faults,
          early>>

Tasks == [game : Games, seat : Seats, hand : SUBSET (1..ROUNDS), at : Nat]
NoTask == [pc |-> "free"]
NoChain == [pc |-> "none"]

\* A game starts with any seat; if a bot sits there, its move is due.
NewGame(first) == [status |-> "Active", turn |-> first, roll |-> 1, done |-> {}]
FirstMoves(first) == {<<g, first>> : g \in Games} \cap (Games \X Bots)
FullHand == 1..ROUNDS
\* The server tries to connect when it starts, and goes on without.
Connected == broker \in BOOLEAN

Init ==
  /\ \E first \in Seats :
       game = [g \in Games |-> NewGame(first)] /\ due = FirstMoves(first)
  /\ hand = [g \in Games |-> [s \in Seats |-> FullHand]]
  /\ Connected
  /\ queue = EmptyBag
  /\ worker = "up"
  /\ slot = [i \in Slots |-> NoTask]
  /\ chain = [k \in ChainIds |-> NoChain]
  /\ faults = 0 /\ early = 0

Fault == faults < MaxFaults /\ faults' = faults + 1
------------------------------------------------------------------------------
\* The game.

\* How many cards of g are played: what a snapshot of g is a snapshot of.
Plays(g) == (game[g].roll - 1) * N + Cardinality(game[g].done)

Turn(g, s) == game[g].status = "Active" /\ game[g].turn = s

\* A card is played; the last of a round gives the lead to any seat.
PlayCard(g, s, c) ==
  /\ Turn(g, s) /\ c \in hand[g][s]
  /\ hand' = [hand EXCEPT ![g][s] = @ \ {c}]
  /\ LET now == game[g].done \union {s} IN
       \/ /\ now # Seats
          /\ game' = [game EXCEPT ![g].turn = (s + 1) % N, ![g].done = now]
       \/ /\ now = Seats
          /\ \E w \in Seats :
               game' = [game EXCEPT
                 ![g] = IF @.roll = ROUNDS THEN [@ EXCEPT !.status = "Finished", !.turn = w]
                        ELSE [@ EXCEPT !.roll = game[g].roll + 1, !.turn = w, !.done = {}]]

\* Which card a human plays matters to no task.
HumanPlays(g) ==
  /\ \E s \in Seats \ Bots :
       hand[g][s] # {} /\ PlayCard(g, s, CHOOSE c \in hand[g][s] : TRUE)
  /\ due' = due \union (IF Turn(g, game[g].turn)' /\ game'[g].turn \in Bots
                          THEN {<<g, game'[g].turn>>} ELSE {})
  /\ UNCHANGED <<broker, queue, worker, slot, chain, faults, early>>
------------------------------------------------------------------------------
\* Publishing, and the chain that takes over.

FullTask(g, s) == [game |-> g, seat |-> s, hand |-> hand[g][s], at |-> Plays(g)]
MinimalTask(g, s) == [game |-> g, seat |-> s, hand |-> {}, at |-> 0]

Spawn(g, s, home) ==
  \E k \in ChainIds :
    /\ chain[k] = NoChain
    /\ \A j \in ChainIds : j < k => chain[j] # NoChain
    /\ chain' = [chain EXCEPT
         ![k] = [pc |-> "wait", game |-> g, seat |-> s, tries |-> 0, home |-> home]]

\* Publish with retries: the task is queued; or lost after the client took it; or
\* queued twice, when the answer to a first attempt is lost; or refused, and a
\* chain is spawned in the process at home.
Publish(t, home) ==
  \/ queue' = queue (+) SetToBag({t}) /\ UNCHANGED <<chain, faults>>
  \/ Fault /\ UNCHANGED <<queue, chain>>
  \/ Fault /\ queue' = queue (+) SetToBag({t}) (+) SetToBag({t}) /\ UNCHANGED chain
  \/ Fault /\ Spawn(t.game, t.seat, home) /\ UNCHANGED queue

Schedule(g, s) ==
  /\ <<g, s>> \in due
  /\ due' = due \ {<<g, s>>}
  /\ \/ broker /\ Publish(FullTask(g, s), "server")
     \/ /\ broker /\ Fault
        /\ queue' = queue (+) SetToBag({MinimalTask(g, s)}) /\ UNCHANGED chain
     \/ ~broker /\ Spawn(g, s, "server") /\ UNCHANGED <<queue, faults>>
  /\ UNCHANGED <<rows, broker, worker, slot, early>>

ChainStart(k) ==
  /\ chain[k].pc = "wait"
  /\ Cardinality({j \in ChainIds : chain[j].pc \in {"run", "next"}
                                   /\ chain[j].home = chain[k].home}) < CHAINS
  /\ chain' = [chain EXCEPT ![k].pc = "run"]
  /\ UNCHANGED <<rows, broker, due, queue, worker, slot, faults, early>>

TryAgain(k) ==
  chain' = [chain EXCEPT ![k] = IF @.tries < MaxTries
                                  THEN [@ EXCEPT !.tries = chain[k].tries + 1, !.pc = "run"]
                                  ELSE NoChain]

ChainMove(k) ==
  /\ chain[k].pc = "run"
  /\ LET g == chain[k].game
         s == chain[k].seat
     IN \/ /\ \E c \in hand[g][s] : PlayCard(g, s, c)
           /\ chain' = [chain EXCEPT ![k].pc = "next"]
           /\ UNCHANGED faults
        \/ /\ ~Turn(g, s) /\ TryAgain(k) /\ UNCHANGED <<rows, faults, early>>
        \/ /\ Fault /\ TryAgain(k) /\ UNCHANGED rows
  /\ UNCHANGED <<broker, due, queue, worker, slot, early>>

\* The next seat is read after the move is committed, finished game or not; an
\* error there has the move tried again.
ChainNext(k) ==
  /\ chain[k].pc = "next"
  /\ \/ /\ LET next == game[chain[k].game].turn IN
             chain' = [chain EXCEPT
               ![k] = IF next \in Bots
                        THEN [@ EXCEPT !.seat = next, !.tries = 0, !.pc = "run"]
                        ELSE NoChain]
        /\ UNCHANGED faults
     \/ Fault /\ TryAgain(k)
  /\ UNCHANGED <<rows, broker, due, queue, worker, slot, early>>
------------------------------------------------------------------------------
\* The worker.

\* The broker delivers any task, as many as the worker has permits.
Deliver(t) == queue' = queue (-) SetToBag({t})

Dispatch(i) ==
  /\ worker = "up" /\ slot[i] = NoTask
  /\ \A j \in Slots : j < i => slot[j] # NoTask
  /\ \E t \in BagToSet(queue) :
       /\ Deliver(t)
       /\ slot' = [slot EXCEPT ![i] = [pc |-> "locks", task |-> t, live |-> TRUE,
                                       next |-> None]]
  /\ UNCHANGED <<rows, broker, due, worker, chain, faults, early>>

Moving == {"play", "next", "settle"}

\* Mutant of GameBusy: a task counts from the moment it waits for the table.
GameBusyWaiting(i) ==
  \E j \in Slots \ {i} : /\ slot[j].pc \in Moving \union {"locks"}
                         /\ slot[j].task.game = slot[i].task.game
GameBusy(i) ==
  \E j \in Slots \ {i} : /\ slot[j].pc \in Moving
                         /\ slot[j].task.game = slot[i].task.game

\* The table of games is locked first, and stays locked while the task waits for
\* the semaphore of its game.
LockTable(i) ==
  /\ slot[i].pc = "locks"
  /\ \A j \in Slots : slot[j].pc # "game"
  /\ slot' = [slot EXCEPT ![i].pc = "game"]
  /\ UNCHANGED <<rows, broker, due, queue, worker, chain, faults, early>>

LockGame(i) ==
  /\ slot[i].pc = "game" /\ ~GameBusy(i)
  /\ slot' = [slot EXCEPT ![i].pc = "play"]
  /\ UNCHANGED <<rows, broker, due, queue, worker, chain, faults, early>>

\* The card is chosen from the snapshot, or from the database where the task has
\* no hand.  A snapshot of another moment may follow the wrong suit.
Choices(t) == IF t.hand # {} THEN t.hand ELSE hand[t.game][t.seat]

\* Mutant of NextOf: a bot that wins the round is not scheduled again.
NextOfOther(t) ==
  IF t.hand # {} /\ game'[t.game].status = "Active" /\ game'[t.game].turn # t.seat
    THEN game'[t.game].turn ELSE None
\* The seat to schedule, as the move's own transaction knows it.
NextOf(t) ==
  IF t.hand # {} /\ game'[t.game].status = "Active" THEN game'[t.game].turn ELSE None

WorkerMove(i) ==
  /\ slot[i].pc = "play"
  /\ LET t == slot[i].task
         fails == slot' = [slot EXCEPT ![i].pc = "settle"] /\ UNCHANGED rows
     IN \/ /\ \E c \in Choices(t) : PlayCard(t.game, t.seat, c)
           /\ slot' = [slot EXCEPT ![i].pc = "next", ![i].next = NextOf(t)]
           /\ UNCHANGED faults
        \/ /\ \/ ~Turn(t.game, t.seat)
              \/ \E c \in t.hand : c \notin hand[t.game][t.seat]
              \/ t.hand # {} /\ t.at # Plays(t.game)
           /\ fails /\ UNCHANGED faults
        \/ Fault /\ fails
  /\ UNCHANGED <<broker, due, queue, worker, chain, early>>

\* The next bot's task is published: with a snapshot, or without one where the
\* move came from the database, which also reads the next seat anew.
WorkerNext(i) ==
  /\ slot[i].pc = "next"
  /\ slot' = [slot EXCEPT ![i].pc = "settle"]
  /\ LET t == slot[i].task
         next == IF t.hand # {} THEN slot[i].next ELSE game[t.game].turn
     IN \/ /\ next \in Bots
           /\ Publish(IF t.hand # {} THEN FullTask(t.game, next)
                      ELSE MinimalTask(t.game, next), "worker")
        \/ /\ next \in Bots /\ t.hand # {} /\ Fault
           /\ queue' = queue (+) SetToBag({MinimalTask(t.game, next)})
           /\ UNCHANGED chain
        \/ next \notin Bots /\ UNCHANGED <<queue, chain, faults>>
        \/ t.hand = {} /\ Fault /\ UNCHANGED <<queue, chain>>
  /\ UNCHANGED <<rows, broker, due, worker, early>>

\* Acknowledged, or refused without being queued again: either way the delivery is
\* gone, unless the connection it came by is.
Settle(i) ==
  /\ slot[i].pc = "settle"
  /\ slot' = [slot EXCEPT ![i] = NoTask]
  /\ UNCHANGED <<rows, broker, due, queue, worker, chain, faults, early>>

Live == {i \in Slots : slot[i] # NoTask /\ slot[i].live}
Redelivered ==
  LET bag[S \in SUBSET Slots] ==
        IF S = {} THEN queue
        ELSE LET i == CHOOSE j \in S : TRUE
             IN bag[S \ {i}] (+) SetToBag({slot[i].task})
  IN bag[Live]

\* The broker delivers again what was not acknowledged; the tasks go on.
ConnectionLost ==
  /\ Live # {} /\ Fault
  /\ queue' = Redelivered
  /\ slot' = [i \in Slots |-> IF i \in Live THEN [slot[i] EXCEPT !.live = FALSE] ELSE slot[i]]
  /\ UNCHANGED <<rows, broker, due, worker, chain, early>>

ChainsOf(home) == [k \in ChainIds |-> IF chain[k] # NoChain /\ chain[k].home = home
                                        THEN NoChain ELSE chain[k]]

WorkerCrash ==
  /\ Fault
  /\ queue' = Redelivered
  /\ slot' = [i \in Slots |-> NoTask]
  /\ chain' = ChainsOf("worker") /\ worker' = "up"
  /\ UNCHANGED <<rows, broker, due, early>>

Shutdown ==
  /\ worker = "up" /\ Fault
  /\ worker' = "stopping"
  /\ UNCHANGED <<rows, broker, due, queue, slot, chain, early>>

\* A worker that stops waits for all permits, but not for its chains; another
\* takes its place.
Exit ==
  /\ worker = "stopping" /\ \A i \in Slots : slot[i] = NoTask
  /\ worker' = "up" /\ chain' = ChainsOf("worker")
  /\ UNCHANGED <<rows, broker, due, queue, slot, faults, early>>

ServerCrash ==
  /\ Fault
  /\ due' = {} /\ chain' = ChainsOf("server")
  /\ UNCHANGED <<rows, broker, queue, worker, slot, early>>
------------------------------------------------------------------------------
BotTurn(g) == game[g].status = "Active" /\ game[g].turn \in Bots

\* Mutant of Stalled: a game is only stalled in the middle of a round.
StalledInRound(g) == BotTurn(g) /\ game[g].done # {}
\* A game whose row is old: nothing bounds how long a task waits, so a move may
\* still be under way.
Stalled(g) == BotTurn(g)

\* Who has the turn of a bot in hand: a request that will schedule it, a fresh
\* task, a worker or a chain.
Carried(g) ==
  LET s == game[g].turn
      fits(t) == t.game = g /\ t.seat = s /\ t.at = Plays(g)
      moves(x) == \/ x.pc \in {"locks", "game", "play"} /\ fits(x.task)
                  \/ x.pc = "next" /\ x.task.game = g /\ x.next = s
      runs(x) == x # NoChain /\ x.game = g /\ (x.pc = "next" \/ x.seat = s)
  IN \/ <<g, s>> \in due
     \/ \E t \in BagToSet(queue) : fits(t)
     \/ \E i \in Slots : moves(slot[i])
     \/ \E k \in ChainIds : runs(chain[k])

Recover(g) ==
  /\ Stalled(g)
  /\ IF Carried(g) THEN early < MaxEarly /\ early' = early + 1 ELSE UNCHANGED early
  /\ Spawn(g, game[g].turn, "server")
  /\ UNCHANGED <<rows, broker, due, queue, worker, slot, faults>>

SlotStep(i) ==
  Dispatch(i) \/ LockTable(i) \/ LockGame(i) \/ WorkerMove(i) \/ WorkerNext(i) \/ Settle(i)
ChainStep(k) == ChainStart(k) \/ ChainMove(k) \/ ChainNext(k)

Next ==
  \/ \E g \in Games : HumanPlays(g) \/ Recover(g) \/ \E s \in Seats : Schedule(g, s)
  \/ \E k \in ChainIds : ChainStep(k)
  \/ \E i \in Slots : SlotStep(i)
  \/ ConnectionLost \/ WorkerCrash \/ Shutdown \/ Exit \/ ServerCrash

Spec == Init /\ [][Next]_vars

\* The runtime runs every task it spawned, and the scan comes round (every few
\* seconds, scheduler/tasks.rs).  Nobody makes a human play.
FairSpec ==
  /\ Spec
  /\ \A g \in Games : WF_vars(Recover(g)) /\ \A s \in Seats : WF_vars(Schedule(g, s))
  /\ \A k \in ChainIds : WF_vars(ChainStep(k))
  /\ \A i \in Slots : WF_vars(SlotStep(i))
  /\ WF_vars(Exit)
------------------------------------------------------------------------------
\* Properties.

TypeOK ==
  /\ \A g \in Games :
       /\ game[g].status \in {"Active", "Finished"} /\ game[g].turn \in Seats
       /\ game[g].roll \in 1..ROUNDS /\ game[g].done \subseteq Seats
       /\ \A s \in Seats : hand[g][s] \subseteq 1..ROUNDS
  /\ broker \in BOOLEAN /\ due \subseteq Games \X Bots
  /\ BagToSet(queue) \subseteq Tasks
  /\ worker \in {"up", "stopping"}
  /\ \A i \in Slots : slot[i] = NoTask \/ slot[i].task \in Tasks
  /\ \A k \in ChainIds : chain[k] = NoChain \/ chain[k].seat \in Bots
  /\ faults \in 0..MaxFaults /\ early \in 0..MaxEarly

\* While nothing fails, the turn of a bot is always in somebody's hands: a request
\* that will schedule it, a fresh task, a worker or a chain; however a scan that
\* comes early, chains and tasks for the same game cross (bot_scheduler.rs,
\* worker_core.rs).
BotTurnCarried == \A g \in Games : faults = 0 /\ BotTurn(g) => Carried(g)

\* Whatever is lost, dead-lettered or crashes on the way, a bot whose turn it is
\* makes its move (recovery.rs).
BotTurnPlayed ==
  \A g \in Games : \A n \in 0..(N * ROUNDS - 1) :
    (BotTurn(g) /\ Plays(g) = n) ~> ~(BotTurn(g) /\ Plays(g) = n)

\* No task waits for ever for a permit, the table of games or its game, though
\* one waits for its game with the table locked (consumer.rs).
TaskSettles ==
  \A i \in Slots : slot[i] # NoTask ~> slot[i] = NoTask
==============================================================================
