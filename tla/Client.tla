------------------------------- MODULE Client --------------------------------
(***************************************************************************)
(* The page of one player: the store of the game and the handler of its      *)
(* socket (useGameStore.ts, useGameWebSocket.ts, useWebSocket.ts), against a   *)
(* server that plays tricks and publishes what happened                       *)
(* (card_play/side_effects.rs), one event after the other.  Bots move at once  *)
(* on the server: the page holds their cards back in a queue and replays them   *)
(* on timers, during which no card can be clicked.                            *)
(*                                                                         *)
(* A card is the pair of its seat and its round; which card wins is the        *)
(* server's choice.  Seats are shown by their number (the rotation of the      *)
(* seats leaves it alone) and the deck in the order of play.                   *)
(***************************************************************************)
EXTENDS Integers, Sequences, FiniteSets, SequencesExt

CONSTANTS
  Tables,     \* the line-ups: [n, human, me, rounds, claim, drops, kicks], the number of
              \* seats, the seats of humans, the seat of this page's player, the rounds
              \* (CARDS_PER_PLAYER in the code), whether another human is asked to claim
              \* a special hand, and the bounds of this behaviour on connections lost
              \* and players kicked
  MaxWire     \* bound: events under way to the page

ASSUME TablesAssumption ==
  \A t \in Tables :
    /\ t.n \in Nat \ {0, 1} /\ t.rounds \in Nat \ {0}
    /\ t.human \subseteq 0..t.n - 1 /\ t.me \in t.human
    /\ t.claim \in BOOLEAN /\ (t.claim => t.human # {t.me})
    /\ t.drops \in Nat /\ t.kicks \in Nat

VARIABLES
  table,      \* the line-up of this behaviour
  srv,        \* the game on the server: turn, round, trick, claim pending, over
  last,       \* the seat that played last
  out,        \* what each request has still to publish, in order
  conn,       \* the socket: "up" once registered, or "down"
  wire,       \* what was sent to the socket and not yet handled
  snap,       \* the snapshot being read for a fresh socket
  page,       \* the store of the page
  drops, kicks
vars == <<table, srv, last, out, conn, wire, snap, page, drops, kicks>>

Seat == 0..table.n - 1
Me == table.me
Rounds == table.rounds
FirstHuman == CHOOSE p \in table.human : \A q \in table.human : p <= q
None == <<>>      \* no snapshot, no modal
Scan == -1        \* the requests that play no card: a claim, a kick

\* Events (messaging/events.rs) and the entries of the replay queue.
Card(p, k) == <<p, k>>
CardPlayed(p, k, next) == [type |-> "card_played", seat |-> p, card |-> Card(p, k), next |-> next]
TurnChanged(p) == [type |-> "turn_changed", next |-> p]
RoundCompleted(k) == [type |-> "round_completed", round |-> k]
GameFinished == [type |-> "game_finished"]
PlayerKicked == [type |-> "player_kicked"]
ClaimResolved == [type |-> "claim_resolved"]
SpecialClaim == [type |-> "special_claim"]
Snapshot(turn, slots, claim) ==
  [type |-> "game_state_snapshot", turn |-> turn, slots |-> slots, claim |-> claim]

Cards(trick, k) == [i \in DOMAIN trick |-> Card(trick[i], k)]
EverySeat == [i \in 1..table.n |-> i - 1]

NewPage ==
  [turn |-> srv.turn, deck |-> <<>>, hand |-> 1..Rounds, queue |-> <<>>, chain |-> FALSE,
   replaying |-> FALSE, timer |-> "none", reveal |-> None, winner |-> FALSE,
   claim |-> srv.claim, pending |-> FALSE, over |-> FALSE, connected |-> TRUE, held |-> None]

Init ==
  /\ table \in Tables
  /\ \E p \in Seat : srv = [turn |-> p, round |-> 1, trick |-> <<>>, claim |-> table.claim,
                          over |-> FALSE]
  /\ last = srv.turn
  /\ out = [a \in {Scan} \cup Seat |-> <<>>]
  /\ conn = "up" /\ wire = <<>> /\ snap = None
  /\ page = NewPage
  /\ drops = 0 /\ kicks = 0
------------------------------------------------------------------------------
\* The store (useGameStore.ts): each operation as the page it leaves.

\* cancelBotReplay: queue and timers go, a deferred game over is shown.
Cancelled(pg) ==
  [pg EXCEPT !.queue = <<>>, !.chain = FALSE, !.replaying = FALSE, !.reveal = None,
             !.timer = "none", !.over = pg.over \/ pg.pending, !.pending = FALSE]

\* applyCardPlayed: the card leaves the hand and takes the first free slot, if any.
Applied(pg, e) ==
  [pg EXCEPT !.hand = IF e.seat = Me THEN pg.hand \ {e.card[2]} ELSE pg.hand,
             !.deck = IF Len(pg.deck) < table.n THEN Append(pg.deck, e.card) ELSE pg.deck,
             !.turn = e.next]
Shown(pg, e) == [Applied(pg, e) EXCEPT !.winner = FALSE]

\* Mutant of Queued: the events are queued last first.
QueuedFirst(pg, e) == [pg EXCEPT !.queue = <<e>> \o pg.queue]
Queued(pg, e) == [pg EXCEPT !.queue = Append(pg.queue, e)]

\* startBotReplay: not twice at once, and not of an empty queue.
BotReplay(pg) ==
  IF pg.replaying \/ pg.queue = <<>> THEN pg
  ELSE [pg EXCEPT !.replaying = TRUE, !.timer = "bot"]

\* startSnapshotReplay: the deck is emptied and its cards are revealed one by one.
SnapshotReplay(pg, slots) ==
  [pg EXCEPT !.reveal = <<slots>>, !.replaying = TRUE, !.chain = TRUE, !.deck = <<>>,
             !.timer = "reveal"]
Revealing(pg) == pg.reveal # None

\* The queue is drained: a deferred game over is shown.
\* Mutant of Drained: it stays deferred.
DrainedOnly(pg) == [pg EXCEPT !.replaying = FALSE, !.chain = FALSE, !.timer = "none"]
Drained(pg) ==
  [pg EXCEPT !.replaying = FALSE, !.chain = FALSE, !.timer = "none",
             !.over = pg.over \/ pg.pending, !.pending = FALSE]

\* replayNext: a timer takes the next entry of the queue.
ReplayNext(pg) ==
  IF pg.queue = <<>> THEN Drained(pg)
  ELSE LET e == Head(pg.queue)  rest == Tail(pg.queue)
           on == [pg EXCEPT !.queue = rest] IN
       IF e.type = "round_completed"
       THEN [on EXCEPT !.winner = TRUE, !.timer = "pause"]
       ELSE [Applied(on, e) EXCEPT !.timer =
               IF rest # <<>> /\ Head(rest).type = "round_completed" THEN "pause" ELSE "bot"]

\* Mutant of Revealed: the page goes on replaying.
RevealedStill(pg) == [pg EXCEPT !.reveal = None, !.chain = FALSE, !.timer = "none"]
Revealed(pg) ==
  [pg EXCEPT !.reveal = None, !.replaying = FALSE, !.chain = FALSE, !.timer = "none"]

RevealNext(pg) ==
  LET slots == pg.reveal[1] IN
  IF slots = <<>> THEN Revealed(pg)
  ELSE [pg EXCEPT !.deck = Append(pg.deck, Head(slots)), !.reveal = <<Tail(slots)>>]
------------------------------------------------------------------------------
\* The handler of the socket's messages (useGameWebSocket.ts).

OnCardPlayed(pg, e) ==
  IF e.seat \in table.human THEN [Shown(Cancelled(pg), e) EXCEPT !.chain = TRUE]
  ELSE IF ~(pg.chain \/ pg.replaying) THEN Shown(pg, e)
  ELSE IF e.next \in table.human THEN BotReplay([Queued(pg, e) EXCEPT !.chain = FALSE])
  ELSE Queued(pg, e)

OnTurnChanged(pg, e) ==
  IF pg.chain \/ pg.replaying THEN pg ELSE [pg EXCEPT !.turn = e.next]

OnRoundCompleted(pg, e) ==
  IF Revealing(pg) THEN [Cancelled(pg) EXCEPT !.winner = TRUE]
  ELSE IF pg.chain \/ pg.replaying THEN BotReplay(Queued(pg, e))
  ELSE [pg EXCEPT !.winner = TRUE]

\* Mutant of Defers: only while the bots' cards are buffered.
DefersChain(pg) == pg.chain
Defers(pg) == pg.chain \/ pg.replaying
OnGameFinished(pg) ==
  IF Defers(pg) THEN BotReplay([pg EXCEPT !.pending = TRUE])
  ELSE [Cancelled(pg) EXCEPT !.over = TRUE]

\* A snapshot keeps the hand the page has and can only raise the flag of a claim; with
\* cards on the deck and the first human to move, the deck is revealed card by card,
\* once the page knows itself connected.
OnSnapshot(pg, e) ==
  LET replay == e.turn = FirstHuman /\ e.slots # <<>>
      fresh == [Cancelled(pg) EXCEPT !.turn = e.turn, !.winner = FALSE,
                                     !.claim = pg.claim \/ e.claim,
                                     !.deck = IF replay THEN <<>> ELSE e.slots] IN
  IF ~replay THEN fresh
  ELSE IF pg.connected THEN SnapshotReplay(fresh, e.slots)
  ELSE [fresh EXCEPT !.held = <<e.slots>>]

Handled(pg, e) ==
  CASE e.type = "card_played" -> OnCardPlayed(pg, e)
    [] e.type = "turn_changed" -> OnTurnChanged(pg, e)
    [] e.type = "round_completed" -> OnRoundCompleted(pg, e)
    [] e.type = "game_finished" -> OnGameFinished(pg)
    [] e.type = "game_state_snapshot" -> OnSnapshot(pg, e)
    [] e.type = "claim_resolved" -> [pg EXCEPT !.claim = FALSE]
    [] e.type = "special_claim" -> [pg EXCEPT !.claim = FALSE, !.winner = TRUE]
    [] OTHER -> pg          \* a toast
------------------------------------------------------------------------------
\* The server.

InFlight == wire # <<>> \/ \E a \in DOMAIN out : out[a] # <<>>

\* A card is committed; its events are published one by one afterwards
\* (PostCommitContext.handle).
Play(p) ==
  /\ ~srv.over /\ ~srv.claim /\ srv.turn = p /\ out[p] = <<>>
  /\ LET trick == Append(srv.trick, p)
         full == Len(trick) = table.n
         ended == full /\ srv.round = Rounds IN
     \E next \in IF full THEN Seat ELSE {(p + 1) % table.n} :
       /\ srv' = [srv EXCEPT !.turn = next, !.over = ended,
                  !.round = IF full /\ ~ended THEN @ + 1 ELSE @,
                  !.trick = IF full /\ ~ended THEN <<>> ELSE trick]
       /\ out' = [out EXCEPT ![p] =
                    <<CardPlayed(p, srv.round, next)>>
                    \o (IF ended THEN <<>> ELSE <<TurnChanged(next)>>)
                    \o (IF full THEN <<RoundCompleted(srv.round)>> ELSE <<>>)
                    \o (IF ended THEN <<GameFinished>> ELSE <<>>)]
  /\ last' = p

\* A bot is scheduled when the request before it has published everything.
BotPlays(p) ==
  /\ p \notin table.human /\ out[last] = <<>>
  /\ Play(p)
  /\ UNCHANGED <<table, conn, wire, snap, page, drops, kicks>>

OtherPlays(p) ==
  /\ p \in table.human \ {Me}
  /\ Play(p)
  /\ UNCHANGED <<table, conn, wire, snap, page, drops, kicks>>

\* A card of the hand can be clicked, but not during a replay or a claim (GameTable.tsx),
\* nor before the answer to the click before.  Out of turn the server refuses it.
Clickable == ~page.replaying /\ ~page.claim /\ srv.round \in page.hand

Click ==
  /\ Clickable /\ Play(Me)
  /\ UNCHANGED <<table, conn, wire, snap, page, drops, kicks>>

\* The asked player declines, or claims the victory (claim.rs).
Decline ==
  /\ srv.claim /\ srv' = [srv EXCEPT !.claim = FALSE]
  /\ out' = [out EXCEPT ![Scan] = <<ClaimResolved>>]
  /\ UNCHANGED <<table, last, conn, wire, snap, page, drops, kicks>>

ClaimVictory ==
  /\ srv.claim /\ srv' = [srv EXCEPT !.claim = FALSE, !.over = TRUE]
  /\ out' = [out EXCEPT ![Scan] = <<SpecialClaim, GameFinished>>]
  /\ UNCHANGED <<table, last, conn, wire, snap, page, drops, kicks>>

\* Half an hour later, with two players, the kick of the one whose turn it is ends the game
\* (GameService.kick_player_from_game).
Kick ==
  /\ kicks < table.kicks /\ table.n = 2
  /\ ~srv.over /\ srv.turn \in table.human \ {Me} /\ ~InFlight
  /\ srv' = [srv EXCEPT !.over = TRUE]
  /\ out' = [out EXCEPT ![Scan] = <<PlayerKicked, GameFinished>>]
  /\ kicks' = kicks + 1
  /\ UNCHANGED <<table, last, conn, wire, snap, page, drops>>

\* What the subscriber sends on: a kick is followed by a snapshot for every player.
FreshSnapshot == Snapshot(srv.turn, Cards(srv.trick, srv.round), srv.claim)
Routed(e) == IF e.type = "player_kicked" THEN <<e, FreshSnapshot>> ELSE <<e>>

Publish(a) ==
  /\ out[a] # <<>> /\ Len(wire) < MaxWire
  /\ wire' = IF conn = "up" THEN wire \o Routed(Head(out[a])) ELSE wire
  /\ out' = [out EXCEPT ![a] = Tail(@)]
  /\ UNCHANGED <<table, srv, last, conn, snap, page, drops, kicks>>
------------------------------------------------------------------------------
\* The socket (useWebSocket.ts, websocket/game_state.rs).

\* The socket is opened, or opened again after a while, and registered.
Connect ==
  /\ conn = "down" /\ conn' = "up" /\ snap' = <<"registered">>
  /\ UNCHANGED <<table, srv, last, out, wire, page, drops, kicks>>

\* send_game_state_snapshot reads the game ...
ReadGame ==
  /\ snap = <<"registered">> /\ snap' = <<"read", srv.turn, srv.round, srv.claim>>
  /\ UNCHANGED <<table, srv, last, out, conn, wire, page, drops, kicks>>

\* ... and then the cards of the round it read.
SendSnapshot ==
  /\ snap # None /\ snap[1] = "read" /\ Len(wire) < MaxWire
  /\ wire' = Append(wire, Snapshot(snap[2],
               Cards(IF snap[3] = srv.round THEN srv.trick ELSE EverySeat, snap[3]), snap[4]))
  /\ snap' = None
  /\ UNCHANGED <<table, srv, last, out, conn, page, drops, kicks>>

\* A connection is lost with whatever was under way.
Drop ==
  /\ conn = "up" /\ drops < table.drops
  /\ conn' = "down" /\ wire' = <<>> /\ snap' = None /\ drops' = drops + 1
  /\ page' = [page EXCEPT !.connected = FALSE]
  /\ UNCHANGED <<table, srv, last, out, kicks>>

PageBecomes(pg) == page' = pg

Deliver ==
  /\ wire # <<>> /\ wire' = Tail(wire)
  /\ PageBecomes(Handled(page, Head(wire)))
  /\ UNCHANGED <<table, srv, last, out, conn, snap, drops, kicks>>

\* The status of the socket is looked at every second: only then does the page
\* know itself connected, and starts the replay of a snapshot it holds.
Poll ==
  /\ conn = "up" /\ ~page.connected
  /\ LET pg == [page EXCEPT !.connected = TRUE, !.held = None] IN
     PageBecomes(IF page.held = None THEN pg ELSE SnapshotReplay(pg, page.held[1]))
  /\ UNCHANGED <<table, srv, last, out, conn, wire, snap, drops, kicks>>

\* The timers.  A replay goes on after 0.8 s, or after the 2.5 s of a pause: by
\* then the status has been polled and the winner's ring is gone.
Replay ==
  /\ page.timer \in {"bot", "pause"}
  /\ page.timer = "pause" => ~page.winner /\ (conn = "up" => page.connected)
  /\ PageBecomes(ReplayNext(page))
  /\ UNCHANGED <<table, srv, last, out, conn, wire, snap, drops, kicks>>

Reveal ==
  /\ page.timer = "reveal"
  /\ PageBecomes(RevealNext(page))
  /\ UNCHANGED <<table, srv, last, out, conn, wire, snap, drops, kicks>>

\* The cards fly to the winner for 0.8 s, then the deck is cleared; the ring goes
\* after 2.5 s or more (CardCollectionAnimation.tsx).
ClearDeck ==
  /\ page.winner /\ page.deck # <<>>
  /\ PageBecomes([page EXCEPT !.deck = <<>>])
  /\ UNCHANGED <<table, srv, last, out, conn, wire, snap, drops, kicks>>

ClearWinner ==
  /\ page.winner /\ page.deck = <<>>
  /\ PageBecomes([page EXCEPT !.winner = FALSE])
  /\ UNCHANGED <<table, srv, last, out, conn, wire, snap, drops, kicks>>

Timers == Replay \/ Reveal \/ ClearDeck \/ ClearWinner

Next ==
  \/ \E p \in Seat : BotPlays(p) \/ OtherPlays(p)
  \/ Click \/ Decline \/ ClaimVictory \/ Kick
  \/ \E a \in DOMAIN out : Publish(a)
  \/ Connect \/ ReadGame \/ SendSnapshot \/ Drop
  \/ Deliver \/ Poll \/ Timers

\* Nobody has to play; the server publishes and its bots move, the socket is opened
\* again, messages arrive, polls and timers go off.
Fairness ==
  /\ WF_vars(\E p \in Seat : BotPlays(p))
  /\ WF_vars(\E a \in DOMAIN out : Publish(a))
  /\ WF_vars(Connect) /\ WF_vars(ReadGame) /\ WF_vars(SendSnapshot)
  /\ WF_vars(Deliver) /\ WF_vars(Poll) /\ WF_vars(Replay) /\ WF_vars(Reveal)
  /\ WF_vars(ClearDeck) /\ WF_vars(ClearWinner)
Spec == Init /\ [][Next]_vars /\ Fairness
------------------------------------------------------------------------------
\* At a table with one human, whose connection holds, a deferred end of the game is shown:
\* the queue it waits for is replayed to its end or cancelled, and both apply it
\* (useGameStore.ts, replayNext and cancelBotReplay).
Calm == table.human = {Me} /\ drops = 0
PlayedOverShown == (page.pending /\ Calm) ~> (page.over \/ ~Calm)

\* At such a table the end of a game shows after its last card: no card and no pause of
\* the queue is thrown away by it (useGameWebSocket.ts, game_finished).
OverComesLast == [][(page'.over /\ ~page.over /\ Calm) => page.queue = <<>>]_vars

\* At such a table, once all events have arrived and all timers have gone off, the player
\* to move sees the turn and the hand the server has: no replay drops, doubles or
\* reorders a card (useGameWebSocket.ts, card_played and turn_changed).
MyPlays == srv.round - 1 + (IF Me \in ToSet(srv.trick) THEN 1 ELSE 0)
Settled == srv.turn = Me /\ ~srv.over /\ ~InFlight /\ page.timer = "none"
TableSettles ==
  (Settled /\ Calm) => page.turn = srv.turn /\ page.hand = (1..Rounds) \ (1..MyPlays)

\* The flag of a claim that has been answered, with no answer left to lower it: it went
\* out while the page had no socket, or before a snapshot that was read before it.  No
\* snapshot lowers the flag (useGameWebSocket.ts:318).
Answers == {"claim_resolved", "special_claim"}
StaleClaim ==
  /\ drops > 0 /\ page.claim /\ ~srv.claim
  /\ \A i \in DOMAIN wire : wire[i].type \notin Answers
  /\ \A a \in DOMAIN out : \A i \in DOMAIN out[a] : out[a][i].type \notin Answers

\* A player whose turn it is can sooner or later click a card, whatever is replayed and
\* wherever a connection is lost in a round or in a replay; but not when the loss has
\* left the page with a stale claim, which bars its cards for good (GameTable.tsx,
\* onCardClick).
TurnPlayable ==
  (srv.turn = Me /\ ~srv.over /\ ~srv.claim)
    ~> (Clickable \/ srv.turn # Me \/ srv.over \/ StaleClaim)

\* "If a game-over was deferred and the replay is being cancelled for any reason, apply
\* it now so it is never lost" (useGameStore.ts, cancelBotReplay).
OverShown == page.pending ~> page.over

\* "Restore the special-card claim state from the snapshot (e.g. after a reconnect)"
\* (useGameWebSocket.ts, game_state_snapshot).
ClaimRestored == (page.claim /\ ~srv.claim) ~> (~page.claim \/ srv.over)
==============================================================================
