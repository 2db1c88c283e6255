# Jambo: a formal model of the game, its money and its services

Jambo is a trick-taking card game: a Rust backend (`src/backend/crates`) that
keeps the games in PostgreSQL, a React frontend, Redis for events, locks and
caches, RabbitMQ for the moves of the bots and PayPal for credits. This
directory holds TLA+ models of what the program decides, the TLC configurations
that check them on small instances, and proofs, checked by TLAPS, that hold for
every size.

## 1. Inventory

| Component | State it keeps | Operations | What is hard | What makes it correct |
|---|---|---|---|---|
| Card play and round evaluation (`game/service/{gameplay,evaluation}.rs`, `card_play/`) | `games` row, `game_cards`, `players.credits`, `player_profiles.credit` | play a card, evaluate a round, settle | READ COMMITTED transactions that interleave, an optimistic version that is read twice, retries | one card per seat and round, the pot paid once, no lost turn, the right winner |
| Special-card claims (`game/service/claim.rs`, `jambo-types/cards.rs`) | `games.pending_claim_player_id` | offer at the start, claim, decline | claim and decline race, compare-and-set on the status only | granted to the asked seat only, while it is asked, and paid once |
| Deck, hands and bot strategies (`cards.rs`, `jambo-types/strategy.rs`) | none | deal, find the special hands, choose a card | rules written in several places must agree | what a bot chooses the engine accepts |
| Kick and stall recovery (`lifecycle.rs`, `recovery.rs`) | `players.position/kicked`, `games.rank/stall_warning_sent_at` | the periodic scan: warn, kick, restart a bot | the scan reads rows outside the transaction that uses them; seats are renumbered | the turn reaches the next player, nobody kicked is paid, the game ends |
| Creation and invitations (`creation.rs`, `invites.rs`, `invite_acceptance/`) | `games`, `game_invites`, `players`, profiles | create, invite, accept, decline, cancel, start, expire | accept against cancel, writes of rows read before | a stake is taken once and given back once; a started game has all its players |
| Quick game (`quick_game.rs`) | the same | create and deal at once | the credit is written from an earlier read | the stake is taken |
| Profiles and freezing (`repositories/player_profile.rs`) | credit, `frozen_until`, `cashout_locked` | settle, freeze, end of a freeze | decisions on values read before | what the rows account for is the credit |
| Top-up, unfreezing, cash-out (`api/{topup,unfreeze,cashout}.rs`, admin CLI) | `topup_transactions`, `cashout_requests`, marks in Redis | order, capture, request, approve, reject, pay, expire | PayPal answers late or twice; commands die half-way | credit given once per payment, credits given back or paid out once, no account locked for ever |
| Rooms and runs (`room/`) | `rooms`, `game_runs`, `game_run_players`, `game_run_games` | create, join, leave, start a run, start its next game | a lock in Redis that may lapse, unique indexes, refunds | provisions accounted for, one active run per room, games in order |
| Bot scheduling and worker (`bot_scheduler.rs`, `worker_core.rs`, `jambo-api/worker`) | a queue of tasks, locks in memory, a semaphore | publish, consume, fall back to a chain in memory | tasks lost, repeated or late | a bot's turn is always carried by somebody, and is played |
| Idempotency guard (`idempotency.rs`, `trait_impl.rs`) | keys in Redis | acquire, complete, release | early returns and dropped handlers that keep the key | one execution per key while it lives, every retry answered |
| Messaging (`messaging/`) | connections, a circuit breaker, a buffer of events | publish, flush, consume | outages, tasks that share the breaker | it closes again; events arrive unless the buffer overflowed |
| WebSocket manager (`websocket/`) | registries of sockets, queues, spectators of runs | connect, name, evict, forward, sweep, re-point | two tasks per socket and a registry that anyone may change | a client ends up with one live socket and its events |
| Caches and leaderboard (`caching.rs`, `dashboard_service.rs`, `leaderboard.rs`) | keys in Redis | keep, drop, rebuild | a read before a change kept after the drop | a stale page only from a race that can be named |
| Scheduler (`scheduler/`) | none but what is due | ticks under timeouts, mails, shutdown | a tick is cut anywhere | whatever is due is handled in the end |
| Rate limiter, accounts, mails (`rate_limiter.rs`, `auth_service.rs`, `jambo-mailer/queue.rs`) | counters, `users`, a bounded queue | admit, register, send | edges of windows, checks before the insert | the limit holds, one account per address |
| The page of a game (`frontend/`: `useGameStore.ts`, `useGameWebSocket.ts`, `useWebSocket.ts`) | the table as shown, events held back, timers | apply events, replay the bots' cards, click, reconnect | events arrive during a replay, snapshots amid events | the page settles on what the server has; whoever has the turn can play |
| PayPal client, admin CLI, HTTP routes and dashboards, migrations | | | see PROJECT.json | |
| Metrics, configuration, translations, templates, benchmarks, deployment | | | not modelled, section 7 | |

How they interact. An HTTP handler calls `GameService` (`trait_impl.rs`), which
runs one database transaction, publishes events to Redis after the commit and
asks `BotScheduler` for the next bot's move, which goes through RabbitMQ to a
worker or through a chain of tasks in memory. The worker and the scheduler's
tasks call the same service, each from a process of its own: the rows of the
database are what they share, and the version `games.updated_at` is the only
thing that orders their writes to a game. A profile is shared by all games,
payments and cash-outs of a user; a run by the room, its games and the
scheduler. The WebSocket manager of every server reads the events from Redis
and puts them into the queues of its sockets; a page learns of anything else
from a snapshot.

## 2. Plan

In the order of importance: who is paid, what can stop a game, what brings it
about, the money between games, then what carries and shows it.

| # | Modules | State |
|---|---|---|
| 1 | `CardRules`, `TrickGame`, `CardPlay`: the engine, and the abstract game it implements | modelled, checked, safety and refinement proved |
| 2 | `Session`, `Lineups`: hours of a game, silence and kicks | modelled, checked, types, turn and payment proved |
| 3 | `Lobby`: one game until it starts | modelled, checked, safety proved |
| 4 | `Profile`, `Stakes`, `Orders`, `Cashout`, composed in `Ledger` | modelled, checked, payments and credit proved |
| 5 | `Rooms`, `Runs`, `NextGame`, composed in `RunSession` | modelled, checked, order of runs and games and credits proved |
| 6 | `BotQueue`: server, broker, workers, chains | modelled, checked, safety proved |
| 7 | `Idempotency`, `Breaker`, `EventBuffer`, `RateLimiter`, `Accounts`, `Sockets`, `Channels`, `Watching`, `Caches`, `Scheduler`, `Hands`, put together in `Services` | modelled, checked, safety proved |
| 8 | `Client`: the page of a game | modelled, checked, safety proved |

Left: the page with several humans at the table and a click made while events are on
their way; the spectators of a single game; invitations by mail to a room; two start
requests at once in `Lobby`, whose second deal nothing prevents.

## 3. The modules and the code

The modules of games, profiles and runs describe rows of PostgreSQL under READ
COMMITTED. A transaction is cut into steps where another one can come in
between: each read that matters is a step, and the first write that takes a lock
other writers wait for is one step with everything up to the commit. What lives
in memory or in Redis is cut at every await.

### Games

* **`CardRules`**: the pure rules. `FollowsSuit` is `validate_follows_suit`,
  `Beats` and `NewWinningCard` are `card_play/engine.rs`, `TrickWinner` is
  `evaluate_round`, `FinalStatus` is `compute_final_status_with_special`,
  `Payment` is `calculate_payment`, `NextSeat` is `next_player`. Cards are the
  indices 0..31 of `card_mapping.rs`.
* **`TrickGame`**: what one game promises. `PlayOn`, `PlayLast`, `Claim` and
  `Decline` are atomic and there is no version, retry or transaction.
* **`CardPlay`**: the engine. `game` is the `games` row (`version` is
  `updated_at`), `round` and `playedAt` the `game_cards` rows, `purse` and
  `credit` the two credits, `tx[p]` what request `p` has read and where it
  stands. A play runs through `BeginPlay` (`fetch_and_validate_game/turn`),
  `ValidateCard`, `MarkCard` (`mark_card_played`), `CountRound`
  (`is_round_complete_txn`) and either `CommitPlay`, or `ListRound`,
  `ReadVersion` and `CommitRound` (`evaluate_round_in_txn` and the settlement);
  `Conflict` and `RetryPlay` are the loop of `update_card_play`. In a
  step-by-step game `BeginEvaluate` starts the evaluation as its own request.
  `BeginClaim`, `CommitClaim`, `ClaimRefused` and `Decline` are `claim.rs`.
  The evaluation reads the version anew (`ReadVersion`), as in the code.
* **`MCCardPlay`**: `CardPlay` with one request per seat or two, and the
  refinement of `TrickGame`.
* **`Session`**: one game over hours. A play, a claim and a decline are one step
  (their interleavings are `CardPlay`'s); the scan of `recovery.rs` is cut at its
  reads (`FindStalled`, `ReadPlayers`, `Warn`, `BeginKick`) and its commit
  (`KickFromSolo`, `KickToForfeit`, `KickAndReseat`: the three endings of
  `kick_player_from_game`). `position`, `kicked` and `humans`
  (`player_type`; bots exist in `Solo` games only) are columns of `players`,
  `idle` the age of `games.updated_at` by the thresholds it is compared with,
  `chain` the bots whose move is about to be made. Cards are counted, not named:
  whoever has a card in a round may win it. `Crash` loses the chains of the bots,
  which live in memory, and `ScanCut` rolls back the transaction of a scan.
  `Unattended` is a game whose turn is at the index of a row that was kicked.
* **`Lineups`**: `Session` and `CardPlay` in the line-ups that differ in kind;
  a behaviour is one line-up from start to end.
* **`Lobby`**: one multiplayer game until it starts. `game.taken` is
  `games.player_positions`, `game.seats` its `max_players`, `seat` the `players` rows,
  `invite` the `game_invites` rows. Accepts take the mutex of their backend
  (`accept_invite_lock`), read the game (`AcceptBegin`), the players and the
  invitation (`AcceptSeat`) and commit (`AcceptWrite`); the scan of every backend
  reads the expired game (`ScanBegin`), lists its players (`ScanList`) and
  commits the refunds and the cancellation (`ScanWrite`); a start reads
  (`StartBegin`) and deals (`StartWrite`). No write but the unique index of
  `players` is conditional on what was read, as in the code. `crossed` remembers
  whether two backends have had an accept in flight at once, which no mutex prevents.
* **`Hands`**: `compute_special_cards`, the loop of `select_askee` that finds
  who is asked to claim, and the card a bot's strategy picks.

### Money

* **`Profile`**: the row all the others write, and the scan that ends freezes
  (`ListExpired`, `EndFreeze`: `check_expired_freezes`). `granted` is what the
  rows of games, orders and requests account for; `overwritten` is set by a
  write of a credit that has moved since it was read.
* **`Stakes`**: a game joined (`JoinRead`, `JoinWrite`: optimistic for a created
  game, blind for a quick or an accepted one), settled (`SettleRead`,
  `SettleWrite`) and cancelled (`CancelRead`, `CancelWrite`).
* **`Orders`**: a PayPal order, created, approved, captured by the request of the
  client or by the return page (`way[order]`), and finalized
  (`insert_order_if_absent_in_txn` with the credit); for unfreezing also the
  marks in Redis, which may lapse (`Forget`).
* **`Cashout`**: a request, and the decisions on it: `Consider` has read it,
  then `ApproveRequest`, `RejectRequest`, `PayOut`, `ConfirmPayment` and
  `MarkPaid` write it; PayPal pays each `sender_batch_id` once, and answers, loses
  its answer or refuses a batch it has seen. `crossed` is set by a write that moves
  the credits while another decision is open, or that gives back what was paid out
  and never marked.
* **`Ledger`**: all writers of one profile together.

### Rooms and runs

* **`Rooms`**: members and creator; `req[q]` is a request with what it has read.
  `DeleteRoom` is the cascade.
* **`Runs`**: `CreateRun`/`CreateRunEnd`, `JoinRun`/`JoinRunEnd` with the
  conditional debit; `LeaveRun`, `Refund`, `CountLeft`, `CloseRun` are the steps
  of `leave_run`.
* **`NextGame`**: `StartNextGame` takes `start_game_lock:{run}`, `PlanGame` reads,
  `StartGame` is the transaction under the unique index of (run, index),
  `Release` is `compare_and_delete`, `LockExpires` the TTL. `GamePlayed`,
  `PlayerKicked` and `FinalizeRun` are the ends of games; `ScanRuns`, `ActOnRun`
  and `ScanCut` are `check_stalled_runs`.
* **`RunSession`**: a room with its runs from several points of its life
  (`Setups`: no room, a room, a run with or without a game played).

### Bots, services and pages

* **`BotQueue`**: `HumanPlays` and `Schedule` on the server, `Publish` with its
  fallback (`ChainStart`, `ChainMove`, `ChainNext`, `TryAgain`:
  `run_sync_chain`), the broker's queue with `Deliver` and `Redelivered`, the
  worker's slot from `Dispatch` through `LockTable` and `LockGame` to
  `WorkerMove`, `WorkerNext` and `Settle`, and the faults `ConnectionLost`,
  `WorkerCrash`, `ServerCrash`, `Shutdown`; `Recover` is the scan.
* **`Idempotency`** (a key with every way its holder may end), **`Breaker`** (the
  circuit breaker, each lock and atomic a step), **`EventBuffer`** (the buffer
  and its flush task), **`RateLimiter`** (the window in Redis and the one in
  memory), **`Accounts`** (registration up to the unique indexes; the mail
  queue), **`Scheduler`** (`check_expired_freezes` as a task, with its mails, its
  timeout and the shutdown).
* **`Sockets`**: the registry of a game's sockets: `OpenSocket`, `ReadJoin`,
  `SetPlayer` with its eviction, `Forward` and `ReadEnds` of the two tasks,
  `Sweep`, `Kick`, `ForceDisconnect`. **`Channels`**: the sockets of a room's and
  a user's page. **`Watching`**: spectators of a run, `JoinStep` in four steps and
  `ReadEntries`, `MoveOne`, `WriteEntries` of `re_point_run_spectators`; a full queue
  takes a spectator out of the map of games alone (`Overflow`, remembered in `slow`).
* **`Caches`**: a page kept after it was read (`Look`, `ReadProfile` or
  `ListGames`, `Keep`) against the changes and their drops (`Commit`, `Drop`);
  the leaderboard rebuilt call by call (`ClearBoard`, `AddOne`, `PutNames`).
* **`Services`**: these, `Channels`, `Watching` and `Hands` side by side, `Caches`
  twice (pages and leaderboard). `Parts` names them. They share no state, so that
  a behaviour of all is a behaviour of each: one moves and the others rest.
* **`Client`**: the store of the page and its socket handler. `Play`, `BotPlays`,
  `OtherPlays`, `Kick`, `ClaimVictory` and `Publish` are the server and its
  events, `OnCardPlayed` ... `OnSnapshot` the handlers, `BotReplay`,
  `ReplayNext`, `RevealNext` the replays on timers, `Clickable` and `Click` the
  hand. `MCClient` gives the tables.

The proofs are in modules of their own: `CardPlayProofs`, `SessionProofs`,
`LobbyProofs`, `LedgerProofs`, `RunSessionProofs`, `BotQueueProofs`,
`ServicesProofs`, `ClientProofs`.

## 4. The runs

| Run | Configuration | What it shows |
|---|---|---|
| `one_request_each` (`MCCardPlay`, `CardPlay3.cfg`) | three humans, two rounds, a deck with two threes and three suits, one request in flight per seat, three attempts | The engine implements `TrickGame` (`ImplementsTrickGame`): no seat is passed over, the leading card kept play by play is the one the evaluation finds, nobody is paid but the winner; the pot is paid exactly once (`SettledOnce`); the game ends if everybody goes on playing (`GameEnds`) |
| `double_click_paid` (`CardPlayDupPaid.cfg`) | two requests in flight for a seat | `SettledOnce` is **violated**: the last card played twice pays the pot twice |
| `lineups` (`Lineups.cfg`) | two humans, either of whom may be asked to claim; three humans, any of whom may be kicked; a human with two bots; a step-by-step game; a click made twice | Stalled games end, unless the turn has come to the row of a player kicked before (`StalledGameEnds`, `Unattended`), every request is answered (`EachAnswered`), no turn is lost (`NoLostTurn`), one claim wins and is paid once (`OneClaimWins`) |
| `session_three` (`SessionThree.cfg`) | three humans, each of whom may be asked to claim and kicked, or one human and two bots, one scan or chain cut short | Through the renumbering of the seats the turn is at somebody's seat and never at two active players', and until the second kick at exactly one's (`TurnHasOneHolder`); nothing pays a player who was kicked but the claim pending for it (`KickedNeverPaid`) |
| `lobby` (`Lobby3.cfg`) | two users to invite to two or three seats, two backends, one start, one cut | The seats are taken in order and the player map names everybody until accepts of two backends cross, and nobody off his seat after that (`SeatsInOrder`); cards only for a full table, and one player too many at most (`StartedFull`); `PendingEnds` (no pending game waits for ever) |
| `lobby_refunds` (`LobbyRefund.cfg`) | three users to invite, one backend | `StakesReturned` is **violated**: who joins during a cancellation loses the stake |
| `ledger` (`Ledger.cfg`) | three games, a top-up, an unfreezing, a cash-out, in the pairs and triples of `Loads`; one cut | The credit is what the rows account for unless a writer has overwritten what it had not read (`Accounted`); a payment is credited once (`CreditedOnce`), the credits of a cash-out are given back or paid out once while its decisions do not cross, and its status is never ahead of the money (`ClosedOnce`); freezes and locks end (`BlocksEnd`); what was paid for is applied if the client goes on asking (`PaidIsApplied`) |
| `runs_of_a_room` (`MCRunSession`, `RunSession.cfg`) | three users, two requests, two runs, two games each, one cut | `OneActiveRun`, `GamesInOrder`; what users paid for runs is provisioned, bet or strayed (`Accounted`); a run nobody continues is ended (`StalledRunEnds`) |
| `bot_queue` (`BotQueue.cfg`) | a human and a bot, two rounds, two slots of a worker, one fault | The turn of a bot is carried by a task, a chain or the scan (`BotTurnCarried`), it is played (`BotTurnPlayed`), every delivery is acknowledged or requeued (`TaskSettles`) |
| `services` (`Services.cfg`) | each service with the faults it is there for | A key makes one move while it is kept (`OnceWhileKept`), and every retry is answered (`RetryAnswered`); the breaker closes again (`BreakerCloses`); events of the buffer arrive (`EventArrives`); limits hold (`LimitHolds`); registrations that cross make one account (`OneAccountEach`); a client ends up with a live socket (`ClientServed`), the page of a room or a user whose socket was lost is reached by its events again (`PageServed`); a spectator follows its run (`FollowsRun`); a shown page is stale only after a race that is named (`StaleOnlyInRaces`); what is due is handled (`DueHandled`); askee, special hands and bots' choices agree with their definitions (`RulesAgree`) |
| `client` (`MCClient`, `Client.cfg`) | five tables: two bots; a lost connection; a duel with a kick; a duel with a claim; a duel with a claim and a lost connection | The page settles on what the server has (`TableSettles`), shows the end of the game (`PlayedOverShown`) after its last card (`OverComesLast`), and lets whoever has the turn play, unless a lost connection has left the page with a claim that is answered (`TurnPlayable`, `StaleClaim`) |
| `room_zombie` (`Channels`, `ChannelsZombie.cfg`) | a room's page, nothing broken | `NeverZombie` is **violated**: the entry is swept while the socket stays open |

Deadlock is not checked: a game, a page and a request end, and then nothing
happens.

Further configurations show behaviours section 5 describes, one property at a
time, and TLC finds it violated: `SessionTwoKicks` (two properties),
`SessionResult`, `LedgerCashout`, `RunCompleted`, `WatchingRace` and
`ClientReconnect` (two properties) (`tlc -config SessionResult.cfg Session`;
`RunCompleted` with `MCRunSession`, `ClientReconnect` with `MCClient`).

### Bounds

* Two rounds instead of five: every rule that looks at rounds looks at the last
  one, the one before it, or the one being played. Three seats are the fewest
  where a seat is neither the last nor the next; two seats with two requests for
  one of them are the fewest that conflict.
* `MaxRetries` is the code's 3 in `one_request_each` and 2 where two requests of
  a seat compete, enough for one to be retried and to be given up.
* `MaxKicks`: three humans may all be kicked, in `session_three` and in the line-up
  `three`: the first kick leaves a game that goes on and has been renumbered, the
  second works with the row of the first. `MaxCrashes`, `MaxCuts`, `MaxFaults` are 1:
  every transaction, task and chain is cut at every point, and what makes up for it is
  not cut again, without which nothing could be promised.
* `Session`'s ages are the four intervals that the thresholds make; time within
  one of them changes nothing. In the same way `age` of a run and of a request,
  `frozen`, `cooled` and the ages of sockets.
* `Lobby`: three users for two seats, so that somebody finds the game full or is one
  too many, or for three, so that it may be started too early; a user may or may not
  be able to pay; two backends, for the mutex is in the memory of one; one start
  request, see section 5.
* `Ledger`: `Loads` puts a quick game, the writer that overwrites, beside each other
  kind of writer, takes three games at once, and pairs a top-up with the other two
  payments. `MaxHands` is how many commands consider a request at a time: two, so
  that they conflict.
* `RunSession`: two requests are the fewest that conflict, two games the fewest
  with a next one, two runs the fewest with a run after another; `MCSetups`
  starts them before the room, before and in a run.
* `BotQueue`: one bot between two turns of a human; two slots so that a delivery
  waits for the lock another holds; two chains so that the scan starts one while
  another runs; one early scan.
* `Services` gives the bounds of the parts that are only checked with the instances
  (`Threshold`, `BufferMax`, ...), and takes those of the parts that are proved about
  as constants (`MaxRequests`, `Window`, `Horizon`, ..., in `Services.cfg`): thresholds
  are 2 instead of 5, the buffer holds 2 instead of thousands, so that limits are met
  and passed. Hands are five of
  each kind that is special or nearly so (`Dealt`).
* `Client`: `MaxWire` events on their way are enough for one to arrive amid a
  replay and one after it; the tables are played to their end.

### Fairness

* `CardPlay`: weak fairness of the steps of a request in flight, for a future on
  the runtime is polled to its end and PostgreSQL wakes the waiting
  transactions. `GameEnds` also needs `KeepPlaying`: whoever has the turn tries
  a playable card again and again (strongly fair) and a claimant answers. That is
  an assumption on the players; without it `Session` is what ends the game.
* `Session` and `Lineups`: weak fairness of time, of the steps of the scans
  (`tokio::interval` runs them again and again) and of a bot's chain. Nothing is
  assumed of humans.
* `Lobby`: weak fairness of time and of the scan. Nothing is assumed of users,
  and an accept may stop in the middle.
* `Ledger`: of time, of the scan, of the automatic rejection, and of the client's
  handlers of an order, which `PaidIsApplied` needs.
* `RunSession`: of time and of the scan. Nothing of the members.
* `BotQueue`: of the scan, of the tasks of the server and the worker while they
  live, and of a worker's exit after its shutdown; a human need not play.
* `Services`: each part has its own: tasks and timers run (`FlushStep`,
  `CoolDown`, `TakeMail`, `Forward`, `Sweep`, `Refresh`, ...), Redis comes back
  where something waits for it (`RedisReturns`), a client asks or connects again
  where it is the client that is promised something (`AskAgain`, `Client`).
* `Client`: the server's bots and publisher, the socket's delivery and
  reconnection, the timers of the page. Clicks are free.

## 5. Where the code differs from what is said of it

The findings in PROJECT.json each have a run:

* **The pot is paid twice** (`double_click_paid`, `evaluation.rs:209`). The
  evaluation reads the version that guards its own write, after it has listed
  the cards. A second request that waited for the first one's row lock passes
  the guard.
* **A stake kept** (`lobby_refunds`, `lifecycle.rs:60`). The players to refund are
  listed before the status is written, and nothing keeps an accept away.
* **A socket without events** (`room_zombie`, `room.rs:64`). Nothing sets
  `last_pong` of a room's socket, so that its entry is swept after 90 s; nobody
  closes the socket, and its page does not connect again. A user's page pings, but
  that refreshes only `last_pong`: it is swept after ten minutes.

With a configuration of their own:

* A kick without a warning (`SessionTwoKicks`, `recovery.rs:168`): the mark is the
  game's, not the player's. Playing on alone (`SessionTwoKicks`,
  `lifecycle.rs:153`): players kicked before count as remaining. A result
  overwritten (`SessionResult`, `lifecycle.rs:228`): the kick's write of the game
  row is unconditional.
* Two rejections that both read a cash-out as open each give its credits back
  (`LedgerCashout`, `cashout.rs:308`).
* A run is completed while its last game is played (`RunCompleted`,
  `events.rs:341` against `docs/DESIGN.md:834`).
* A spectator who registers while the run goes on to its next game stays with
  the old one, or is lost (`WatchingRace`, `run_spectators.rs`; `FollowsRun` excuses
  who is still in such a race, `raced`, until a later game has been reached).
* A claim answered while the page was not connected, or before a snapshot read
  before the answer arrives, stays pending on the page, whose cards then cannot be
  clicked until the game ends (`ClientReconnect`, `useGameWebSocket.ts:318`,
  `GameTable.tsx:182`; named in `TurnPlayable`); an end of the game that was deferred
  may not be shown after a reconnection (`ClientReconnect`, against the comment at
  `cancelBotReplay`).

Met while modelling, and in the models:

* *Card play.* The repository's README (lines 37-39) lets a three that wins any
  round end the game and gives Kora the multiplier 1; the code looks at the last
  round only and multiplies by 2 and 4. Step by step, the last seat of a round
  keeps the turn and may play a second card before the evaluation, and the
  evaluation may be asked for before the round is complete.
* *Kicks.* A kick that has decided goes on although the player has played since.
  When the player kicked has the turn, it goes to seat 0, not to the next
  player. The row of a kicked player keeps its position: its plays and claims
  pass the checks when the turn or the claim finds it, a card of it in the round
  makes the evaluation fail, and when that row is at the index of the turn no
  scan finds the player to act: the game stops for good (`Unattended`, which
  `StalledGameEnds` excuses). A claim offered before the kick still pays the kicked
  player (`claim.rs:49-93` looks at no kick), although `stall_kicked.hbs` says that
  the bet is lost. The winner of a forfeit gets one bet, on the player row.
* *Lobby.* An accept that read the game before a cancellation writes it back to
  pending; the next scan refunds the players again. A start that read the game
  as ready deals although it was cancelled since; two start requests deal twice.
  With two backends two accepts take the same seat, write over each other's player
  map, and may seat one player too many, after the deal or before a start that is then
  refused for ever; `k8s/base/hpa.yaml` runs up to ten. A game that is full and
  never started never expires.
* *Money.* A settlement decides to freeze on a credit read before its increment
  (the comment at `player_profile.rs:192` speaks of the live one). An unfreezing
  is finalized without a capture when its page left the mark at "processing", may
  leave two rows, and sets the credit, which may lower it. The monthly cap is
  checked only when an order is created. Two decisions that have both read
  a cash-out as open are not stopped by its status: two rejections each give its
  credits back (`repositories/cashout.rs:308`), and a payment goes out for a request
  that a rejection has just closed. A payout whose command dies before the mark can
  still be rejected, and refunded (`LedgerCashout.cfg` shows `LeavesOnce` violated).
  Two cash-outs at once, or a stale automatic rejection, unlock an account with a request open.
* *Runs.* The next game is not started by the program (`docs/DESIGN.md:1244`); a run
  whose last game ends with a kick is never completed nor scanned; leaving turns a
  completed run into a cancelled one; two requests to leave, or one and the start
  of a game, refund too much; deleting a room destroys the provisions of its
  cancelled runs; joining late costs the whole run, also after it was cancelled;
  limits are checked before the insert; a name given twice is counted twice, so that a
  run may begin with one player (`runs.rs:50-66`); the creator may end up outside the
  room.
* *Bots.* Dead-lettered tasks vanish, for their exchange and queue are declared
  nowhere; publishes are not confirmed; a worker's exit does not wait for its
  chains; a crash between commit and publish is made up for only by the scan;
  the mutex of a game holds in one worker (`docs/DESIGN.md` 12.7 says across).
* *Services.* The handler of `POST /api/games/{id}/play` passes no idempotency
  key, and where one is given (`trait_impl.rs:55`) an error after the commit
  (`gameplay.rs:75`) releases the key of a move that was made; an event whose
  publisher is dropped between two attempts, by the timeout of a tick or a client that
  hangs up, is lost before it is buffered (`redis.rs:222-228`, `tasks.rs:65`);
  a failed probe leaves the breaker half-open (`docs/DESIGN.md:1704`); after
  a failed flush older events go behind newer ones, and an overflow then drops
  the newer; the limiter in Redis has a fixed window where the README (line 18)
  speaks of a sliding one; whoever loses the race of a registration is told of an
  internal error; a worker ends without draining on SIGTERM, and a task that
  panicked is not started again; the leaderboard is empty or partial while it is
  rebuilt, and stays so when the rebuilding is cut; some changes of a credit drop
  no cached page, which is stale for up to five minutes.
* *Sockets.* A late join of an evicted socket evicts the live one;
  `PlayerReconnected` is sent only while the old socket is still registered; the
  welcome follows the registration; a run's spectator whose queue is full is taken
  out of the map of games but keeps its entry and its open socket, and no later game
  reaches it (`manager/mod.rs:104-131`, `run_spectators.rs:203-215`; `slow` in
  `FollowsRun`); a kicked player may join again; the gauge of
  sockets is decremented twice.
* *Page.* A snapshot carries no hand (`docs/DESIGN.md:1112` says it does); a
  snapshot read before a commit and delivered after its event leaves a stale turn;
  `game_finished` missed while disconnected is never made up for; in a duel, a
  click made before the other's events have arrived may leave the end hidden.
* *Reports.* The refund report of the administrators counts one bet for a game
  whatever its multiplier (`admin_report.rs`); not modelled.

## 6. What is proved

Constants are arbitrary in all theorems, within the named assumptions of the
modules, and so are the numbers of requests. TLC evaluates the assumptions in the
runs.

* `TypeCorrect` and `InvAlways` (`CardPlayProofs`): in both modes and with any
  number of requests for any seat. `Inv` is `TypeOK`, that every card of the deck
  has been dealt (or a trick would have no winner), that the round of an active
  game is one of the game, and `TxSound`: an evaluation holds a trick and its
  first card, and a play holds a row that gave its seat the turn; while the
  version has not moved the turn, the round, the status and the leading card are
  still those of that row.
* `TurnIsNeverLost`, `ClaimIsPaidOnce`: from that invariant, the second with what has
  been paid so far. A version that has not moved means the turn, the round and the leading
  card have not.
* `SequentialGameIsSettledOnce`: with one request in flight for each seat and
  rounds evaluated by the play that completes them, the pot is paid exactly
  once. The strengthening (`OneAtATime`) says that a play in flight has the turn
  and the row that it read, so that no other request can take a step, and that
  what an evaluation or a claim has read of the purses is what they hold.
  `double_click_paid` shows that the first hypothesis is needed.
* `SequentialGameIsTrickGame`: under the same hypotheses every step of the engine is
  one of `TrickGame` or changes nothing it sees (`ImplementsTrickGame`). `TrickInv`
  says how far the round has got: the seats that have played are those from the one
  that led up to the turn (`InTurn`), a card each (`OneEach`), and the leading card of
  the game row takes the trick of the card played first (`Leads`), which is how the
  comparison card by card comes to the winner that the evaluation finds. Of a play in
  flight it says that its card is still allowed, that its time is after all others,
  and that what it has counted and listed is still there (`Flight`).
* `SessionTypeCorrect` (`SessionProofs`): the turn stays a seat while seats are
  renumbered; it rests on lemmas that count the players of a listing and find
  the index of a player in it. The invariant adds that an active game has rounds
  left, and that a scan about to warn or to kick holds a human and a listing of
  the players.
* `TurnIsHeld`: with any number of kicks. `TurnInv` says that no two active players
  share a seat (`Apart`), that the first seats, as many as the rows the last kick has
  numbered (`Taken`), are somebody's and until a second kick an active player's
  (`Seated`), that the turn is one of them, and that the listing a scan holds names
  every player once. The kick gives those who remain their places in that listing
  as seats, and the turn one of these places. After a second kick the turn may come to
  a seat that only the player kicked before has, for such players are still listed.
* `KickedIsNeverPaid`: with any hands, kicks and claims. A settlement pays active
  players; a forfeit leaves one row, which happens only in a game of two, and
  `LastOfTwo` says that such a game is over with its first kick; what remains is the
  grant of the claim, which pays whoever it was offered to.
* `LobbyTypeCorrect` (`LobbyProofs`), `SeatsAreTakenInOrder`, `StartsWhenFull`: with
  any number of backends. The invariant says that an accept in flight holds the mutex
  of its backend, that whoever it has read as a player has that seat still, and that it
  has counted no more players than there are (`AcceptsSound`); so a status of ready
  means that every seat is taken (`FullOnceReady`), and a map written late names nobody
  off his seat. Accepts that have found room are one for each backend at most
  (`OneWriterEach`), which bounds the players who are too many (`RoomKept`). Until
  accepts cross, the one in flight holds the players as they are (`AloneSound`).
* `LedgerTypeCorrect` (`LedgerProofs`): the invariant is a conjunction of one part
  for the profile, the games, the orders and the requests, each kept by its own
  steps and untouched by the others.
* `PaymentsAreCreditedOnce`: with any number of orders and of captures of each.
  The row of an order and its credit come in one transaction under the unique
  order id, and a handler finalizes only what PayPal has captured (`TopUpsSound`).
* `RequestsAreClosedOnce`: with any number of commands and scans at work on any
  number of requests. While no decisions have crossed, a request is open to whoever
  is at work on it, who pays has read it as approved, and its credits have left it
  at most one way (`Way`); whatever crosses, who is about to mark it paid has had it
  paid (`RowSound`).
* `CreditIsAccounted`: whatever writes the profile at once and is cut short. `Books`
  says what the rows add up to. `Profile` and its writers state sums as the numbers
  of the rows that count for one amount (games staked, won and lost, orders topped
  up, requests charged and refunded), so that a step that moves one row moves each
  number by one at most (`OneChanges`); no fold is needed. Games, orders and requests
  are assumed to be finitely many.
* `OneRunAtATime` (`RunSessionProofs`): `UniqueRun` is the index on the active
  runs of a room; nothing but the insert makes a run active.
* `GamesFollowEachOther`: `PlansSound` says that
  a request about to create a game holds an index that its run has had, after
  the end of the game before it; with the unique index of (run, index) only the
  next game can then be created, though the lock may lapse at any step and many
  requests hold plans. `GamesInOrderAlways` adds that nobody bets twice on a game.
* `CreditsAccounted`, `StraysInRaces`: `Money` is what every user has paid, row by row:
  a provision is a number of bets not yet made, and the bets held in all rows are a
  set of pairs of a run and a number, so that a step that changes one row changes
  that part of the set. Credit strays only when
  a request to leave refunds what is no longer in the row, or when the room goes and
  the rows with it.
* `TurnIsCarried` (`BotQueueProofs`): while nothing has failed (`faults = 0`), a task, a
  slot, a chain, or what the server is about to publish has the turn of a bot. `Calm`
  says that the seats that have played a round are an arc up to the turn (`InOrder`),
  so that a seat at the turn still has the card its task counts on, and that the
  snapshot in a task is of this moment or an earlier one and holds what the bot
  still has (`TasksFresh`): a task that is refused is an old one. After a fault it is
  the scan that brings the turn back, and `BotTurnPlayed` is what is checked of it.
* `MovesOnce` (`ServicesProofs`): of any number of requests with one key, one works
  while the entry is kept, and once the move is made the entry is there, unless an
  error after the commit releases it.
* `LimitsHold`: for every limit, window and number of servers. In memory, every request
  let through within the last window is still in the list that is counted; in Redis,
  the counter lives for a window from the first request that it counts, so that two
  counters meet in a window and twice the limit may pass, and no more.
* `AccountsAreSingle`: an address in the table is a mailbox, and a request under way
  holds one, so that the unique index compares what it should. That is where the
  lower-casing must be idempotent (`MailboxAssumption`).
* `StaleOnlyWhereNamed`: what a request has read of a page, and what is kept of it, is
  what the database has, or the page has still to be dropped, or a race that `Caches`
  names has doubted it.
* `HandsFollowRules`: for any hands dealt and cards led. After n hands the
  loop of `select_askee` holds the highest rank of them and the one seat that has it.
* `InvAlways`, `PageSettles`, `EndComesLast` (`ClientProofs`): at every table of
  one human and any number of bots, for every number of rounds, while the connection
  holds. What is to be published, on its way and queued leads from what is shown to
  what the server has: once the player is to move, only cards that move the turn to
  the player are left to publish, and nothing behind the last of them takes it away
  (`TurnInv`); the hand shown is the cards not played and those on their way, which
  come in order (`HandInv`); the end of the game is behind the player's last card
  (`OverInv`). Whether the player has played in the round follows from who has the
  turn, for the seats of a round follow one another (`RoundInv`).

Every invariant, action property and refinement that a passing run checks is stated by
one of these theorems; `TypeOK` of the modules is proved and not among the properties
of the runs. Only model-checked: liveness, for the prover has no ENABLED. These are the
properties of section 4 that say that something ends, is answered, arrives or is
played. In `Services`, the breaker, the buffer, the sockets, the spectators and the
scheduler promise nothing but liveness, so that the theorems do not speak of them.
The properties that runs find violated are not proved, nor refuted for other sizes.

## 7. What is not modelled

See the components in PROJECT.json. In short:

* What has no rule of its own: routes and formats, translations, templates,
  metrics, logs, configuration, dashboards of the operators, benchmarks, the
  manifests, and the pages of the frontend that only show what they are sent.
* Who a request comes from: tokens, sessions, login and logout. Users are who they
  are.
* The random dealing is any deal; `CardPlay`, `Session` and `BotQueue` take any
  set of seats for those with a special hand, and `Hands` says which hands are.
* Time is the order of events and the intervals between thresholds.
* Redis, RabbitMQ, PayPal, the network and the browser are modelled from how the
  code uses them, and marked external in the map.
* Invitations to a room by mail, the spectators of a single game, the administrators'
  keys, reports and manual refunds, and the cache `game:state`, which is written
  and never read.
* `CardPlay` and `Session` take a settlement for an increment, as it is in the
  code, and `Lobby` has one writer of a profile at a time: what several games of a
  user do to the profile is `Ledger`'s.
