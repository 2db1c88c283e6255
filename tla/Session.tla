------------------------------- MODULE Session -------------------------------
(***************************************************************************)
(* A game over time: players who stop answering, the scheduler's scan that  *)
(* warns and kicks them, the bots' chains and their recovery.  A card play, *)
(* a claim and a decline are one step each: CardPlay shows how they         *)
(* interleave.  The scan reads the game row, then the player rows, and only *)
(* then opens the transaction that kicks, which reads the game row again;   *)
(* every read and the commit are separate steps here.  Cards are counted,   *)
(* not named: who wins a round is any player with a card in it.             *)
(***************************************************************************)
EXTENDS CardRules, Sequences

CONSTANTS
  N,                 \* number of players
  CARDS_PER_PLAYER,  \* rounds of the game, 5 in the code
  Bet,               \* the stake each player has paid
  StartCredit,       \* profile and player credit after paying the stake
  Tables,            \* the sets of players who may be the humans of a game
  Users,             \* the players with an account
  SpecialHands,      \* the players who may be asked to claim
  MaxKicks,          \* bound: the scan gives up after so many kicks
  MaxCrashes         \* bound: crashes and timeouts

\* Players are numbered by their first seat.
Players == 0..(N - 1)

ASSUME NAssumption == N \in Nat \ {0, 1}
ASSUME CardsAssumption == CARDS_PER_PLAYER \in Nat \ {0}
ASSUME BetAssumption == Bet \in Nat /\ StartCredit \in Int
ASSUME PlayersAssumption ==
  /\ \A t \in Tables : t \subseteq Players
  /\ Users \subseteq Players /\ SpecialHands \subseteq Players
ASSUME BoundsAssumption == MaxKicks \in Nat /\ MaxCrashes \in Nat

VARIABLES
  game,      \* the game row; idle is the age of its updated_at
  position,  \* player -> seat
  kicked,    \* the players kicked
  humans,    \* the players who are not bots, by player_type
  left,      \* player -> unplayed cards
  trick,     \* the players of the cards of the round, in order
  purse,     \* player -> player.credits
  credit,    \* player -> profile credit
  alerted,   \* the players sent a staleness warning
  chain,     \* the bots whose move a chain or a task is about to make
  scan,      \* the scan of the humans: where it stands and what it has read
  crashes    \* how often something was cut short

seats == <<position, kicked, humans>>
cards == <<left, trick>>
money == <<purse, credit>>
vars == <<game, position, kicked, humans, left, trick, purse, credit, alerted,
          chain, scan, crashes>>

\* Ages of a game row: fresh, past the bots' threshold (60 s), past the alert
\* and past the kick thresholds of the humans (900 s and 1800 s).
Fresh == 0
BotStale == 1
AlertStale == 2
KickStale == 3

Nobody == NoSeat

Rest == [pc |-> "rest",
         row |-> [status |-> "Active", rank |-> 0, roll |-> 1, winner |-> Nobody,
                  claim |-> Nobody, warned |-> FALSE, idle |-> Fresh],
         list |-> <<>>, seat |-> [p \in Players |-> 0],
         purse |-> [p \in Players |-> 0], target |-> 0]

\* Bots are created with the quick games only, whose mode is Solo.
Solo == humans # Players

\* Nobody is asked to claim where there is a bot.
Init ==
  /\ humans \in Tables
  /\ \E r \in Players, c \in (IF Solo THEN {} ELSE SpecialHands) \union {Nobody} :
       game = [status |-> "Active", rank |-> r, roll |-> 1, winner |-> Nobody,
               claim |-> c, warned |-> FALSE, idle |-> Fresh]
  /\ position = [p \in Players |-> p]
  /\ kicked = {}
  /\ left = [p \in Players |-> CARDS_PER_PLAYER]
  /\ trick = <<>>
  /\ purse = [p \in Players |-> StartCredit]
  /\ credit = [p \in Players |-> StartCredit]
  /\ alerted = {}
  /\ chain = {game.rank} \ humans
  /\ scan = Rest
  /\ crashes = 0

\* Mutant of Active: the kicked players are not left out.
ActiveAll == Players

Active == Players \ kicked

\* The player rows ordered by position: rows with the same position come in any
\* order.
Listings ==
  {l \in [1..N -> Players] :
     \A i, j \in 1..N : i < j => l[i] # l[j] /\ position[l[i]] <= position[l[j]]}
Elements(t) == {t[i] : i \in DOMAIN t}

\* The index of p in a listing, and its index among the active rows, which is
\* what the turn and the winner's seat are counted by.
IndexIn(l, p) == CHOOSE i \in DOMAIN l : l[i] = p
SeatIn(l, p) == Cardinality({i \in 1..(IndexIn(l, p) - 1) : l[i] \in Active})

\* Stakes and gains of the players ps, by a win of w at the plain multiplier.
Settle(ps, w) ==
  LET gain(p) == Bet + Payment(p, w, Cardinality(ps), Bet)
      add(f, qs) == [p \in Players |-> f[p] + IF p \in qs THEN gain(p) ELSE 0]
  IN purse' = add(purse, ps) /\ credit' = add(credit, ps \cap Users \cap humans)
------------------------------------------------------------------------------
\* Cards and claims.

\* The checks of a card play.  The player list is not filtered: a kicked player
\* passes them too when its seat has the turn.
MayPlay(p) ==
  /\ game.status = "Active" /\ game.claim = Nobody
  /\ position[p] = game.rank
  /\ left[p] > 0

Completes == Len(trick) + 1 >= Cardinality(Active)

\* The move made, and the next one when q is a bot.
Scheduled(p, q) == (chain \ {p}) \union ({q} \ humans)

\* A card that leaves the round open.
PlayOn(p) ==
  LET next == NextSeat(position[p], Cardinality(Active))
  IN /\ MayPlay(p) /\ ~Completes
     /\ left' = [left EXCEPT ![p] = @ - 1]
     /\ trick' = Append(trick, p)
     /\ game' = [game EXCEPT !.rank = next, !.idle = Fresh]
     /\ \E l \in Listings, q \in Active :
          SeatIn(l, q) = next /\ chain' = Scheduled(p, q)
     /\ UNCHANGED <<seats, money, alerted, scan, crashes>>

\* The card that completes the round.  A card of a kicked player in the round
\* makes the evaluation fail, and the play with it.  The winner's seat is its
\* index among the active players.
PlayLast(p) ==
  LET played == Elements(trick) \union {p}
      ends == game.roll + 1 > CARDS_PER_PLAYER
  IN /\ MayPlay(p) /\ Completes
     /\ played \subseteq Active
     /\ left' = [left EXCEPT ![p] = @ - 1]
     /\ trick' = <<>>
     /\ \E w \in played, l \in Listings :
          /\ game' = [game EXCEPT !.rank = SeatIn(l, w), !.winner = w, !.roll = @ + 1,
                                  !.idle = Fresh,
                                  !.status = IF ends THEN "Finished" ELSE @]
          /\ IF ends THEN Settle(Active, w) /\ chain' = chain \ {p}
             ELSE chain' = Scheduled(p, w) /\ UNCHANGED money
     /\ UNCHANGED <<seats, alerted, scan, crashes>>

PlayCard(p) == PlayOn(p) \/ PlayLast(p)

\* A claim pays all players, and does not ask whether the claimant was kicked.  A bot
\* at the table rules it out.
Claim(p) ==
  /\ game.status = "Active" /\ game.claim = p /\ ~Solo
  /\ game' = [game EXCEPT !.status = "Finished", !.winner = p, !.claim = Nobody,
                          !.idle = Fresh]
  /\ Settle(Players, p)
  /\ UNCHANGED <<seats, cards, alerted, chain, scan, crashes>>

\* A decline leaves updated_at alone.
Decline(p) ==
  /\ game.claim = p
  /\ game' = [game EXCEPT !.claim = Nobody]
  /\ UNCHANGED <<seats, cards, money, alerted, chain, scan, crashes>>
------------------------------------------------------------------------------
\* Bots.

BotPlays(p) == p \in chain /\ PlayCard(p)

\* A chain gives up after its retries when the move is refused.
BotGivesUp(p) ==
  /\ p \in chain /\ ~MayPlay(p)
  /\ chain' = chain \ {p}
  /\ UNCHANGED <<game, seats, cards, money, alerted, scan, crashes>>

\* The backend dies and the chains, or the task being worked on, are lost.
Crash ==
  /\ crashes < MaxCrashes
  /\ chain' = {} /\ crashes' = crashes + 1
  /\ UNCHANGED <<game, seats, cards, money, alerted, scan>>

\* Mutant of StalledTurn: the seat after the one to play.
StalledTurnOff(l) == {l[i] : i \in {game.rank + 2} \cap 1..N}

\* The row at index game.rank of the whole player list.
StalledTurn(l) == {l[i] : i \in {game.rank + 1} \cap 1..N}

\* No scan does anything where that row is a kicked player's.
Unattended == \E l \in Listings : StalledTurn(l) \cap kicked # {}

\* detect_and_recover_stalled_games starts the chain of a bot again.
RecoverBot ==
  /\ game.status = "Active" /\ game.idle >= BotStale
  /\ \E l \in Listings :
       \E p \in StalledTurn(l) \ humans : chain' = chain \union {p}
  /\ UNCHANGED <<game, seats, cards, money, alerted, scan, crashes>>

\* Time passes.
Age ==
  /\ game.status = "Active" /\ game.idle < KickStale
  /\ game' = [game EXCEPT !.idle = @ + 1]
  /\ UNCHANGED <<seats, cards, money, alerted, chain, scan, crashes>>
------------------------------------------------------------------------------
\* The scan of the humans (check_human_staleness).

FindStalled ==
  /\ scan.pc = "rest"
  /\ game.status = "Active" /\ game.idle >= AlertStale
  /\ scan' = [Rest EXCEPT !.pc = "players", !.row = game]
  /\ UNCHANGED <<game, seats, cards, money, alerted, chain, crashes>>

\* Mutant of Verdict: the warning is not looked at, nobody is ever kicked.
VerdictWarns(row) == "warn"

\* What the scan does about the current player of the row it has read.
Verdict(row) ==
  IF ~row.warned THEN "warn" ELSE IF row.idle = KickStale THEN "kick" ELSE "rest"

\* The current player is looked up in the list of all player rows.
ReadPlayers ==
  /\ scan.pc = "players"
  /\ \E l \in Listings :
       LET i == scan.row.rank + 1
           p == l[i]
       IN scan' = IF i \in 1..N /\ p \in humans /\ p \notin kicked
                  THEN [scan EXCEPT !.pc = Verdict(scan.row), !.list = l,
                                    !.seat = position, !.purse = purse, !.target = p]
                  ELSE Rest
  /\ UNCHANGED <<game, seats, cards, money, alerted, chain, crashes>>

\* The event and the mail, then the mark on the game row, whatever it has become.
Warn ==
  /\ scan.pc = "warn"
  /\ alerted' = alerted \union {scan.target}
  /\ game' = [game EXCEPT !.warned = TRUE]
  /\ scan' = Rest
  /\ UNCHANGED <<seats, cards, money, chain, crashes>>

\* kick_player_from_game reads the game row again and asks for its status only.
BeginKick ==
  /\ scan.pc = "kick"
  /\ IF game.status # "Active" \/ Cardinality(kicked) >= MaxKicks
     THEN scan' = Rest
     ELSE scan' = [scan EXCEPT !.pc = "write", !.row = game]
  /\ UNCHANGED <<game, seats, cards, money, alerted, chain, crashes>>

\* Mutant of Remaining: the rows that are not marked kicked; the one being kicked
\* was read before it was marked.
RemainingByFlag == scan.list

\* The rows of the listing but the player's own.  Players kicked before stay in it.
Remaining ==
  [i \in 1..(N - 1) |->
     IF i < IndexIn(scan.list, scan.target) THEN scan.list[i] ELSE scan.list[i + 1]]

\* What every kick writes last, without any condition on the game row.
Kicked(g) ==
  /\ kicked' = kicked \union {scan.target} /\ UNCHANGED humans
  /\ game' = [g EXCEPT !.warned = FALSE, !.idle = Fresh]
  /\ scan' = Rest
  /\ UNCHANGED <<cards, credit, alerted, crashes>>

\* A solo game whose human is kicked is over and nobody wins.
KickFromSolo ==
  /\ Solo /\ Elements(Remaining) \cap humans = {}
  /\ Kicked([game EXCEPT !.status = "Finished", !.winner = Nobody])
  /\ UNCHANGED <<position, purse, chain>>

\* One player remains and wins.
KickToForfeit ==
  /\ ~(Solo /\ Elements(Remaining) \cap humans = {})
  /\ Len(Remaining) <= 1
  /\ LET w == Remaining[1]
     IN /\ Kicked([game EXCEPT !.status = "Finished", !.winner = w])
        /\ purse' = IF w \in Users \cap humans THEN [purse EXCEPT ![w] = scan.purse[w] + Bet]
                    ELSE purse
  /\ UNCHANGED <<position, chain>>

\* The turn once the players of rest have the seats from 0 on: it follows the
\* player whose turn it is, and goes to seat 0 when that is the player kicked.
RankAfter(rest) ==
  LET rank == scan.row.rank
      from == scan.seat[scan.target]
      same == {i \in DOMAIN rest : scan.seat[rest[i]] = rank}
  IN CASE same # {} -> (CHOOSE i \in same : \A j \in same : j <= i) - 1
       [] same = {} /\ rank = from -> 0
       [] OTHER -> IF rank > from THEN rank - 1 ELSE rank

\* The others take the seats from 0 on, in order, and a bot on turn is called.
KickAndReseat ==
  /\ ~(Solo /\ Elements(Remaining) \cap humans = {})
  /\ Len(Remaining) > 1
  /\ LET rest == Remaining
         rank == RankAfter(rest)
     IN /\ Kicked([game EXCEPT !.rank = rank])
        /\ position' = [p \in Players |->
                          IF p \in Elements(rest) THEN IndexIn(rest, p) - 1 ELSE position[p]]
        /\ chain' = chain \union ({rest[i] : i \in {rank + 1} \cap DOMAIN rest} \ humans)
  /\ UNCHANGED purse

Kick == scan.pc = "write" /\ (KickFromSolo \/ KickToForfeit \/ KickAndReseat)

\* The task of the scan times out, or its process dies: what it was doing is
\* rolled back.
ScanCut ==
  /\ scan.pc # "rest" /\ crashes < MaxCrashes
  /\ scan' = Rest /\ crashes' = crashes + 1
  /\ UNCHANGED <<game, seats, cards, money, alerted, chain>>
------------------------------------------------------------------------------
HumanActs(p) == p \in humans /\ (PlayCard(p) \/ Claim(p) \/ Decline(p))
BotActs(p) == BotPlays(p) \/ BotGivesUp(p)
ScanStep == FindStalled \/ ReadPlayers \/ Warn \/ BeginKick \/ Kick

Next ==
  \/ \E p \in Players : HumanActs(p) \/ BotActs(p)
  \/ RecoverBot \/ ScanStep \/ Age \/ Crash \/ ScanCut

Spec == Init /\ [][Next]_vars

\* Time passes, the scheduler runs its tasks again and again, a chain makes its
\* move.  Nothing is assumed of the humans.
FairSpec ==
  /\ Spec
  /\ WF_vars(Age) /\ WF_vars(ScanStep) /\ WF_vars(RecoverBot)
  /\ \A p \in Players : WF_vars(BotActs(p))
------------------------------------------------------------------------------
\* Properties.

Row == [status : Status, rank : Players, roll : 1..(CARDS_PER_PLAYER + 1),
        winner : Players \union {Nobody}, claim : Players \union {Nobody},
        warned : BOOLEAN, idle : Fresh..KickStale]

Scan == [pc : {"rest", "players", "warn", "kick", "write"}, row : Row,
         list : Seq(Players), seat : [Players -> Players],
         purse : [Players -> Int], target : Players]

TypeOK ==
  /\ game \in Row
  /\ position \in [Players -> Players]
  /\ kicked \subseteq Players /\ humans \subseteq Players
  /\ left \in [Players -> 0..CARDS_PER_PLAYER]
  /\ trick \in Seq(Players)
  /\ purse \in [Players -> Int] /\ credit \in [Players -> Int]
  /\ alerted \subseteq humans
  /\ chain \subseteq Players \ humans
  /\ scan \in Scan
  /\ crashes \in Nat

\* However the seats were renumbered, the turn is at somebody's seat and never at two
\* active players'.  Until a second kick it is exactly one's; then the seat of the turn
\* may be that of the player kicked before.
Holders == {p \in Active : position[p] = game.rank}
TurnHasOneHolder ==
  game.status = "Active" =>
    /\ \E p \in Players : position[p] = game.rank
    /\ Cardinality(Holders) <= 1
    /\ Cardinality(kicked) <= 1 => Cardinality(Holders) = 1

\* "You have lost your bet" (stall_kicked.hbs): a kicked player is paid by nothing but
\* the claim that was offered to it and is still pending, which looks at no kick.
KickedNeverPaid ==
  [][\A p \in kicked :
       (purse'[p] > purse[p] \/ credit'[p] > credit[p]) => game.claim = p]_vars

\* "0 or 1 player remains: game ends, remaining player wins" (lifecycle.rs).
LastPlayerWins == Cardinality(Active) <= 1 => game.status # "Active"

\* "a human whose game updated_at is older than (...) gets a StalenessWarning":
\* a player is kicked only after it was warned (DESIGN.md).
WarnedFirst == [][kicked' \ kicked \subseteq alerted]_vars

\* The result of a finished game stands.
ResultStands ==
  [][game.status # "Active" =>
       game'.status = game.status /\ game'.winner = game.winner]_vars
==============================================================================
