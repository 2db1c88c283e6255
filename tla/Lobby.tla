-------------------------------- MODULE Lobby --------------------------------
(***************************************************************************)
(* The lobby of one multiplayer game: its creation, invitations, accepting  *)
(* and declining, the scan that cancels it when its time is over, and the   *)
(* start.  Every request is a READ COMMITTED transaction: what it reads is  *)
(* what was committed at each read, what it writes takes effect at its      *)
(* commit and is not conditional on what it read.  Accepts of one backend   *)
(* are serialized by a mutex in its memory; nothing else is.                *)
(*                                                                         *)
(* A profile is its credit.  Only one game is modelled, so that a profile  *)
(* has one writer at a time and is read and written in one step.            *)
(***************************************************************************)
EXTENDS CardRules

CONSTANTS
  Users,       \* the users with an account
  Creator,     \* the one who creates the game
  MaxPlayers,  \* the most seats a game may have
  Bet,         \* the stake
  Credits,     \* the credits a profile may start with
  Backends,    \* the processes that serve requests
  Nobody,      \* no user
  Starts,      \* the start requests that may be in flight at once
  MaxCuts      \* bound: transactions cut short by a timeout or a crash

ASSUME UsersAssumption ==
  /\ IsFiniteSet(Users) /\ Creator \in Users /\ Nobody \notin Users
  /\ IsFiniteSet(Backends) /\ Backends # {}
  /\ MaxPlayers \in Nat \ {0, 1}
ASSUME StakeAssumption == Bet \in Nat \ {0} /\ Credits \subseteq Int
ASSUME CutsAssumption == MaxCuts \in Nat

Positions == 0..(MaxPlayers - 1)

VARIABLES
  game,      \* the game row: status, max_players, players by position, past invite_expires_at
  seat,      \* user -> position in its player row, NoSeat without a row
  invite,    \* user -> status of its invitation
  credit,    \* user -> profile credit
  dealt,     \* how often cards were dealt
  inviting,  \* the creator's invitations are being written
  lock,      \* backend -> the user whose accept holds the game's mutex
  accept,    \* user -> its accept request
  decline,   \* the users whose decline is about to be written
  scan,      \* backend -> its scan of the expired games
  start,     \* the start requests that have found the game ready
  cuts,      \* how many transactions were cut short
  crossed    \* whether two backends ever had an accept in flight at once

rows == <<game, seat, invite, credit, dealt>>
requests == <<inviting, lock, accept, decline, scan, start, cuts, crossed>>
vars == <<rows, requests>>

NoRequest == [pc |-> "idle", backend |-> Nobody, taken |-> [p \in Positions |-> Nobody], at |-> 0]
NoScan == [pc |-> "idle", list |-> {}]

Init ==
  /\ game \in [status : {"None"}, seats : 2..MaxPlayers,
               taken : {[p \in Positions |-> Nobody]}, lapsed : {FALSE}]
  /\ seat = [u \in Users |-> NoSeat]
  /\ invite = [u \in Users |-> "None"]
  /\ credit \in [Users -> Credits]
  /\ dealt = 0
  /\ inviting = FALSE
  /\ lock = [b \in Backends |-> Nobody]
  /\ accept = [u \in Users |-> NoRequest]
  /\ decline = {}
  /\ scan = [b \in Backends |-> NoScan]
  /\ start = {}
  /\ cuts = 0 /\ crossed = FALSE

Seated == {u \in Users : seat[u] # NoSeat}

\* A stake of a game is asked for twice over, for it may be lost twice.
MayStake(u) == credit[u] >= 2 * Bet
------------------------------------------------------------------------------
\* Creation and invitations.

TakeStake(u) == credit' = [credit EXCEPT ![u] = @ - Bet]
\* The game row with its creator in the first seat.
NewGame == game' = [game EXCEPT !.status = "Pending", !.taken[0] = Creator]
\* A player row.
Sit(u, at) == seat' = [seat EXCEPT ![u] = at]

\* The stake, the game row and the creator's player row, in one transaction.
Create ==
  /\ game.status = "None" /\ MayStake(Creator)
  /\ TakeStake(Creator) /\ NewGame /\ Sit(Creator, 0)
  /\ UNCHANGED <<invite, dealt, requests>>

InviteBegin ==
  /\ game.status = "Pending" /\ inviting' = TRUE
  /\ UNCHANGED <<rows, lock, accept, decline, scan, start, cuts, crossed>>

WriteInvite(u, answer) == invite' = [invite EXCEPT ![u] = answer]

\* The names of an invitation are users, each once, and none of them is the
\* creator or a player of the game already.
MayInvite(u) == u # Creator /\ seat[u] = NoSeat

\* The game is not looked at again between the invitations.
Invite(u) ==
  /\ inviting
  /\ MayInvite(u) /\ invite[u] = "None"
  /\ WriteInvite(u, "Pending")
  /\ UNCHANGED <<game, seat, credit, dealt, requests>>

InviteEnd ==
  /\ inviting /\ inviting' = FALSE
  /\ UNCHANGED <<rows, lock, accept, decline, scan, start, cuts, crossed>>

\* The time for invitations is over.
Lapse ==
  /\ game.status = "Pending" /\ ~game.lapsed
  /\ game' = [game EXCEPT !.lapsed = TRUE]
  /\ UNCHANGED <<seat, invite, credit, dealt, requests>>
------------------------------------------------------------------------------
\* Accepting and declining.

\* Mutant of Free: no mutex.
FreeAlways(b) == TRUE

Free(b) == lock[b] = Nobody

\* Accepts of another backend are not kept out; crossed remembers that there were some.
Elsewhere(b) == \E v \in Users : accept[v].pc # "idle" /\ accept[v].backend # b

\* The request waits for the mutex, then reads the game row.
AcceptBegin(u, b) ==
  /\ accept[u].pc = "idle" /\ Free(b)
  /\ game.status = "Pending" /\ u # Creator
  /\ accept' = [accept EXCEPT ![u] = [pc |-> "seat", backend |-> b, taken |-> game.taken, at |-> 0]]
  /\ lock' = [lock EXCEPT ![b] = u]
  /\ crossed' = (crossed \/ Elsewhere(b))
  /\ UNCHANGED <<rows, inviting, decline, scan, start, cuts>>

\* The request is answered and the mutex is free again.
Answer(u) ==
  /\ accept' = [accept EXCEPT ![u] = NoRequest]
  /\ lock' = [lock EXCEPT ![accept[u].backend] = Nobody]

NextPosition == Cardinality(Seated)
HasRoom == Cardinality(Seated) < game.seats

\* The player rows and the invitation: the position is the number of rows.
AcceptSeat(u) ==
  /\ accept[u].pc = "seat"
  /\ IF seat[u] = NoSeat /\ invite[u] = "Pending" /\ HasRoom
     THEN /\ accept' = [accept EXCEPT ![u] = [@ EXCEPT !.pc = "write", !.at = NextPosition]]
          /\ UNCHANGED lock
     ELSE Answer(u)
  /\ UNCHANGED <<rows, inviting, decline, scan, start, cuts, crossed>>

\* Mutant of StatusWith: the player who joins is counted twice.
StatusWithOneMore(n) == IF n + 2 >= game.seats THEN "Ready" ELSE "Pending"

\* The status of the game once a player has joined n others.
StatusWith(n) == IF n + 1 >= game.seats THEN "Ready" ELSE "Pending"

\* The stake, the player row, the invitation and the game row, with the players
\* and the status that follow from what was read.
AcceptWrite(u) ==
  LET at == accept[u].at
  IN /\ accept[u].pc = "write"
     /\ IF MayStake(u) /\ seat[u] = NoSeat
        THEN /\ TakeStake(u) /\ Sit(u, at) /\ WriteInvite(u, "Accepted")
             /\ game' = [game EXCEPT !.taken = [accept[u].taken EXCEPT ![at] = u],
                                     !.status = StatusWith(at)]
        ELSE UNCHANGED <<game, seat, invite, credit>>
     /\ Answer(u)
     /\ UNCHANGED <<dealt, inviting, decline, scan, start, cuts, crossed>>

DeclineBegin(u) ==
  /\ u \notin decline /\ invite[u] = "Pending" /\ game.status = "Pending"
  /\ decline' = decline \union {u}
  /\ UNCHANGED <<rows, inviting, lock, accept, scan, start, cuts, crossed>>

DeclineWrite(u) ==
  /\ u \in decline
  /\ decline' = decline \ {u}
  /\ WriteInvite(u, "Declined")
  /\ UNCHANGED <<game, seat, credit, dealt, inviting, lock, accept, scan, start, cuts, crossed>>
------------------------------------------------------------------------------
\* The scan of the expired games, of every backend.

\* Mutant of Expired: games that somebody has joined are left alone.
ExpiredAlone == game.status = "Pending" /\ game.lapsed /\ Cardinality(Seated) = 1

Expired == game.status = "Pending" /\ game.lapsed

ScanBegin(b) ==
  /\ scan[b].pc = "idle" /\ Expired
  /\ scan' = [scan EXCEPT ![b].pc = "list"]
  /\ UNCHANGED <<rows, inviting, lock, accept, decline, start, cuts, crossed>>

ScanList(b) ==
  /\ scan[b].pc = "list"
  /\ scan' = [scan EXCEPT ![b] = [pc |-> "write", list |-> Seated]]
  /\ UNCHANGED <<rows, inviting, lock, accept, decline, start, cuts, crossed>>

\* The stakes of the players listed go back and the game is cancelled, whatever
\* it has become; the invitations that nobody answered are declined.
ScanWrite(b) ==
  /\ scan[b].pc = "write"
  /\ credit' = [u \in Users |-> credit[u] + IF u \in scan[b].list THEN Bet ELSE 0]
  /\ game' = [game EXCEPT !.status = "Cancelled"]
  /\ invite' = [u \in Users |-> IF invite[u] = "Pending" THEN "Declined" ELSE invite[u]]
  /\ scan' = [scan EXCEPT ![b] = NoScan]
  /\ UNCHANGED <<seat, dealt, inviting, lock, accept, decline, start, cuts, crossed>>

ScanStep(b) == ScanBegin(b) \/ ScanList(b) \/ ScanWrite(b)
------------------------------------------------------------------------------
\* The start.

StartBegin(r) ==
  /\ r \notin start /\ game.status = "Ready"
  /\ start' = start \union {r}
  /\ UNCHANGED <<rows, inviting, lock, accept, decline, scan, cuts, crossed>>

MarkStarted == game' = [game EXCEPT !.status = "Active"]

\* The cards are dealt to the players and the game is active, whatever it has
\* become; a number of players that is out of range is an error.
StartWrite(r) ==
  /\ r \in start
  /\ start' = start \ {r}
  /\ IF Cardinality(Seated) \in 2..game.seats
     THEN dealt' = dealt + 1 /\ MarkStarted
     ELSE UNCHANGED <<game, dealt>>
  /\ UNCHANGED <<seat, invite, credit, inviting, lock, accept, decline, scan, cuts, crossed>>
------------------------------------------------------------------------------
\* A timeout, a lost connection, a backend that dies: the transaction is rolled
\* back and a mutex is free again.
AcceptCut(u) ==
  /\ accept[u].pc # "idle" /\ cuts < MaxCuts
  /\ Answer(u)
  /\ cuts' = cuts + 1
  /\ UNCHANGED <<rows, inviting, decline, scan, start, crossed>>

ScanCut(b) ==
  /\ scan[b].pc # "idle" /\ cuts < MaxCuts
  /\ scan' = [scan EXCEPT ![b] = NoScan]
  /\ cuts' = cuts + 1
  /\ UNCHANGED <<rows, inviting, lock, accept, decline, start, crossed>>

\* What the creator and the invited ask for.
SendInvites == InviteBegin \/ (\E u \in Users : Invite(u)) \/ InviteEnd
RespondToInvite(u) == DeclineBegin(u) \/ \E b \in Backends : AcceptBegin(u, b)
StartGame(r) == StartBegin(r) \/ StartWrite(r)

Next ==
  \/ Create \/ SendInvites \/ Lapse
  \/ \E u \in Users :
       RespondToInvite(u) \/ AcceptSeat(u) \/ AcceptWrite(u) \/ AcceptCut(u) \/ DeclineWrite(u)
  \/ \E b \in Backends : ScanStep(b) \/ ScanCut(b)
  \/ \E r \in Starts : StartGame(r)

Spec == Init /\ [][Next]_vars

\* Time passes and every backend runs its scan again and again.  Nothing is
\* assumed of the users, nor of a request in flight.
FairSpec == Spec /\ WF_vars(Lapse) /\ \A b \in Backends : WF_vars(ScanStep(b))
------------------------------------------------------------------------------
\* Properties.

Taken == [Positions -> Users \union {Nobody}]

TypeOK ==
  /\ game \in [status : {"None", "Pending", "Ready", "Active", "Cancelled"},
               seats : 2..MaxPlayers, taken : Taken, lapsed : BOOLEAN]
  /\ seat \in [Users -> Positions \union {NoSeat}]
  /\ invite \in [Users -> {"None", "Pending", "Accepted", "Declined"}]
  /\ credit \in [Users -> Int]
  /\ dealt \in Nat
  /\ inviting \in BOOLEAN
  /\ lock \in [Backends -> Users \union {Nobody}]
  /\ accept \in [Users -> [pc : {"idle", "seat", "write"}, backend : Backends \union {Nobody},
                           taken : Taken, at : Positions]]
  /\ decline \subseteq Users
  /\ scan \in [Backends -> [pc : {"idle", "list", "write"}, list : SUBSET Users]]
  /\ start \subseteq Starts
  /\ cuts \in Nat /\ crossed \in BOOLEAN

\* "Acquire a per-game mutex to serialize concurrent accept_invite calls"
\* (invites.rs): players take the seats in order and one each, and the player map of the
\* game row names them all, as long as no two backends have had an accept in flight at
\* once, for the mutex is in the memory of one.  After that the map still names nobody
\* but at the seat of its player row.
SeatsInOrder ==
  /\ \A u \in Users, p \in Positions : game.taken[p] = u => seat[u] = p
  /\ ~crossed =>
       /\ {seat[u] : u \in Seated} = 0..(Cardinality(Seated) - 1)
       /\ \A u \in Users, p \in Positions : seat[u] = p => game.taken[p] = u

\* Cards are dealt only when every seat is taken; at most one player too many has a
\* seat for each further backend, for each may have let one in before the last commit.
StartedFull ==
  /\ dealt > 0 => Cardinality(Seated) >= game.seats
  /\ Cardinality(Seated) < game.seats + Cardinality(Backends)

\* "Cancels multiplayer pending games whose invite_expires_at has passed"
\* (DESIGN.md): no game waits for its players for ever, though an accept may
\* write "pending" over a cancellation.
PendingEnds == game.status = "Pending" ~> game.status # "Pending"

\* "... refunds bets" (DESIGN.md): a player of a cancelled game has its stake
\* back.
StakesReturned ==
  [][game.status # "Cancelled" /\ game'.status = "Cancelled" =>
       \A u \in Seated : credit'[u] = credit[u] + Bet]_vars
==============================================================================
