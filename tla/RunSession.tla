------------------------------ MODULE RunSession ------------------------------
(***************************************************************************)
(* Everything that happens to one room and its runs: the requests of the   *)
(* members, the games and the scheduler.                                   *)
(***************************************************************************)
EXTENDS NextGame

vars == <<room, run, row, game, credit, staked, strayed, lock, ended, scan, req, cuts>>

CONSTANT Setups \* bound: how far the room and its first run have come at first

\* The members, the players of the first run (none: there is no run) and the games
\* already played.
ASSUME SetupsAssumption ==
  \A s \in Setups : s.players \subseteq ToSet(s.members) /\ s.played \in 0..NumGames

FirstRun(s, r) == s.players # {} /\ \A other \in Runs : r <= other

InitRun(s, r) ==
  IF FirstRun(s, r)
  THEN [status |-> "active", index |-> s.played, warned |-> FALSE, age |-> 0]
  ELSE NoRun
InitRow(s, r, u) ==
  IF FirstRun(s, r) /\ u \in s.players THEN NumGames - s.played ELSE NoRow
InitGame(s, r, k) ==
  IF FirstRun(s, r) /\ k < s.played THEN [state |-> "finished", in |-> {}, kicked |-> {}] ELSE NoGame

StartCredit == KORA_CREDIT_MULTIPLIER * TotalCost

Init ==
  /\ \E s \in Setups :
       /\ room = [open |-> s.members # <<>>, members |-> s.members,
                  creator |-> IF s.members = <<>> THEN Nobody ELSE Head(s.members)]
       /\ run = [r \in Runs |-> InitRun(s, r)]
       /\ row = [r \in Runs |-> [u \in Users |-> InitRow(s, r, u)]]
       /\ game = [r \in Runs |-> [k \in 0..(NumGames - 1) |-> InitGame(s, r, k)]]
       /\ credit = [u \in Users |-> StartCredit - (IF u \in s.players THEN TotalCost ELSE 0)]
       /\ staked = [u \in Users |-> IF u \in s.players THEN s.played ELSE 0]
  /\ strayed = [u \in Users |-> 0]
  /\ lock = [r \in Runs |-> Free]
  /\ ended = {}
  /\ scan = [r \in Runs |-> "nothing"]
  /\ req = [q \in Requests |-> [at |-> "new", user |-> Nobody, run |-> 0, saw |-> 0, who |-> {}]]
  /\ cuts = 0

Next ==
  \/ \E q \in Requests : RoomRequest(q) \/ RunRequest(q) \/ GameRequest(q)
  \/ \E r \in Runs : GameTask(r)
  \/ ScanRuns \/ ScanCut

Spec == Init /\ [][Next]_vars

\* Time passes, and the scheduler runs its scan again and again.
FairSpec ==
  /\ Spec
  /\ WF_vars(ScanRuns)
  /\ \A r \in Runs : WF_vars(GrowOld(r)) /\ WF_vars(ActOnRun(r))

Games == 0..(NumGames - 1)

TypeOK ==
  /\ room \in [open : BOOLEAN, creator : Users \union {Nobody}, members : Seq(Users)]
  /\ run \in [Runs -> [status : {"none", "active", "completed", "cancelled", "gone"},
                       index : 0..NumGames, warned : BOOLEAN, age : 0..2]]
  /\ row \in [Runs -> [Users -> {NoRow} \union 0..TotalCost]]
  /\ game \in [Runs -> [Games -> [state : {"none", "active", "finished"},
                               in : SUBSET Users, kicked : SUBSET Users]]]
  /\ credit \in [Users -> Int] /\ staked \in [Users -> Nat] /\ strayed \in [Users -> Int]
  /\ lock \in [Runs -> Requests \union {Free}]
  /\ ended \subseteq Runs \X Games
  /\ scan \in [Runs -> {"nothing", "warn", "cancel"}]
  /\ \A q \in Requests : req[q].who \subseteq Users \union {Nobody} /\ req[q].saw \in Int
  /\ cuts \in 0..MaxCuts

\* A room has one active run at a time, though two requests may both find it has none.
OneActiveRun == Cardinality({r \in Runs : IsActive(r)}) <= 1

\* The games of a run are created in order, each after the end of the one before,
\* and nobody bets twice on one of them, though the lock on the start of a game may
\* expire while it is created and two requests may both find it not created.
OneGameAtATime ==
  \A r \in Runs, k \in Games :
    /\ k < run[r].index <=> game[r][k].state # "none"
    /\ k + 1 < run[r].index => game[r][k].state = "finished"
GamesCreated == {c \in Runs \X Games : game[c[1]][c[2]].state # "none"}
BetOnce == \A u \in Users : staked[u] <= Cardinality(GamesCreated)
GamesInOrder == OneGameAtATime /\ BetOnce

\* What a user has paid for runs is provisioned, was bet, or strayed.
Accounted ==
  \A u \in Users : credit[u] + Held(row, u) + staked[u] + strayed[u] = StartCredit

\* Credit strays only where a request to leave has overlapped another step, or with
\* the room.
StraysOnlyInRaces ==
  [][\A u \in Users : strayed'[u] # strayed[u] =>
       \/ ~room'.open
       \/ \E q \in Requests : At(q, "refunding") /\ req[q].user = u
                              /\ row[req[q].run][u] # req[q].saw]_vars

\* A run that waits for its next game is cancelled by the scheduler if nobody starts
\* it: the warning sets updated_at, but only once.
StalledRunEnds == \A r \in Runs : Stalled(r) ~> ~Stalled(r)

\* "Run completes when all games are done." (docs/DESIGN.md:834)
CompletedWhenDone ==
  \A r \in Runs : run[r].status = "completed" => \A k \in Games : game[r][k].state = "finished"
==============================================================================
