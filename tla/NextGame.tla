------------------------------- MODULE NextGame -------------------------------
(***************************************************************************)
(* The games of a run: start_next_game under its lock in Redis, the end of *)
(* a game and of the run, and the scheduler's scan for stalled runs.       *)
(***************************************************************************)
EXTENDS Runs

Free == "free"
LastGame(r) == game[r][run[r].index - 1]

\* SET NX EX: a request that finds the lock held only waits for the game of
\* another, and changes nothing.
StartNextGame(q, u, r) ==
  /\ run[r] # NoRun /\ lock[r] = Free
  /\ lock' = [lock EXCEPT ![r] = q]
  /\ Begins(q, u, r, "locked", 0, {})
  /\ UNCHANGED <<room, run, row, game, credit, staked, strayed, ended, scan, cuts>>

\* The key lapses after START_GAME_LOCK_TTL_SECS, done or not.
LockExpires(r) ==
  /\ lock[r] # Free /\ lock' = [lock EXCEPT ![r] = Free]
  /\ UNCHANGED <<room, run, row, game, credit, staked, strayed, ended, scan, req, cuts>>

\* Mutant of MayStart: the previous game is not looked at.
MayStartEarly(u, r) ==
  IsActive(r) /\ run[r].index < NumGames /\ u \in Players(r) /\ Cardinality(Players(r)) >= 2

MayStart(u, r) ==
  /\ IsActive(r) /\ run[r].index < NumGames
  /\ u \in Players(r)
  /\ run[r].index > 0 => LastGame(r).state = "finished"
  /\ Cardinality(Players(r)) >= 2

\* The index and the players to be, with their rows and their profiles.
Planned(q, r) ==
  req' = [req EXCEPT ![q].at = "planned", ![q].saw = run[r].index, ![q].who = Players(r)]

\* What is read before the transaction.
PlanGame(q) ==
  LET r == req[q].run IN
  /\ At(q, "locked")
  /\ \/ MayStart(req[q].user, r) /\ Planned(q, r)
     \/ ~MayStart(req[q].user, r) /\ GoesOn(q, "releasing")
  /\ UNCHANGED <<room, runsState, cuts>>

\* Mutant of FreeIndex: the index on run and game_index is missing.
FreeIndexNot(r, k) == run[r].status # "gone"

\* uq_game_run_games_run_index, and the foreign key to the run.
FreeIndex(r, k) == run[r].status # "gone" /\ game[r][k].state = "none"

\* Mutant of Deducts: a bet is counted though nothing was left to take it from.
DeductsAlways(r, u) == TRUE

\* ... WHERE provisioned_credits >= bet; how many rows it changed is not looked at.
Deducts(r, u) == row[r][u] >= 1

\* The row of a game of the run, active from the start, with its players.
WithPlayers(who) == [state |-> "active", in |-> who, kicked |-> {}]
CreateGame(r, k, who) == game' = [game EXCEPT ![r][k] = WithPlayers(who)]
TakeBets(r, paying) ==
  /\ row' = [row EXCEPT ![r] = [u \in Users |-> @[u] - (IF u \in paying THEN 1 ELSE 0)]]
  /\ staked' = [u \in Users |-> staked[u] + (IF u \in paying THEN 1 ELSE 0)]
\* The time of the run starts anew.
Advance(r, index) == run' = [run EXCEPT ![r].index = index, ![r].age = 0]

\* The transaction creates the game for the players it has read, and takes the bet
\* of those it can.
StartGame(q) ==
  LET r == req[q].run  k == req[q].saw  who == req[q].who IN
  /\ At(q, "planned")
  /\ \/ /\ FreeIndex(r, k)
        /\ CreateGame(r, k, who) /\ TakeBets(r, {u \in who : Deducts(r, u)})
        /\ Advance(r, k + 1)
     \/ ~FreeIndex(r, k) /\ UNCHANGED <<game, row, staked, run>>
  /\ GoesOn(q, "releasing") /\ UNCHANGED <<room, credit, strayed, lock, ended, scan, cuts>>

\* compare_and_delete: only the lock that is still its own.
Release(q) ==
  LET r == req[q].run IN
  /\ At(q, "releasing")
  /\ lock' = [lock EXCEPT ![r] = IF @ = q THEN Free ELSE @]
  /\ Answered(q) /\ UNCHANGED <<room, run, row, game, credit, staked, strayed, ended, scan, cuts>>

Ends(r, k) == game' = [game EXCEPT ![r][k] = [state |-> "finished", in |-> {}, kicked |-> {}]]

\* The last card is played; the players are told later, from another task.
GamePlayed(r, k) ==
  /\ game[r][k].state = "active"
  /\ Ends(r, k)
  /\ ended' = ended \union {<<r, k>>}
  /\ UNCHANGED <<room, run, row, credit, staked, strayed, lock, scan, req, cuts>>

\* A player is kicked.  When one other remains the game ends, and the run is not
\* told; the others kicked before are counted as remaining.
PlayerKicked(r, k, u) ==
  /\ game[r][k].state = "active" /\ u \in game[r][k].in \ game[r][k].kicked
  /\ IF Cardinality(game[r][k].in) <= 2 THEN Ends(r, k)
     ELSE game' = [game EXCEPT ![r][k].kicked = @ \union {u}]
  /\ UNCHANGED <<room, run, row, credit, staked, strayed, lock, ended, scan, req, cuts>>

\* finalize_run_on_game_completion looks at the index of the run, not at its games.
FinalizeRun(r, k) ==
  /\ <<r, k>> \in ended
  /\ ended' = ended \ {<<r, k>>}
  /\ run' = IF run[r].index >= NumGames /\ IsActive(r)
            THEN [run EXCEPT ![r].status = "completed"] ELSE run
  /\ UNCHANGED <<room, row, game, credit, staked, strayed, lock, scan, req, cuts>>

\* Time passes over an active run.
GrowOld(r) ==
  /\ IsActive(r) /\ run[r].age < 2
  /\ run' = [run EXCEPT ![r].age = @ + 1]
  /\ UNCHANGED <<room, row, game, credit, staked, strayed, lock, ended, scan, req, cuts>>

\* Mutant of Verdict: a run that was warned is left alone, however old.
VerdictWarned(r) ==
  IF run[r].warned THEN "nothing" ELSE IF run[r].age = 2 THEN "cancel" ELSE "warn"

Verdict(r) ==
  IF run[r].age = 2 THEN "cancel" ELSE IF run[r].warned THEN "nothing" ELSE "warn"

\* A run has stalled when its last game is finished and the next not created.
Stalled(r) == IsActive(r) /\ run[r].index \in 1..(NumGames - 1) /\ LastGame(r).state = "finished"

\* check_stalled_runs reads the runs and their last games at first ...
ScanRuns ==
  /\ \A r \in Runs : scan[r] = "nothing"
  /\ \E r \in Runs : Stalled(r) /\ run[r].age >= 1 /\ Verdict(r) # "nothing"
  /\ scan' = [r \in Runs |-> IF Stalled(r) /\ run[r].age >= 1 THEN Verdict(r) ELSE "nothing"]
  /\ UNCHANGED <<room, run, row, game, credit, staked, strayed, lock, ended, req, cuts>>

\* ... and then cancels or warns, whatever the run has become; a warning starts the
\* time anew.
ActOnRun(r) ==
  /\ \/ scan[r] = "cancel" /\ CancelRun(r)
     \/ /\ scan[r] = "warn"
        /\ run' = IF run[r].status = "gone" THEN run
                  ELSE [run EXCEPT ![r].warned = TRUE, ![r].age = 0]
  /\ scan' = [scan EXCEPT ![r] = "nothing"]
  /\ UNCHANGED <<room, row, game, credit, staked, strayed, lock, ended, req, cuts>>

\* The scan times out after 30 s.
ScanCut ==
  /\ \E r \in Runs : scan[r] # "nothing"
  /\ cuts < MaxCuts /\ cuts' = cuts + 1
  /\ scan' = [r \in Runs |-> "nothing"]
  /\ UNCHANGED <<room, run, row, game, credit, staked, strayed, lock, ended, req>>

GameRequest(q) ==
  \/ \E u \in Users, r \in Runs : StartNextGame(q, u, r)
  \/ PlanGame(q) \/ StartGame(q) \/ Release(q)

GameTask(r) ==
  \/ LockExpires(r) \/ GrowOld(r) \/ ActOnRun(r)
  \/ \E k \in 0..(NumGames - 1) :
       GamePlayed(r, k) \/ FinalizeRun(r, k) \/ \E u \in Users : PlayerKicked(r, k, u)
==============================================================================
