--------------------------------- MODULE Runs ---------------------------------
(***************************************************************************)
(* Creating, joining and leaving a run: its players pay for all its games  *)
(* in advance, and get back what is left when they leave.                  *)
(***************************************************************************)
EXTENDS Rooms

KORA_CREDIT_MULTIPLIER == 2
TotalCost == NumGames

MayPay(u) == credit[u] >= TotalCost * KORA_CREDIT_MULTIPLIER
Players(r) == {u \in Users : row[r][u] # NoRow}

\* UPDATE ... SET credit = credit - cost WHERE credit >= cost.
Debited(who) == [u \in Users |-> credit[u] - (IF u \in who THEN TotalCost ELSE 0)]

\* Mutant of UniqueActive: the index on the room of the active runs is missing.
UniqueActiveNot == TRUE

\* uq_room_active_run.
UniqueActive == \A r \in Runs : ~IsActive(r)

\* The names are counted, 2 to RoomMax, before a name that is there twice is dropped.
CreateRun(q, u, who) ==
  /\ room.open /\ u \in Members /\ who \subseteq Members
  /\ \A r \in Runs : ~IsActive(r)
  /\ Cardinality(who) \in 1..RoomMax
  /\ \A p \in who : MayPay(p)
  /\ Begins(q, u, 0, "creating", 0, who) /\ UNCHANGED <<room, runsState, cuts>>

\* Rows that hold the cost of every game.
Provisioned(who, old) == [u \in Users |-> IF u \in who THEN TotalCost ELSE old[u]]

\* The transaction inserts the run and a row for each player it could debit, or
\* nothing.
CreateRunEnd(q) ==
  /\ At(q, "creating")
  /\ \/ \E r \in Runs :
          /\ \A s \in Runs : (run[s] = NoRun) <=> s >= r
          /\ room.open /\ UniqueActive /\ \A u \in req[q].who : credit[u] >= TotalCost
          /\ run' = [run EXCEPT ![r].status = "active"]
          /\ row' = [row EXCEPT ![r] = Provisioned(req[q].who, @)]
          /\ credit' = Debited(req[q].who)
     \/ /\ ~room.open \/ ~UniqueActive \/ \E u \in req[q].who : credit[u] < TotalCost
        /\ UNCHANGED <<run, row, credit>>
  /\ Answered(q) /\ UNCHANGED <<room, game, staked, strayed, lock, ended, scan, cuts>>

JoinRun(q, u, r) ==
  /\ IsActive(r) /\ u \in Members /\ u \notin Players(r)
  /\ Cardinality(Players(r)) < RoomMax
  /\ MayPay(u)
  /\ Begins(q, u, r, "entering", 0, {}) /\ UNCHANGED <<room, runsState, cuts>>

\* The whole cost is due, however many games have been played; the run and the
\* number of its players are not looked at again.
JoinRunEnd(q) ==
  LET u == req[q].user  r == req[q].run
      paid == credit[u] >= TotalCost /\ u \notin Players(r) /\ run[r].status # "gone" IN
  /\ At(q, "entering")
  /\ row' = [row EXCEPT ![r] = IF paid THEN Provisioned({u}, @) ELSE @]
  /\ credit' = IF paid THEN Debited({u}) ELSE credit
  /\ Answered(q) /\ UNCHANGED <<room, run, game, staked, strayed, lock, ended, scan, cuts>>

\* leave_run is refused to a player of the game in progress; the row it has read
\* says what will be given back.
LeaveRun(q, u, r) ==
  LET last == run[r].index - 1 IN
  /\ u \in Players(r)
  /\ ~(last >= 0 /\ game[r][last].state = "active" /\ u \in game[r][last].in \ game[r][last].kicked)
  /\ Begins(q, u, r, "refunding", row[r][u], {}) /\ UNCHANGED <<room, runsState, cuts>>

Refunded(q) == req[q].saw

\* The row is deleted, if it is still there, and the credit given back all the same.
Refund(q) ==
  LET u == req[q].user  r == req[q].run
      held == IF row[r][u] = NoRow THEN 0 ELSE row[r][u] IN
  /\ At(q, "refunding")
  /\ row' = [row EXCEPT ![r][u] = NoRow]
  /\ credit' = [credit EXCEPT ![u] = @ + Refunded(q)]
  /\ strayed' = [strayed EXCEPT ![u] = @ + held - Refunded(q)]
  /\ GoesOn(q, "counting") /\ UNCHANGED <<room, run, game, staked, lock, ended, scan, cuts>>

\* It counts who is left, and then cancels the run, whatever it has become.
CountLeft(q) ==
  /\ At(q, "counting")
  /\ GoesOn(q, IF Cardinality(Players(req[q].run)) < 2 THEN "closing" ELSE "done")
  /\ UNCHANGED <<room, runsState, cuts>>

CancelRun(r) ==
  run' = IF run[r].status = "gone" THEN run ELSE [run EXCEPT ![r].status = "cancelled", ![r].age = 0]

CloseRun(q) ==
  /\ At(q, "closing") /\ CancelRun(req[q].run) /\ Answered(q)
  /\ UNCHANGED <<room, row, game, credit, staked, strayed, lock, ended, scan, cuts>>

RunRequest(q) ==
  \/ \E u \in Users :
       \/ \E who \in SUBSET Users : CreateRun(q, u, who)
       \/ \E r \in Runs : JoinRun(q, u, r) \/ LeaveRun(q, u, r)
  \/ CreateRunEnd(q) \/ JoinRunEnd(q) \/ Refund(q) \/ CountLeft(q) \/ CloseRun(q)
==============================================================================
