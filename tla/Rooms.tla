-------------------------------- MODULE Rooms --------------------------------
(***************************************************************************)
(* A room and its members (RoomService), and the state that the modules    *)
(* Runs and NextGame share with it.  A request is a few reads followed by   *)
(* writes, each of which other requests may come between.                  *)
(***************************************************************************)
EXTENDS Integers, FiniteSets, SequencesExt

CONSTANTS
  Users,    \* the users who know the room
  Requests, \* bound: the requests made
  Runs,     \* bound: the runs created, one after the other or at once
  NumGames, \* num_games of a run
  RoomMax,  \* room_max_players
  MaxCuts   \* bound: requests and tasks cut short

ASSUME RunsAssumption ==
  /\ NumGames \in Nat \ {0} /\ RoomMax \in Nat /\ MaxCuts \in Nat
  /\ Runs \subseteq Nat /\ IsFiniteSet(Users) /\ IsFiniteSet(Runs)
  /\ \E first \in Runs : \A r \in Runs : first <= r

VARIABLES
  room,    \* rooms and room_members: open, creator, the members as they joined
  run,     \* game_runs; age counts the timeouts since updated_at, as far as 2
  row,     \* game_run_players: what is provisioned for a user, or NoRow
  game,    \* game_run_games and games: the state of each, and who plays it
  credit,  \* the profiles, in bets
  staked,  \* the bets that games have taken from provisions
  strayed, \* what refunds took or gave beside the rows they deleted
  lock,    \* start_game_lock:{run}
  ended,   \* the games whose players are still to be told that they have ended
  scan,    \* what the scan for stalled runs is about to do to each run
  req,     \* the requests
  cuts     \* how often something was cut short

Nobody == "nobody"
NoRow == -1
NoRun == [status |-> "none", index |-> 0, warned |-> FALSE, age |-> 0]
NoGame == [state |-> "none", in |-> {}, kicked |-> {}]

runsState == <<run, row, game, credit, staked, strayed, lock, ended, scan>>

Members == ToSet(room.members)
IsActive(r) == run[r].status = "active"

\* A request of a user begins, reads what it needs and remembers what it will use.
Begins(q, u, r, step, saw, who) ==
  /\ req[q].at = "new"
  /\ req' = [req EXCEPT ![q] = [at |-> step, user |-> u, run |-> r, saw |-> saw, who |-> who]]
At(q, step) == req[q].at = step
GoesOn(q, step) == req' = [req EXCEPT ![q].at = step]
Answered(q) == GoesOn(q, "done")
\* A request dies between two of its steps, and a transaction is rolled back.
RequestCut(q) ==
  /\ req[q].at \notin {"new", "done"} /\ cuts < MaxCuts
  /\ cuts' = cuts + 1 /\ Answered(q) /\ UNCHANGED <<room, runsState>>

RoomStep(q, step) == GoesOn(q, step) /\ UNCHANGED <<runsState, cuts>>

\* create_room writes the room and then its first member.
CreateRoom(q, u) ==
  /\ room.creator = Nobody
  /\ room' = [open |-> TRUE, creator |-> u, members |-> <<>>]
  /\ Begins(q, u, 0, "founding", 0, {}) /\ UNCHANGED <<runsState, cuts>>

\* uq_room_members_room_user, and the foreign key to the room.
Enter(u) ==
  room' = IF room.open /\ u \notin Members THEN [room EXCEPT !.members = Append(@, u)] ELSE room

AddCreator(q) == At(q, "founding") /\ Enter(req[q].user) /\ RoomStep(q, "done")

JoinRoom(q, u) ==
  /\ room.open /\ u \notin Members /\ Len(room.members) < RoomMax
  /\ Begins(q, u, 0, "joining", 0, {}) /\ UNCHANGED <<room, runsState, cuts>>

JoinRoomEnd(q) == At(q, "joining") /\ Enter(req[q].user) /\ RoomStep(q, "done")

\* leave_room is refused to a player of the room's active run; it remembers
\* whether the user was the creator.
LeaveRoom(q, u) ==
  /\ room.open /\ u \in Members
  /\ \A r \in Runs : IsActive(r) => row[r][u] = NoRow
  /\ Begins(q, u, 0, "leaving", 0, {room.creator}) /\ UNCHANGED <<room, runsState, cuts>>

RemoveMember(q) ==
  /\ At(q, "leaving")
  /\ room' = [room EXCEPT !.members = SelectSeq(@, LAMBDA m : m # req[q].user)]
  /\ RoomStep(q, "left")

\* It reads who remains, and acts on that.
LookWhoRemains(q) ==
  /\ At(q, "left")
  /\ \/ /\ room.members = <<>> /\ GoesOn(q, "deleting")
     \/ /\ room.members # <<>> /\ req[q].user \in req[q].who
        /\ req' = [req EXCEPT ![q].at = "naming", ![q].who = {Head(room.members)}]
     \/ /\ room.members # <<>> /\ req[q].user \notin req[q].who
        /\ Answered(q)
  /\ UNCHANGED <<room, runsState, cuts>>

NameCreator(q) ==
  /\ At(q, "naming")
  /\ \E u \in req[q].who : room' = IF room.open THEN [room EXCEPT !.creator = u] ELSE room
  /\ RoomStep(q, "done")

\* The bets that the rows of a user hold, one by one; NoRow holds none.
HeldBets(rows, u) == {b \in Runs \X (1..NumGames) : b[2] <= rows[b[1]][u]}
Held(rows, u) == Cardinality(HeldBets(rows, u))

\* The database deletes members, runs and provisions with the room (ON DELETE CASCADE).
DeleteRoom(q) ==
  /\ At(q, "deleting")
  /\ room' = [room EXCEPT !.open = FALSE, !.members = <<>>]
  /\ run' = [r \in Runs |-> IF run[r] = NoRun THEN NoRun ELSE [run[r] EXCEPT !.status = "gone"]]
  /\ row' = [r \in Runs |-> [u \in Users |-> NoRow]]
  /\ strayed' = [u \in Users |-> strayed[u] + Held(row, u)]
  /\ Answered(q) /\ UNCHANGED <<game, credit, staked, lock, ended, scan, cuts>>

RoomRequest(q) ==
  \/ \E u \in Users : CreateRoom(q, u) \/ JoinRoom(q, u) \/ LeaveRoom(q, u)
  \/ AddCreator(q) \/ JoinRoomEnd(q) \/ RemoveMember(q) \/ LookWhoRemains(q)
  \/ NameCreator(q) \/ DeleteRoom(q) \/ RequestCut(q)
==============================================================================
