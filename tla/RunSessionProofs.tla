--------------------------- MODULE RunSessionProofs ---------------------------
(***************************************************************************)
(* Theorems about RunSession for every number of users, requests, runs and  *)
(* games of a run.                                                          *)
(***************************************************************************)
EXTENDS RunSession, FiniteSetTheorems, TLAPS

USE RunsAssumption
------------------------------------------------------------------------------
\* The invariant.

Statuses == {"none", "active", "completed", "cancelled", "gone"}
RunRows == [status : Statuses, index : 0..NumGames, warned : BOOLEAN, age : 0..2]
GameRows ==
  [state : {"none", "active", "finished"}, in : SUBSET Users, kicked : SUBSET Users]
RunsTyped == run \in [Runs -> RunRows]
GamesTyped == game \in [Runs -> [Games -> GameRows]]

UniqueRun == \A r, s \in Runs : IsActive(r) /\ IsActive(s) => r = s

\* A request is a record of its five fields, whatever they hold ...
Shaped(x) ==
  x = [at |-> x.at, user |-> x.user, run |-> x.run, saw |-> x.saw, who |-> x.who]
RequestsShaped ==
  req = [q \in Requests |-> req[q]] /\ \A q \in Requests : Shaped(req[q])

\* ... and one that is about to create a game has read the index of its run, which has
\* not gone back since, when the game before had ended.
Sound(q) ==
  LET r == req[q].run  k == req[q].saw IN
  /\ At(q, "locked") \/ At(q, "planned") => r \in Runs
  /\ At(q, "planned") =>
       /\ k \in Games /\ req[q].who \subseteq Users
       /\ k <= run[r].index
       /\ k > 0 => game[r][k - 1].state = "finished"
PlansSound == \A q \in Requests : Sound(q)

Inv ==
  RunsTyped /\ GamesTyped /\ UniqueRun /\ RequestsShaped /\ PlansSound /\ OneGameAtATime

LEMMA RowTypes ==
  ASSUME NEW f \in [Runs -> RunRows], NEW r \in Runs
  PROVE  f[r].index \in Nat /\ f[r].index \in 0..NumGames /\ f[r].index >= f[r].index
<1>1. f[r] \in RunRows
  OBVIOUS
<1>2. f[r].index \in 0..NumGames
  BY <1>1 DEF RunRows
<1>3. QED
  BY <1>2
------------------------------------------------------------------------------
\* Steps of one request, and steps that take runs and games no way back.

\* Request q goes on, and what it plans is sound.
StepsOn(q) ==
  /\ req' = [p \in Requests |-> IF p = q THEN req'[q] ELSE req[p]]
  /\ Shaped(req'[q]) /\ Sound(q)'

LEMMA StepsOnTo ==
  ASSUME RequestsShaped, NEW q \in Requests, NEW step, GoesOn(q, step),
         step \notin {"locked", "planned"}
  PROVE  StepsOn(q)
<1>1. req = [p \in Requests |-> req[p]] /\ Shaped(req[q])
  BY DEF RequestsShaped
<1>2. req'[q] = [req[q] EXCEPT !.at = step]
  BY <1>1 DEF GoesOn
<1>3. req'[q] = [at |-> step, user |-> req[q].user, run |-> req[q].run, saw |-> req[q].saw,
                 who |-> req[q].who]
  BY <1>1, <1>2 DEF Shaped
<1>4. req' = [p \in Requests |-> IF p = q THEN req'[q] ELSE req[p]]
  BY <1>1 DEF GoesOn
<1>5. Shaped(req'[q]) /\ req'[q].at = step
  BY <1>3 DEF Shaped
<1>6. Sound(q)'
  BY <1>5 DEF Sound, At
<1>7. QED
  BY <1>4, <1>5, <1>6 DEF StepsOn

LEMMA BeginsAt ==
  ASSUME RequestsShaped, NEW q \in Requests, NEW u, NEW r, NEW step, NEW saw, NEW who,
         Begins(q, u, r, step, saw, who), step \notin {"locked", "planned"}
  PROVE  StepsOn(q)
<1>1. req = [p \in Requests |-> req[p]]
  BY DEF RequestsShaped
<1>2. req'[q] = [at |-> step, user |-> u, run |-> r, saw |-> saw, who |-> who]
  BY <1>1 DEF Begins
<1>3. req' = [p \in Requests |-> IF p = q THEN req'[q] ELSE req[p]]
  BY <1>1 DEF Begins
<1>4. Shaped(req'[q]) /\ req'[q].at = step
  BY <1>2 DEF Shaped
<1>5. Sound(q)'
  BY <1>4 DEF Sound, At
<1>6. QED
  BY <1>3, <1>4, <1>5 DEF StepsOn

\* No index goes back and no finished game is played again.
Onward ==
  /\ \A r \in Runs : run'[r].index >= run[r].index
  /\ \A r \in Runs, k \in Games :
       game[r][k].state = "finished" => game'[r][k].state = "finished"

LEMMA PlansKept ==
  ASSUME Inv, Onward, RunsTyped', UNCHANGED req \/ \E q \in Requests : StepsOn(q)
  PROVE  RequestsShaped' /\ PlansSound'
<1>1. ASSUME NEW p \in Requests, req'[p] = req[p]
      PROVE  Sound(p)'
  <2>1. Sound(p)
    BY DEF Inv, PlansSound
  <2>2. At(p, "planned") => req[p].run \in Runs /\ req[p].saw \in Games
    BY <2>1 DEF Sound
  <2>3. At(p, "planned") =>
          run[req[p].run].index \in Nat /\ run'[req[p].run].index \in Nat
            /\ run'[req[p].run].index >= run[req[p].run].index
    BY <2>2, RowTypes DEF Inv, RunsTyped, Onward
  <2>4. ASSUME At(p, "planned")
        PROVE  /\ req[p].saw <= run'[req[p].run].index
               /\ req[p].saw > 0 => game'[req[p].run][req[p].saw - 1].state = "finished"
    <3>1. req[p].saw <= run[req[p].run].index
      BY <2>1, <2>4 DEF Sound
    <3>2. req[p].saw \in Int
      BY <2>2, <2>4 DEF Games
    <3>3. req[p].saw > 0 => req[p].saw - 1 \in Games
      BY <2>2, <2>4 DEF Games
    <3>4. req[p].saw > 0 => game[req[p].run][req[p].saw - 1].state = "finished"
      BY <2>1, <2>4 DEF Sound
    <3>5. req[p].saw <= run'[req[p].run].index
      BY <2>3, <2>4, <3>1, <3>2
    <3>6. QED
      BY <2>2, <2>4, <3>3, <3>4, <3>5 DEF Onward
  <2>5. QED
    BY <1>1, <2>1, <2>4 DEF Sound, At
<1>2. CASE UNCHANGED req
  BY <1>1, <1>2 DEF Inv, PlansSound, RequestsShaped
<1>3. ASSUME NEW q \in Requests, StepsOn(q)
      PROVE  RequestsShaped' /\ PlansSound'
  <2>1. \A p \in Requests : p # q => req'[p] = req[p]
    BY <1>3 DEF StepsOn
  <2>2. Sound(q)'
    BY <1>3 DEF StepsOn, Sound, At
  <2>3. PlansSound'
    BY <1>1, <2>1, <2>2 DEF PlansSound
  <2>4. req' = [p \in Requests |-> req'[p]]
    BY <1>3 DEF StepsOn
  <2>5. \A p \in Requests : Shaped(req'[p])
    BY <1>3, <2>1 DEF StepsOn, Inv, RequestsShaped
  <2>6. QED
    BY <2>3, <2>4, <2>5 DEF RequestsShaped
<1>4. QED
  BY <1>2, <1>3

\* A step that touches neither runs nor games.
LEMMA Aside ==
  ASSUME Inv, UNCHANGED <<run, game>>, UNCHANGED req \/ \E q \in Requests : StepsOn(q)
  PROVE  Inv'
<1>1. RunsTyped' /\ GamesTyped' /\ UniqueRun' /\ OneGameAtATime'
  BY DEF Inv, RunsTyped, GamesTyped, UniqueRun, OneGameAtATime, IsActive
<1>2. Onward
  BY RowTypes DEF Onward, Inv, RunsTyped
<1>3. QED
  BY <1>1, <1>2, PlansKept DEF Inv

\* A step that changes the status or the age of runs and makes none active.
Settles ==
  /\ run' \in [Runs -> RunRows]
  /\ \A r \in Runs :
       run'[r].index = run[r].index /\ (run'[r].status = "active" => IsActive(r))

LEMMA Settling ==
  ASSUME Inv, Settles, UNCHANGED game, UNCHANGED req \/ \E q \in Requests : StepsOn(q)
  PROVE  Inv'
<1>1. RunsTyped' /\ GamesTyped'
  BY DEF Inv, RunsTyped, GamesTyped, Settles
<1>2. UniqueRun'
  BY DEF Inv, UniqueRun, Settles, IsActive
<1>3. OneGameAtATime'
  BY DEF Inv, OneGameAtATime, Settles
<1>4. Onward
  BY RowTypes DEF Onward, Settles, Inv, RunsTyped
<1>5. QED
  BY <1>1, <1>2, <1>3, <1>4, PlansKept DEF Inv
------------------------------------------------------------------------------
\* The initial state.

LEMMA InitInv == Init => Inv
<1> SUFFICES ASSUME Init PROVE Inv
  OBVIOUS
<1>1. PICK s \in Setups :
        /\ run = [r \in Runs |-> InitRun(s, r)]
        /\ game = [r \in Runs |-> [k \in 0..(NumGames - 1) |-> InitGame(s, r, k)]]
  BY DEF Init
<1>2. s.played \in 0..NumGames
  BY SetupsAssumption
<1>3. RunsTyped
  <2>1. ASSUME NEW r \in Runs PROVE InitRun(s, r) \in RunRows
    <3>1. NoRun \in RunRows
      BY DEF NoRun, RunRows, Statuses
    <3>2. [status |-> "active", index |-> s.played, warned |-> FALSE, age |-> 0] \in RunRows
      BY <1>2 DEF RunRows, Statuses
    <3>3. QED
      BY <3>1, <3>2 DEF InitRun
  <2>2. QED
    BY <1>1, <2>1 DEF RunsTyped
<1>4. GamesTyped
  <2>1. ASSUME NEW r \in Runs, NEW k \in Games PROVE InitGame(s, r, k) \in GameRows
    BY DEF InitGame, NoGame, GameRows
  <2>2. QED
    BY <1>1, <2>1 DEF GamesTyped, Games
<1>5. UniqueRun
  <2>1. \A r \in Runs : IsActive(r) => FirstRun(s, r)
    BY <1>1 DEF IsActive, InitRun, NoRun
  <2>2. QED
    BY <2>1 DEF UniqueRun, FirstRun
<1>6. OneGameAtATime
  <2>1. ASSUME NEW r \in Runs, NEW k \in Games
        PROVE  /\ k < run[r].index <=> game[r][k].state # "none"
               /\ k + 1 < run[r].index => game[r][k].state = "finished"
    <3>1. game[r][k] = InitGame(s, r, k) /\ run[r] = InitRun(s, r)
      BY <1>1 DEF Games
    <3>2. CASE FirstRun(s, r)
      BY <1>2, <3>1, <3>2 DEF InitGame, InitRun, NoRun, NoGame, Games
    <3>3. CASE ~FirstRun(s, r)
      BY <3>1, <3>3 DEF InitGame, InitRun, NoRun, NoGame, Games
    <3>4. QED
      BY <3>2, <3>3
  <2>2. QED
    BY <2>1 DEF OneGameAtATime
<1>7. RequestsShaped /\ PlansSound
  <2>1. \A q \in Requests :
          req[q] = [at |-> "new", user |-> Nobody, run |-> 0, saw |-> 0, who |-> {}]
    BY DEF Init
  <2>2. req = [q \in Requests |-> req[q]]
    BY DEF Init
  <2>3. QED
    BY <2>1, <2>2 DEF RequestsShaped, Shaped, PlansSound, Sound, At
<1>8. QED
  BY <1>3, <1>4, <1>5, <1>6, <1>7 DEF Inv
------------------------------------------------------------------------------
\* The requests about the room.

LEMMA RoomRequestInv ==
  ASSUME Inv, NEW q \in Requests, RoomRequest(q)
  PROVE  Inv'
<1> USE DEF Inv
<1>1. ASSUME NEW u \in Users, CreateRoom(q, u) \/ JoinRoom(q, u) \/ LeaveRoom(q, u)
      PROVE  Inv'
  <2>1. StepsOn(q)
    BY <1>1, BeginsAt DEF CreateRoom, JoinRoom, LeaveRoom
  <2>2. UNCHANGED <<run, game>>
    BY <1>1 DEF CreateRoom, JoinRoom, LeaveRoom, runsState
  <2>3. QED
    BY <2>1, <2>2, Aside
<1>2. CASE AddCreator(q) \/ JoinRoomEnd(q) \/ RemoveMember(q) \/ NameCreator(q)
  <2>1. StepsOn(q)
    BY <1>2, StepsOnTo DEF AddCreator, JoinRoomEnd, RemoveMember, NameCreator, RoomStep
  <2>2. UNCHANGED <<run, game>>
    BY <1>2 DEF AddCreator, JoinRoomEnd, RemoveMember, NameCreator, RoomStep, runsState
  <2>3. QED
    BY <2>1, <2>2, Aside
<1>3. CASE LookWhoRemains(q)
  <2>1. UNCHANGED <<run, game>>
    BY <1>3 DEF LookWhoRemains, runsState
  <2>2. CASE GoesOn(q, "deleting") \/ Answered(q)
    BY <2>1, <2>2, Aside, StepsOnTo DEF Answered
  <2>3. CASE req' = [req EXCEPT ![q].at = "naming", ![q].who = {Head(room.members)}]
    <3>1. req = [p \in Requests |-> req[p]] /\ Shaped(req[q])
      BY DEF RequestsShaped
    <3>2. req'[q] = [at |-> "naming", user |-> req[q].user, run |-> req[q].run,
                     saw |-> req[q].saw, who |-> {Head(room.members)}]
      BY <2>3, <3>1 DEF Shaped
    <3>3. req' = [p \in Requests |-> IF p = q THEN req'[q] ELSE req[p]]
      BY <2>3, <3>1
    <3>4. Shaped(req'[q]) /\ req'[q].at = "naming"
      BY <3>2 DEF Shaped
    <3>5. Sound(q)'
      BY <3>4 DEF Sound, At
    <3>6. StepsOn(q)
      BY <3>3, <3>4, <3>5 DEF StepsOn
    <3>7. QED
      BY <2>1, <3>6, Aside
  <2>4. QED
    BY <1>3, <2>2, <2>3 DEF LookWhoRemains
<1>4. CASE DeleteRoom(q)
  <2>1. StepsOn(q) /\ UNCHANGED game
    BY <1>4, StepsOnTo DEF DeleteRoom, Answered
  <2>2. ASSUME NEW r \in Runs
        PROVE  run'[r] \in RunRows /\ run'[r].index = run[r].index
                 /\ run'[r].status # "active"
    <3>1. run'[r] = IF run[r] = NoRun THEN NoRun ELSE [run[r] EXCEPT !.status = "gone"]
      BY <1>4 DEF DeleteRoom
    <3>2. NoRun \in RunRows /\ NoRun.status # "active"
      BY DEF NoRun, RunRows, Statuses
    <3>3. run[r] \in RunRows
      BY DEF RunsTyped
    <3>4. [run[r] EXCEPT !.status = "gone"] \in RunRows
      BY <3>3 DEF RunRows, Statuses
    <3>5. [run[r] EXCEPT !.status = "gone"].index = run[r].index
      BY <3>3 DEF RunRows
    <3>6. [run[r] EXCEPT !.status = "gone"].status = "gone"
      BY <3>3 DEF RunRows
    <3>7. QED
      BY <3>1, <3>2, <3>4, <3>5, <3>6
  <2>3. run' = [r \in Runs |-> run'[r]]
    BY <1>4 DEF DeleteRoom
  <2>4. Settles
    BY <2>2, <2>3 DEF Settles
  <2>5. QED
    BY <2>1, <2>4, Settling
<1>5. CASE RequestCut(q)
  BY <1>5, Aside, StepsOnTo DEF RequestCut, Answered, runsState
<1>6. QED
  BY <1>1, <1>2, <1>3, <1>4, <1>5 DEF RoomRequest
------------------------------------------------------------------------------
\* The requests about the runs.

LEMMA Cancelling ==
  ASSUME RunsTyped, NEW r, CancelRun(r)
  PROVE  Settles
<1>1. CASE UNCHANGED run
  BY <1>1, RowTypes DEF Settles, RunsTyped, IsActive
<1>2. CASE run' = [run EXCEPT ![r].status = "cancelled", ![r].age = 0]
  <2>1. ASSUME NEW s \in Runs
        PROVE  run'[s] \in RunRows /\ run'[s].index = run[s].index
                 /\ (run'[s].status = "active" => IsActive(s))
    <3>1. run[s] \in RunRows
      BY DEF RunsTyped
    <3>2. CASE s # r
      BY <1>2, <3>1, <3>2 DEF RunsTyped, IsActive
    <3>3. CASE s = r
      <4>1. run'[s] = [status |-> "cancelled", index |-> run[s].index,
                       warned |-> run[s].warned, age |-> 0]
        BY <1>2, <3>1, <3>3 DEF RunsTyped, RunRows
      <4>2. QED
        BY <3>1, <4>1 DEF RunRows, Statuses
    <3>4. QED
      BY <3>2, <3>3
  <2>2. run' = [s \in Runs |-> run'[s]]
    BY <1>2 DEF RunsTyped
  <2>3. QED
    BY <2>1, <2>2 DEF Settles
<1>3. QED
  BY <1>1, <1>2 DEF CancelRun

\* uq_room_active_run: a run becomes active when none is.
LEMMA RunCreated ==
  ASSUME Inv, NEW q \in Requests, CreateRunEnd(q)
  PROVE  Inv'
<1>1. StepsOn(q) /\ UNCHANGED game
  BY StepsOnTo DEF CreateRunEnd, Answered, Inv
<1>2. CASE UNCHANGED run
  BY <1>1, <1>2, Aside
<1>3. ASSUME NEW r \in Runs, UniqueActive, run' = [run EXCEPT ![r].status = "active"]
      PROVE  Inv'
  <2>1. ASSUME NEW s \in Runs
        PROVE  /\ run'[s] \in RunRows /\ run'[s].index = run[s].index
               /\ run'[s].index >= run[s].index
               /\ run'[s].status = "active" => s = r
    <3>1. run[s] \in RunRows /\ run[s].status # "active"
      BY <1>3 DEF Inv, RunsTyped, UniqueActive, IsActive
    <3>2. run[s].index >= run[s].index
      BY RowTypes DEF Inv, RunsTyped
    <3>3. CASE s # r
      BY <1>3, <3>1, <3>2, <3>3 DEF Inv, RunsTyped
    <3>4. CASE s = r
      <4>1. run'[s] = [status |-> "active", index |-> run[s].index,
                       warned |-> run[s].warned, age |-> run[s].age]
        BY <1>3, <3>1, <3>4 DEF Inv, RunsTyped, RunRows
      <4>2. QED
        BY <3>1, <3>2, <3>4, <4>1 DEF RunRows, Statuses
    <3>5. QED
      BY <3>3, <3>4
  <2>2. run' = [s \in Runs |-> run'[s]]
    BY <1>3 DEF Inv, RunsTyped
  <2>3. RunsTyped' /\ UniqueRun'
    BY <2>1, <2>2 DEF RunsTyped, UniqueRun, IsActive
  <2>4. GamesTyped' /\ OneGameAtATime'
    BY <1>1, <2>1 DEF Inv, GamesTyped, OneGameAtATime
  <2>5. Onward
    BY <1>1, <2>1 DEF Onward
  <2>6. QED
    BY <1>1, <2>3, <2>4, <2>5, PlansKept DEF Inv
<1>4. QED
  BY <1>2, <1>3 DEF CreateRunEnd

LEMMA RunRequestInv ==
  ASSUME Inv, NEW q \in Requests, RunRequest(q)
  PROVE  Inv'
<1> USE DEF Inv
<1>1. ASSUME NEW u \in Users, NEW who, CreateRun(q, u, who)
      PROVE  Inv'
  <2>1. StepsOn(q)
    BY <1>1, BeginsAt DEF CreateRun
  <2>2. QED
    BY <1>1, <2>1, Aside DEF CreateRun, runsState
<1>2. ASSUME NEW u \in Users, NEW r \in Runs, JoinRun(q, u, r) \/ LeaveRun(q, u, r)
      PROVE  Inv'
  <2>1. StepsOn(q)
    BY <1>2, BeginsAt DEF JoinRun, LeaveRun
  <2>2. UNCHANGED <<run, game>>
    BY <1>2 DEF JoinRun, LeaveRun, runsState
  <2>3. QED
    BY <2>1, <2>2, Aside
<1>3. CASE CreateRunEnd(q)
  BY <1>3, RunCreated
<1>4. CASE JoinRunEnd(q)
  BY <1>4, StepsOnTo, Aside DEF JoinRunEnd, Answered
<1>5. CASE Refund(q)
  BY <1>5, StepsOnTo, Aside DEF Refund
<1>6. CASE CountLeft(q)
  <2>1. StepsOn(q)
    BY <1>6, StepsOnTo DEF CountLeft
  <2>2. QED
    BY <1>6, <2>1, Aside DEF CountLeft, runsState
<1>7. CASE CloseRun(q)
  <2>1. StepsOn(q) /\ UNCHANGED game
    BY <1>7, StepsOnTo DEF CloseRun, Answered
  <2>2. Settles
    BY <1>7, Cancelling DEF CloseRun
  <2>3. QED
    BY <2>1, <2>2, Settling
<1>8. QED
  BY <1>1, <1>2, <1>3, <1>4, <1>5, <1>6, <1>7 DEF RunRequest
------------------------------------------------------------------------------
\* The start of the next game of a run.

LEMMA StartNextGameInv ==
  ASSUME Inv, NEW q \in Requests, NEW u \in Users, NEW r \in Runs, StartNextGame(q, u, r)
  PROVE  Inv'
<1>1. req = [p \in Requests |-> req[p]]
  BY DEF Inv, RequestsShaped
<1>2. req'[q] = [at |-> "locked", user |-> u, run |-> r, saw |-> 0, who |-> {}]
  BY <1>1 DEF StartNextGame, Begins
<1>3. req' = [p \in Requests |-> IF p = q THEN req'[q] ELSE req[p]]
  BY <1>1 DEF StartNextGame, Begins
<1>4. Shaped(req'[q]) /\ req'[q].at = "locked" /\ req'[q].run = r
  BY <1>2 DEF Shaped
<1>5. Sound(q)'
  BY <1>4 DEF Sound, At
<1>6. StepsOn(q)
  BY <1>3, <1>4, <1>5 DEF StepsOn
<1>7. QED
  BY <1>6, Aside DEF StartNextGame

LEMMA PlanGameInv ==
  ASSUME Inv, NEW q \in Requests, PlanGame(q)
  PROVE  Inv'
<1> DEFINE r == req[q].run
<1>1. UNCHANGED <<run, game>>
  BY DEF PlanGame, runsState
<1>2. CASE GoesOn(q, "releasing")
  BY <1>1, <1>2, StepsOnTo, Aside DEF Inv
<1>3. CASE MayStart(req[q].user, r) /\ Planned(q, r)
  <2>1. r \in Runs
    BY DEF PlanGame, Inv, PlansSound, Sound
  <2>2. run[r].index \in Nat
    BY <2>1, RowTypes DEF Inv, RunsTyped
  <2>3. run[r].index \in Games
    BY <1>3, <2>2, RunsAssumption DEF MayStart, Games
  <2>4. run[r].index > 0 => game[r][run[r].index - 1].state = "finished"
    BY <1>3 DEF MayStart, LastGame
  <2>5. req = [p \in Requests |-> req[p]] /\ Shaped(req[q])
    BY DEF Inv, RequestsShaped
  <2>6. req'[q] = [at |-> "planned", user |-> req[q].user, run |-> r,
                   saw |-> run[r].index, who |-> Players(r)]
    BY <1>3, <2>5 DEF Planned, Shaped
  <2>7. req' = [p \in Requests |-> IF p = q THEN req'[q] ELSE req[p]]
    BY <1>3, <2>5 DEF Planned
  <2>8. /\ Shaped(req'[q])
        /\ req'[q].at = "planned" /\ req'[q].run = r
        /\ req'[q].saw = run[r].index /\ req'[q].who = Players(r)
    BY <2>6 DEF Shaped
  <2>9. Players(r) \subseteq Users
    BY DEF Players
  <2>10. run[r].index <= run'[r].index
    BY <1>1, <2>2
  <2>11. Sound(q)'
    BY <1>1, <2>1, <2>3, <2>4, <2>8, <2>9, <2>10 DEF Sound, At
  <2>12. StepsOn(q)
    BY <2>7, <2>8, <2>11 DEF StepsOn
  <2>13. QED
    BY <1>1, <2>12, Aside
<1>4. QED
  BY <1>2, <1>3 DEF PlanGame

\* uq_game_run_games_run_index: a game that is created is the next of its run.
LEMMA StartGameInv ==
  ASSUME Inv, NEW q \in Requests, StartGame(q)
  PROVE  Inv'
<1> DEFINE r == req[q].run  k == req[q].saw  who == req[q].who
<1>1. StepsOn(q)
  BY StepsOnTo DEF StartGame, Inv
<1>2. CASE UNCHANGED <<run, game>>
  BY <1>1, <1>2, Aside
<1>3. CASE FreeIndex(r, k) /\ CreateGame(r, k, who) /\ Advance(r, k + 1)
  <2>1. /\ r \in Runs /\ k \in Games /\ who \subseteq Users /\ k <= run[r].index
        /\ k > 0 => game[r][k - 1].state = "finished"
    BY DEF StartGame, Inv, PlansSound, Sound
  <2>2. run[r].index \in 0..NumGames /\ k \in 0..(NumGames - 1) /\ k \in Nat
    BY <2>1, RowTypes DEF Inv, RunsTyped, Games
  <2>3. ~(k < run[r].index)
    BY <1>3, <2>1 DEF FreeIndex, Inv, OneGameAtATime
  <2>4. run[r].index = k
    BY <2>1, <2>2, <2>3
  <2>5. run[r] \in RunRows
    BY <2>1 DEF Inv, RunsTyped
  <2>6. run'[r] = [status |-> run[r].status, index |-> k + 1, warned |-> run[r].warned,
                   age |-> 0]
    BY <1>3, <2>1, <2>5 DEF Advance, Inv, RunsTyped, RunRows
  <2>7. run'[r] \in RunRows /\ run'[r].index = k + 1 /\ run'[r].status = run[r].status
    BY <2>2, <2>5, <2>6 DEF RunRows
  <2>8. \A s \in Runs : s # r => run'[s] = run[s]
    BY <1>3 DEF Advance, Inv, RunsTyped
  <2>9. run' = [s \in Runs |-> run'[s]]
    BY <1>3 DEF Advance, Inv, RunsTyped
  <2>10. RunsTyped'
    BY <2>7, <2>8, <2>9 DEF Inv, RunsTyped
  <2>11. UniqueRun'
    BY <2>7, <2>8 DEF Inv, UniqueRun, IsActive
  <2>12. game' = [s \in Runs |-> IF s = r THEN [game[s] EXCEPT ![k] = WithPlayers(who)]
                                 ELSE game[s]]
    BY <1>3 DEF CreateGame, Inv, GamesTyped
  <2>13. WithPlayers(who) \in GameRows /\ WithPlayers(who).state = "active"
    BY <2>1 DEF WithPlayers, GameRows
  <2>14. ASSUME NEW s \in Runs
         PROVE  /\ game'[s] \in [Games -> GameRows]
                /\ \A i \in Games :
                     game'[s][i] = IF s = r /\ i = k THEN WithPlayers(who) ELSE game[s][i]
    <3>1. game[s] \in [Games -> GameRows]
      BY DEF Inv, GamesTyped
    <3>2. QED
      BY <2>12, <2>13, <3>1
  <2>15. GamesTyped'
    BY <2>12, <2>14 DEF GamesTyped
  <2>16. ASSUME NEW s \in Runs, NEW i \in Games
         PROVE  /\ i < run'[s].index <=> game'[s][i].state # "none"
                /\ i + 1 < run'[s].index => game'[s][i].state = "finished"
                /\ game[s][i].state = "finished" => game'[s][i].state = "finished"
    <3>1. /\ i < run[s].index <=> game[s][i].state # "none"
          /\ i + 1 < run[s].index => game[s][i].state = "finished"
      BY DEF Inv, OneGameAtATime
    <3>2. CASE s # r
      BY <2>8, <2>14, <3>1, <3>2
    <3>3. CASE s = r /\ i = k
      <4>1. game'[s][i].state = "active" /\ game[s][i].state = "none"
        BY <1>3, <2>13, <2>14, <3>3 DEF FreeIndex
      <4>2. QED
        BY <2>2, <2>7, <3>3, <4>1
    <3>4. CASE s = r /\ i # k
      <4>1. game'[s][i] = game[s][i]
        BY <2>14, <3>4
      <4>2. i \in Int
        BY DEF Games
      <4>3. i + 1 < k + 1 => game[s][i].state = "finished"
        <5>1. CASE i + 1 < k
          BY <2>4, <3>1, <3>4, <5>1
        <5>2. CASE i = k - 1
          <6>1. k > 0
            BY <2>2, <5>2 DEF Games
          <6>2. QED
            BY <2>1, <3>4, <5>2, <6>1
        <5>3. QED
          BY <2>2, <4>2, <5>1, <5>2
      <4>4. i < k + 1 <=> game[s][i].state # "none"
        BY <2>2, <2>4, <3>1, <3>4, <4>2
      <4>5. QED
        BY <2>7, <3>4, <4>1, <4>3, <4>4
    <3>5. QED
      BY <3>2, <3>3, <3>4
  <2>17. OneGameAtATime'
    BY <2>16 DEF OneGameAtATime
  <2>18. \A s \in Runs : run'[s].index >= run[s].index
    <3>1. ASSUME NEW s \in Runs PROVE run'[s].index >= run[s].index
      <4>1. CASE s = r
        BY <2>2, <2>4, <2>7, <4>1
      <4>2. CASE s # r
        BY <2>8, <4>2, RowTypes DEF Inv, RunsTyped
      <4>3. QED
        BY <4>1, <4>2
    <3>2. QED
      BY <3>1
  <2>19. Onward
    BY <2>16, <2>18 DEF Onward
  <2>20. QED
    BY <1>1, <2>10, <2>11, <2>15, <2>17, <2>19, PlansKept DEF Inv
<1>4. QED
  BY <1>2, <1>3 DEF StartGame

LEMMA GameRequestInv ==
  ASSUME Inv, NEW q \in Requests, GameRequest(q)
  PROVE  Inv'
<1>1. CASE Release(q)
  BY <1>1, StepsOnTo, Aside DEF Release, Answered, Inv
<1>2. QED
  BY <1>1, StartNextGameInv, PlanGameInv, StartGameInv DEF GameRequest
------------------------------------------------------------------------------
\* What happens to the games and the runs by themselves.

\* A step that touches no run and may end one game that is being played.
LEMMA Playing ==
  ASSUME Inv, UNCHANGED <<run, req>>, NEW r \in Runs, NEW k \in Games,
         game[r][k].state = "active", NEW x \in GameRows, x.state # "none",
         game' = [game EXCEPT ![r][k] = x]
  PROVE  Inv'
<1>1. ASSUME NEW s \in Runs
      PROVE  /\ game'[s] \in [Games -> GameRows]
             /\ \A i \in Games : game'[s][i] = IF s = r /\ i = k THEN x ELSE game[s][i]
  <2>1. game[s] \in [Games -> GameRows]
    BY DEF Inv, GamesTyped
  <2>2. QED
    BY <2>1 DEF Inv, GamesTyped
<1>2. game' = [s \in Runs |-> game'[s]]
  BY DEF Inv, GamesTyped
<1>3. GamesTyped'
  BY <1>1, <1>2 DEF GamesTyped
<1>4. RunsTyped' /\ UniqueRun'
  BY DEF Inv, RunsTyped, UniqueRun, IsActive
<1>5. ASSUME NEW s \in Runs, NEW i \in Games
      PROVE  /\ game'[s][i].state # "none" <=> game[s][i].state # "none"
             /\ game[s][i].state = "finished" => game'[s][i].state = "finished"
  BY <1>1
<1>6. OneGameAtATime'
  BY <1>5 DEF Inv, OneGameAtATime
<1>7. Onward
  BY <1>5, RowTypes DEF Onward, Inv, RunsTyped
<1>8. QED
  BY <1>3, <1>4, <1>6, <1>7, PlansKept DEF Inv

LEMMA GameEndsInv ==
  ASSUME Inv, UNCHANGED <<run, req>>, NEW r \in Runs, NEW k \in Games,
         game[r][k].state = "active", Ends(r, k)
  PROVE  Inv'
<1>1. [state |-> "finished", in |-> {}, kicked |-> {}] \in GameRows
  BY DEF GameRows
<1>2. QED
  BY <1>1, Playing DEF Ends

LEMMA PlayerKickedInv ==
  ASSUME Inv, NEW r \in Runs, NEW k \in Games, NEW u \in Users, PlayerKicked(r, k, u)
  PROVE  Inv'
<1>1. UNCHANGED <<run, req>> /\ game[r][k].state = "active"
  BY DEF PlayerKicked
<1>2. CASE Ends(r, k)
  BY <1>1, <1>2, GameEndsInv
<1>3. CASE game' = [game EXCEPT ![r][k].kicked = @ \union {u}]
  <2>1. game[r] \in [Games -> GameRows] /\ game[r][k] \in GameRows
    BY DEF Inv, GamesTyped
  <2> DEFINE x == [state |-> "active", in |-> game[r][k].in,
                kicked |-> game[r][k].kicked \union {u}]
  <2>2. x \in GameRows
    BY <2>1 DEF GameRows
  <2>3. game[r][k] = [state |-> "active", in |-> game[r][k].in, kicked |-> game[r][k].kicked]
    BY <1>1, <2>1 DEF GameRows
  <2>4. [game[r][k] EXCEPT !.kicked = @ \union {u}] = x
    BY <2>3
  <2>5. game' = [game EXCEPT ![r][k] = [game[r][k] EXCEPT !.kicked = @ \union {u}]]
    BY <1>3, <2>1 DEF Inv, GamesTyped
  <2>6. QED
    BY <1>1, <2>2, <2>4, <2>5, Playing
<1>4. QED
  BY <1>2, <1>3 DEF PlayerKicked

LEMMA RunChanges ==
  ASSUME Inv, UNCHANGED <<game, req>>, NEW r \in Runs, NEW x \in RunRows,
         x.index = run[r].index, x.status = "active" => IsActive(r),
         run'[r] = x, run' = [s \in Runs |-> IF s = r THEN run'[r] ELSE run[s]]
  PROVE  Inv'
<1>1. ASSUME NEW s \in Runs
      PROVE  run'[s] \in RunRows /\ run'[s].index = run[s].index
               /\ (run'[s].status = "active" => IsActive(s))
  BY DEF Inv, RunsTyped, IsActive
<1>2. run' = [s \in Runs |-> run'[s]]
  BY DEF Inv, RunsTyped
<1>3. Settles
  BY <1>1, <1>2 DEF Settles
<1>4. QED
  BY <1>3, Settling

LEMMA GameTaskInv ==
  ASSUME Inv, NEW r \in Runs, GameTask(r)
  PROVE  Inv'
<1>1. run[r] \in RunRows
  BY DEF Inv, RunsTyped
<1>2. CASE LockExpires(r)
  BY <1>2, Aside DEF LockExpires
<1>3. CASE GrowOld(r)
  <2> DEFINE x == [status |-> run[r].status, index |-> run[r].index,
                   warned |-> run[r].warned, age |-> run[r].age + 1]
  <2>1. x \in RunRows
    BY <1>1, <1>3 DEF RunRows, GrowOld
  <2>2. run'[r] = x /\ run' = [s \in Runs |-> IF s = r THEN run'[r] ELSE run[s]]
    BY <1>1, <1>3 DEF Inv, RunsTyped, RunRows, GrowOld
  <2>3. QED
    BY <1>3, <2>1, <2>2, RunChanges DEF GrowOld, IsActive
<1>4. CASE ActOnRun(r)
  <2>1. UNCHANGED <<game, req>>
    BY <1>4 DEF ActOnRun
  <2>2. CASE CancelRun(r)
    BY <2>1, <2>2, Cancelling, Settling DEF Inv
  <2>3. CASE UNCHANGED run
    BY <2>1, <2>3, Aside
  <2>4. CASE run' = [run EXCEPT ![r].warned = TRUE, ![r].age = 0]
    <3> DEFINE x == [status |-> run[r].status, index |-> run[r].index,
                     warned |-> TRUE, age |-> 0]
    <3>1. x \in RunRows
      BY <1>1 DEF RunRows
    <3>2. run'[r] = x /\ run' = [s \in Runs |-> IF s = r THEN run'[r] ELSE run[s]]
      BY <1>1, <2>4 DEF Inv, RunsTyped, RunRows
    <3>3. QED
      BY <2>1, <3>1, <3>2, RunChanges DEF IsActive
  <2>5. QED
    BY <1>4, <2>2, <2>3, <2>4 DEF ActOnRun
<1>5. ASSUME NEW k \in Games, GamePlayed(r, k)
      PROVE  Inv'
  BY <1>5, GameEndsInv DEF GamePlayed
<1>6. ASSUME NEW k \in Games, FinalizeRun(r, k)
      PROVE  Inv'
  <2>1. UNCHANGED <<game, req>>
    BY <1>6 DEF FinalizeRun
  <2>2. CASE UNCHANGED run
    BY <2>1, <2>2, Aside
  <2>3. CASE run' = [run EXCEPT ![r].status = "completed"]
    <3> DEFINE x == [status |-> "completed", index |-> run[r].index,
                     warned |-> run[r].warned, age |-> run[r].age]
    <3>1. x \in RunRows
      BY <1>1 DEF RunRows, Statuses
    <3>2. run'[r] = x /\ run' = [s \in Runs |-> IF s = r THEN run'[r] ELSE run[s]]
      BY <1>1, <2>3 DEF Inv, RunsTyped, RunRows
    <3>3. QED
      BY <2>1, <3>1, <3>2, RunChanges
  <2>4. QED
    BY <1>6, <2>2, <2>3 DEF FinalizeRun
<1>7. ASSUME NEW k \in Games, NEW u \in Users, PlayerKicked(r, k, u)
      PROVE  Inv'
  BY <1>7, PlayerKickedInv
<1>8. QED
  BY <1>2, <1>3, <1>4, <1>5, <1>6, <1>7 DEF GameTask, Games
------------------------------------------------------------------------------
\* The theorems.

LEMMA NextInv == Inv /\ [Next]_vars => Inv'
<1> SUFFICES ASSUME Inv, [Next]_vars PROVE Inv'
  OBVIOUS
<1>1. ASSUME NEW q \in Requests, RoomRequest(q) \/ RunRequest(q) \/ GameRequest(q)
      PROVE  Inv'
  BY <1>1, RoomRequestInv, RunRequestInv, GameRequestInv
<1>2. ASSUME NEW r \in Runs, GameTask(r)
      PROVE  Inv'
  BY <1>2, GameTaskInv
<1>3. CASE ScanRuns \/ ScanCut
  BY <1>3, Aside DEF ScanRuns, ScanCut
<1>4. CASE UNCHANGED vars
  BY <1>4, Aside DEF vars
<1>5. QED
  BY <1>1, <1>2, <1>3, <1>4 DEF Next

\* Runs, games and requests keep their shape, one run of the room is active, and a request
\* that is about to create a game holds an index that its run has reached, the game before
\* it having ended (what create_game_for_run reads, and the indexes that judge its insert).
THEOREM RunInvariant == Spec => []Inv
BY InitInv, NextInv, PTL DEF Spec

LEMMA OneActive == Inv => OneActiveRun
<1> DEFINE active == {r \in Runs : IsActive(r)}
<1> SUFFICES ASSUME Inv PROVE Cardinality(active) <= 1
  BY DEF OneActiveRun
<1>1. CASE active = {}
  BY <1>1, FS_EmptySet
<1>2. ASSUME NEW r \in active
      PROVE  Cardinality(active) <= 1
  <2>1. active = {r}
    BY <1>2 DEF Inv, UniqueRun
  <2>2. Cardinality({r}) = 1
    BY FS_Singleton
  <2>3. QED
    BY <2>1, <2>2
<1>3. QED
  BY <1>1, <1>2

\* A room has one active run at a time, though two requests may both find that it
\* has none (uq_room_active_run).
THEOREM OneRunAtATime == Spec => []OneActiveRun
<1>1. Inv => OneActiveRun
  BY OneActive
<1>2. QED
  BY <1>1, RunInvariant, PTL

\* The games of a run are created one after the other, each after the end of the one
\* before, though the lock on the start of a game may expire while it is created
\* (uq_game_run_games_run_index).
THEOREM GamesFollowEachOther == Spec => []OneGameAtATime
<1>1. Inv => OneGameAtATime
  BY DEF Inv
<1>2. QED
  BY <1>1, RunInvariant, PTL
------------------------------------------------------------------------------
\* What the rows of a user hold, one row at a time.

Amounts == {NoRow} \union 0..TotalCost
Rows == [Runs -> [Users -> Amounts]]
Amount(x) == IF x = NoRow THEN 0 ELSE x

LEMMA BetsOfARow ==
  ASSUME NEW f \in Rows, NEW u \in Users, NEW r \in Runs
  PROVE  LET others == {b \in HeldBets(f, u) : b[1] # r}
         IN  /\ IsFiniteSet(HeldBets(f, u)) /\ IsFiniteSet(others)
             /\ Held(f, u) = Cardinality(others) + Amount(f[r][u])
             /\ Held(f, u) \in Nat /\ Amount(f[r][u]) \in Nat
<1> DEFINE n == Amount(f[r][u])
           others == {b \in HeldBets(f, u) : b[1] # r}
           mine == {r} \X (1..n)
<1>1. f[r][u] \in Amounts /\ n \in 0..NumGames
  BY DEF Rows, Amounts, Amount, NoRow, TotalCost
<1>2. IsFiniteSet(Runs \X (1..NumGames))
  <2>1. IsFiniteSet(1..NumGames)
    BY FS_Interval
  <2>2. QED
    BY <2>1, FS_Product
<1>3. HeldBets(f, u) \in SUBSET (Runs \X (1..NumGames))
  BY DEF HeldBets
<1>4. IsFiniteSet(HeldBets(f, u))
  BY <1>2, <1>3, FS_Subset
<1>5. IsFiniteSet(others)
  <2>1. others \in SUBSET HeldBets(f, u)
    OBVIOUS
  <2>2. QED
    BY <1>4, <2>1, FS_Subset
<1>6. IsFiniteSet(mine) /\ Cardinality(mine) = n
  <2>1. \A m \in 0..NumGames : IsFiniteSet(1..m) /\ Cardinality(1..m) = m
    <3>1. ASSUME NEW m \in 0..NumGames
          PROVE  IsFiniteSet(1..m) /\ Cardinality(1..m) = m
      <4>1. IsFiniteSet(1..m) /\ Cardinality(1..m) = IF 1 > m THEN 0 ELSE m - 1 + 1
        BY FS_Interval
      <4>2. QED
        BY <4>1
    <3>2. QED
      BY <3>1
  <2>2. IsFiniteSet({r}) /\ Cardinality({r}) = 1
    BY FS_Singleton
  <2> HIDE DEF n
  <2>3. IsFiniteSet(1..n) /\ Cardinality(1..n) = n
    BY <1>1, <2>1
  <2>4. IsFiniteSet(mine) /\ Cardinality(mine) = Cardinality({r}) * Cardinality(1..n)
    BY <2>2, <2>3, FS_Product, Zenon
  <2>5. QED
    BY <1>1, <2>2, <2>3, <2>4
<1>7. HeldBets(f, u) = others \union mine
  <2>1. ASSUME NEW b \in mine
        PROVE  b \in HeldBets(f, u)
    <3>1. b \in Runs \X (1..NumGames) /\ b[1] = r /\ b[2] \in 1..n
      BY <1>1
    <3>2. f[r][u] # NoRow /\ n = f[r][u]
      BY <1>1, <3>1 DEF Amount
    <3>3. QED
      BY <3>1, <3>2 DEF HeldBets
  <2>2. ASSUME NEW b \in HeldBets(f, u), b[1] = r
        PROVE  b \in mine
    <3>1. b \in Runs \X (1..NumGames) /\ b[2] <= f[r][u] /\ b = <<b[1], b[2]>>
      BY <2>2 DEF HeldBets
    <3>2. f[r][u] # NoRow
      BY <3>1 DEF NoRow
    <3>3. b[2] \in 1..n
      BY <1>1, <3>1, <3>2 DEF Amount
    <3>4. QED
      BY <2>2, <3>1, <3>3
  <2>3. QED
    BY <2>1, <2>2
<1>8. others \intersect mine = {}
  OBVIOUS
<1>9. Cardinality(others) \in Nat /\ Held(f, u) = Cardinality(others) + n
  <2>1. Cardinality({}) = 0 /\ Cardinality(others) \in Nat
    BY <1>5, FS_EmptySet, FS_CardinalityType
  <2> HIDE DEF others, mine
  <2>2. Held(f, u) = Cardinality(others) + Cardinality(mine) - Cardinality(others \intersect mine)
    BY <1>5, <1>6, <1>7, FS_Union DEF Held
  <2>3. Held(f, u) = Cardinality(others) + Cardinality(mine) - 0
    BY <1>8, <2>1, <2>2
  <2>4. n \in Nat
    BY <1>1
  <2> HIDE DEF n
  <2>5. QED
    BY <1>6, <2>1, <2>3, <2>4
<1>10. QED
  BY <1>1, <1>4, <1>5, <1>9

LEMMA RowWritten ==
  ASSUME NEW f \in Rows, NEW g \in Rows, NEW u \in Users, NEW r \in Runs,
         \A s \in Runs : s # r => g[s][u] = f[s][u]
  PROVE  /\ Held(f, u) \in Nat /\ Held(g, u) \in Nat
         /\ Amount(f[r][u]) \in Nat /\ Amount(g[r][u]) \in Nat
         /\ Held(g, u) = Held(f, u) - Amount(f[r][u]) + Amount(g[r][u])
<1> DEFINE F == {b \in HeldBets(f, u) : b[1] # r}
           G == {b \in HeldBets(g, u) : b[1] # r}
<1>1. F = G
  BY DEF HeldBets
<1>2. IsFiniteSet(F) /\ Held(f, u) = Cardinality(F) + Amount(f[r][u])
      /\ Held(f, u) \in Nat /\ Amount(f[r][u]) \in Nat
  BY BetsOfARow
<1>3. Held(g, u) = Cardinality(G) + Amount(g[r][u]) /\ Held(g, u) \in Nat
      /\ Amount(g[r][u]) \in Nat
  BY BetsOfARow
<1>4. Cardinality(F) \in Nat
  BY <1>2, FS_CardinalityType
<1> HIDE DEF F, G
<1>5. QED
  BY <1>1, <1>2, <1>3, <1>4

LEMMA NothingHeld ==
  ASSUME NEW f \in Rows, NEW u \in Users, \A r \in Runs : f[r][u] = NoRow
  PROVE  Held(f, u) = 0
<1>1. HeldBets(f, u) = {}
  <2>1. ASSUME NEW b \in HeldBets(f, u)
        PROVE  FALSE
    <3>1. b[1] \in Runs /\ b[2] \in 1..NumGames /\ b[2] <= f[b[1]][u]
      BY DEF HeldBets
    <3>2. f[b[1]][u] = NoRow
      BY <3>1
    <3>3. QED
      BY <3>1, <3>2 DEF NoRow
  <2>2. QED
    BY <2>1
<1>2. QED
  BY <1>1, FS_EmptySet DEF Held
------------------------------------------------------------------------------
\* The credits.  A request that is about to pay or to refund knows its user and its
\* run, and no row is left of a run that was never created.

CreditsTyped ==
  /\ row \in Rows
  /\ credit \in [Users -> Int] /\ staked \in [Users -> Nat] /\ strayed \in [Users -> Int]
Pays(q) ==
  /\ At(q, "entering") \/ At(q, "refunding") => req[q].user \in Users /\ req[q].run \in Runs
  /\ At(q, "entering") => run[req[q].run] # NoRun
  /\ At(q, "refunding") => req[q].saw \in 0..TotalCost
PaymentsSound == \A q \in Requests : Pays(q)
Rowless == \A r \in Runs : run[r] = NoRun => \A u \in Users : row[r][u] = NoRow

Money == CreditsTyped /\ PaymentsSound /\ Rowless /\ Accounted /\ BetOnce

\* What no step undoes: a run and a game once created.
RunsStay == \A r \in Runs : run'[r] = NoRun => run[r] = NoRun
GamesStay ==
  \A r \in Runs, k \in Games : game'[r][k].state = "none" => game[r][k].state = "none"
Frame(q) == \A p \in Requests \ {q} : req'[p] = req[p]
RequestStep == UNCHANGED req \/ \E q \in Requests : Frame(q) /\ Pays(q)'

LEMMA GoneOn ==
  ASSUME RequestsShaped, NEW q \in Requests, NEW step, GoesOn(q, step),
         step \notin {"entering", "refunding"}
  PROVE  Frame(q) /\ Pays(q)'
<1>1. req = [p \in Requests |-> req[p]] /\ Shaped(req[q])
  BY DEF RequestsShaped
<1>2. req'[q] = [req[q] EXCEPT !.at = step] /\ Frame(q)
  BY <1>1 DEF GoesOn, Frame
<1>3. req'[q] = [at |-> step, user |-> req[q].user, run |-> req[q].run, saw |-> req[q].saw,
                 who |-> req[q].who]
  BY <1>1, <1>2 DEF Shaped
<1>4. req'[q].at = step
  BY <1>3
<1>5. QED
  BY <1>2, <1>4 DEF Pays, At

LEMMA Begun ==
  ASSUME RequestsShaped, NEW q \in Requests, NEW u, NEW r, NEW step, NEW saw, NEW who,
         Begins(q, u, r, step, saw, who)
  PROVE  /\ Frame(q) /\ req'[q].at = step /\ req'[q].user = u /\ req'[q].run = r
         /\ req'[q].saw = saw
<1>1. req = [p \in Requests |-> req[p]]
  BY DEF RequestsShaped
<1>2. req'[q] = [at |-> step, user |-> u, run |-> r, saw |-> saw, who |-> who] /\ Frame(q)
  BY <1>1 DEF Begins, Frame
<1>3. QED
  BY <1>2

LEMMA PaymentsKept ==
  ASSUME PaymentsSound, RunsStay, RequestStep
  PROVE  PaymentsSound'
<1>1. ASSUME NEW p \in Requests, req'[p] = req[p]
      PROVE  Pays(p)'
  BY <1>1 DEF PaymentsSound, Pays, RunsStay, At
<1>2. CASE UNCHANGED req
  BY <1>1, <1>2 DEF PaymentsSound
<1>3. ASSUME NEW q \in Requests, Frame(q), Pays(q)'
      PROVE  PaymentsSound'
  <2>1. \A p \in Requests : Pays(p)'
    BY <1>1, <1>3 DEF Frame
  <2>2. QED
    BY <2>1 DEF PaymentsSound
<1>4. QED
  BY <1>2, <1>3 DEF RequestStep

LEMMA CreatedIsFinite ==
  /\ IsFiniteSet(GamesCreated) /\ Cardinality(GamesCreated) \in Nat
  /\ IsFiniteSet(GamesCreated') /\ Cardinality(GamesCreated') \in Nat
<1>1. IsFiniteSet(0..(NumGames - 1))
  BY FS_Interval
<1>2. IsFiniteSet(Runs \X Games)
  BY <1>1, FS_Product DEF Games
<1>3. GamesCreated \in SUBSET (Runs \X Games) /\ GamesCreated' \in SUBSET (Runs \X Games)
  BY DEF GamesCreated
<1>4. QED
  BY <1>2, <1>3, FS_Subset, FS_CardinalityType

LEMMA BetsStay ==
  ASSUME CreditsTyped, BetOnce, GamesStay, UNCHANGED staked
  PROVE  BetOnce'
<1>1. GamesCreated \in SUBSET GamesCreated'
  BY DEF GamesCreated, GamesStay
<1>2. Cardinality(GamesCreated) <= Cardinality(GamesCreated')
  BY <1>1, CreatedIsFinite, FS_Subset
<1>3. ASSUME NEW u \in Users
      PROVE  staked'[u] <= Cardinality(GamesCreated')
  BY <1>2, CreatedIsFinite DEF CreditsTyped, BetOnce
<1>4. QED
  BY <1>3 DEF BetOnce

LEMMA MoneyAside ==
  ASSUME Money, RunsStay, GamesStay, RequestStep, UNCHANGED <<row, credit, staked, strayed>>
  PROVE  Money'
<1>1. CreditsTyped' /\ Accounted'
  BY DEF Money, CreditsTyped, Accounted
<1>2. Rowless'
  BY DEF Money, Rowless, RunsStay
<1>3. BetOnce'
  BY BetsStay DEF Money
<1>4. QED
  BY <1>1, <1>2, <1>3, PaymentsKept DEF Money

\* What the row of one run gains, the rest of the books loses.
LEMMA BooksBalance ==
  ASSUME CreditsTyped, CreditsTyped', Accounted, NEW r \in Runs,
         \A s \in Runs : s # r => row'[s] = row[s],
         \A u \in Users :
           credit'[u] + Amount(row'[r][u]) + staked'[u] + strayed'[u]
             = credit[u] + Amount(row[r][u]) + staked[u] + strayed[u]
  PROVE  Accounted'
<1>1. ASSUME NEW u \in Users
      PROVE  credit'[u] + Held(row', u) + staked'[u] + strayed'[u] = StartCredit
  <2>1. PICK f \in Rows, g \in Rows : f = row /\ g = row'
    BY DEF CreditsTyped
  <2>2. /\ Held(f, u) \in Nat /\ Held(g, u) \in Nat
        /\ Held(g, u) = Held(f, u) - Amount(f[r][u]) + Amount(g[r][u])
    BY <2>1, RowWritten
  <2>3. Amount(f[r][u]) \in Int /\ Amount(g[r][u]) \in Int
    BY <2>1, RowWritten
  <2>4. credit[u] + Held(f, u) + staked[u] + strayed[u] = StartCredit
    BY <2>1 DEF Accounted
  <2>5. /\ credit[u] \in Int /\ staked[u] \in Int /\ strayed[u] \in Int
        /\ credit'[u] \in Int /\ staked'[u] \in Int /\ strayed'[u] \in Int
    BY DEF CreditsTyped
  <2>6. credit'[u] + Amount(g[r][u]) + staked'[u] + strayed'[u]
          = credit[u] + Amount(f[r][u]) + staked[u] + strayed[u]
    BY <2>1
  <2>7. QED
    BY <2>1, <2>2, <2>3, <2>4, <2>5, <2>6
<1>2. QED
  BY <1>1 DEF Accounted
------------------------------------------------------------------------------
\* The steps.

LEMMA MoneyInit == Init => Money
<1> SUFFICES ASSUME Init PROVE Money
  OBVIOUS
<1>1. PICK s \in Setups :
        /\ run = [r \in Runs |-> InitRun(s, r)]
        /\ row = [r \in Runs |-> [u \in Users |-> InitRow(s, r, u)]]
        /\ game = [r \in Runs |-> [k \in 0..(NumGames - 1) |-> InitGame(s, r, k)]]
        /\ credit = [u \in Users |-> StartCredit - (IF u \in s.players THEN TotalCost ELSE 0)]
        /\ staked = [u \in Users |-> IF u \in s.players THEN s.played ELSE 0]
  BY DEF Init
<1>2. s.played \in 0..NumGames /\ s.played \in Nat
  BY SetupsAssumption
<1>3. StartCredit \in Nat /\ TotalCost \in Nat
  BY DEF StartCredit, TotalCost, KORA_CREDIT_MULTIPLIER
<1>4. PICK first \in Runs : \A r \in Runs : first <= r
  OBVIOUS
<1>5. \A r \in Runs : FirstRun(s, r) <=> s.players # {} /\ r = first
  BY <1>4 DEF FirstRun
<1>6. ASSUME NEW r \in Runs, NEW u \in Users
      PROVE  /\ row[r][u] \in Amounts /\ row[r][u] = InitRow(s, r, u)
             /\ Amount(row[r][u]) = IF r = first /\ u \in s.players THEN NumGames - s.played ELSE 0
  <2>1. row[r][u] = InitRow(s, r, u)
    BY <1>1
  <2>2. CASE r = first /\ u \in s.players
    <3>1. row[r][u] = NumGames - s.played
      BY <1>5, <2>1, <2>2 DEF InitRow
    <3>2. row[r][u] \in 0..TotalCost /\ row[r][u] # NoRow
      BY <1>2, <3>1 DEF TotalCost, NoRow
    <3>3. QED
      BY <2>1, <2>2, <3>1, <3>2 DEF Amounts, Amount
  <2>3. CASE ~(r = first /\ u \in s.players)
    <3>1. row[r][u] = NoRow
      BY <1>5, <2>1, <2>3 DEF InitRow
    <3>2. QED
      BY <2>1, <2>3, <3>1 DEF Amounts, Amount
  <2>4. QED
    BY <2>2, <2>3
<1>7. CreditsTyped
  <2>1. row \in Rows
    BY <1>1, <1>6 DEF Rows
  <2>2. credit \in [Users -> Int]
    BY <1>1, <1>3
  <2>3. staked \in [Users -> Nat]
    BY <1>1, <1>2
  <2>4. QED
    BY <2>1, <2>2, <2>3 DEF CreditsTyped, Init
<1>8. PaymentsSound
  <2>1. \A q \in Requests : req[q].at = "new"
    BY DEF Init
  <2>2. QED
    BY <2>1 DEF PaymentsSound, Pays, At
<1>9. Rowless
  <2>1. ASSUME NEW r \in Runs, run[r] = NoRun, NEW u \in Users
        PROVE  row[r][u] = NoRow
    <3>1. ~FirstRun(s, r)
      BY <1>1, <2>1 DEF InitRun, NoRun
    <3>2. QED
      BY <1>6, <3>1 DEF InitRow
  <2>2. QED
    BY <2>1 DEF Rowless
<1>10. ASSUME NEW u \in Users
       PROVE  credit[u] + Held(row, u) + staked[u] + strayed[u] = StartCredit
  <2>1. PICK f \in Rows, g \in Rows :
          f = row /\ g = [r \in Runs |-> [v \in Users |-> NoRow]]
    BY <1>7 DEF CreditsTyped, Rows, Amounts
  <2>2. Held(g, u) = 0
    BY <2>1, NothingHeld
  <2>3. \A r \in Runs : r # first => f[r][u] = NoRow
    BY <1>5, <1>6, <2>1 DEF InitRow
  <2>4. \A r \in Runs : r # first => g[r][u] = f[r][u]
    BY <2>1, <2>3
  <2>5. /\ Held(f, u) \in Nat /\ Held(g, u) \in Nat
        /\ Amount(f[first][u]) \in Nat /\ Amount(g[first][u]) \in Nat
        /\ Held(g, u) = Held(f, u) - Amount(f[first][u]) + Amount(g[first][u])
    BY <2>4, RowWritten, Zenon
  <2>6. Amount(g[first][u]) = 0
    BY <2>1 DEF Amount
  <2>7. Held(row, u) = IF u \in s.players THEN NumGames - s.played ELSE 0
    <3>1. Held(f, u) = Amount(f[first][u])
      <4>1. ASSUME NEW a \in Nat, NEW b \in Nat, 0 = a - b + 0
            PROVE  a = b
        BY <4>1
      <4>2. 0 = Held(f, u) - Amount(f[first][u]) + 0
        BY <2>2, <2>5, <2>6, Zenon
      <4>3. Held(f, u) \in Nat /\ Amount(f[first][u]) \in Nat
        BY <2>5
      <4>4. QED
        BY <4>1, <4>2, <4>3, Zenon
    <3>2. Amount(f[first][u]) = IF u \in s.players THEN NumGames - s.played ELSE 0
      <4>1. Amount(row[first][u])
              = IF first = first /\ u \in s.players THEN NumGames - s.played ELSE 0
        BY <1>6, Zenon
      <4>2. QED
        BY <2>1, <4>1, Zenon
    <3>3. QED
      BY <2>1, <3>1, <3>2
  <2>8. strayed[u] = 0
    BY DEF Init
  <2>9. credit[u] = StartCredit - (IF u \in s.players THEN NumGames ELSE 0)
        /\ staked[u] = IF u \in s.players THEN s.played ELSE 0
    BY <1>1 DEF TotalCost
  <2>10. QED
    BY <1>2, <1>3, <2>7, <2>8, <2>9
<1>11. BetOnce
  <2>1. ASSUME NEW u \in Users
        PROVE  staked[u] <= Cardinality(GamesCreated)
    <3>1. CASE u \in s.players
      <4> DEFINE played == {first} \X (0..(s.played - 1))
      <4>1. \A k \in 0..(s.played - 1) : k \in Games /\ game[first][k].state = "finished"
        BY <1>1, <1>2, <1>5, <3>1 DEF InitGame, Games
      <4>2. played \in SUBSET GamesCreated
        BY <4>1 DEF GamesCreated
      <4>3. Cardinality(played) = s.played
        <5>1. \A n \in Nat : IsFiniteSet(0..(n - 1)) /\ Cardinality(0..(n - 1)) = n
          <6>1. ASSUME NEW n \in Nat
                PROVE  IsFiniteSet(0..(n - 1)) /\ Cardinality(0..(n - 1)) = n
            <7>1. 0 \in Int /\ n - 1 \in Int
              OBVIOUS
            <7>2. /\ IsFiniteSet(0..(n - 1))
                  /\ Cardinality(0..(n - 1)) = IF 0 > n - 1 THEN 0 ELSE (n - 1) - 0 + 1
              BY <7>1, FS_Interval
            <7>3. QED
              BY <7>2
          <6>2. QED
            BY <6>1
        <5>2. IsFiniteSet({first}) /\ Cardinality({first}) = 1
          BY FS_Singleton
        <5>3. PICK n \in Nat : n = s.played
          BY <1>2
        <5>4. IsFiniteSet(0..(n - 1)) /\ Cardinality(0..(n - 1)) = n
          BY <5>1
        <5>5. Cardinality({first} \X (0..(n - 1)))
                = Cardinality({first}) * Cardinality(0..(n - 1))
          BY <5>2, <5>4, FS_Product, Zenon
        <5>6. QED
          BY <5>2, <5>3, <5>4, <5>5
      <4> HIDE DEF played
      <4>4. Cardinality(played) <= Cardinality(GamesCreated)
        BY <4>2, CreatedIsFinite, FS_Subset
      <4>5. QED
        BY <1>1, <3>1, <4>3, <4>4
    <3>2. CASE u \notin s.players
      BY <1>1, <3>2, CreatedIsFinite
    <3>3. QED
      BY <3>1, <3>2
  <2>2. QED
    BY <2>1 DEF BetOnce
<1>12. QED
  BY <1>7, <1>8, <1>9, <1>10, <1>11 DEF Money, Accounted

\* The requests about the room leave the credits alone, but for the end of the room.
LEMMA RoomRequestMoney ==
  ASSUME Inv, Money, NEW q \in Requests, RoomRequest(q)
  PROVE  Money'
<1>1. RequestsShaped
  BY DEF Inv
<1>2. ASSUME NEW u \in Users, CreateRoom(q, u) \/ JoinRoom(q, u) \/ LeaveRoom(q, u)
      PROVE  Money'
  <2>1. Frame(q) /\ req'[q].at \in {"founding", "joining", "leaving"}
    BY <1>1, <1>2, Begun DEF CreateRoom, JoinRoom, LeaveRoom
  <2>2. Pays(q)'
    BY <2>1 DEF Pays, At
  <2>3. UNCHANGED <<run, row, game, credit, staked, strayed>>
    BY <1>2 DEF CreateRoom, JoinRoom, LeaveRoom, runsState
  <2>4. QED
    BY <2>1, <2>2, <2>3, MoneyAside DEF RunsStay, GamesStay, RequestStep
<1>3. CASE AddCreator(q) \/ JoinRoomEnd(q) \/ RemoveMember(q) \/ NameCreator(q) \/ RequestCut(q)
  <2>1. Frame(q) /\ Pays(q)'
    BY <1>1, <1>3, GoneOn
       DEF AddCreator, JoinRoomEnd, RemoveMember, NameCreator, RequestCut, RoomStep, Answered
  <2>2. UNCHANGED <<run, row, game, credit, staked, strayed>>
    BY <1>3
       DEF AddCreator, JoinRoomEnd, RemoveMember, NameCreator, RequestCut, RoomStep, runsState
  <2>3. QED
    BY <2>1, <2>2, MoneyAside DEF RunsStay, GamesStay, RequestStep
<1>4. CASE LookWhoRemains(q)
  <2>1. UNCHANGED <<run, row, game, credit, staked, strayed>>
    BY <1>4 DEF LookWhoRemains, runsState
  <2>3. CASE req' = [req EXCEPT ![q].at = "naming", ![q].who = {Head(room.members)}]
    <3>1. req = [p \in Requests |-> req[p]] /\ Shaped(req[q])
      BY <1>1 DEF RequestsShaped
    <3>2. req'[q] = [at |-> "naming", user |-> req[q].user, run |-> req[q].run,
                     saw |-> req[q].saw, who |-> {Head(room.members)}]
      BY <2>3, <3>1 DEF Shaped
    <3>3. Frame(q) /\ req'[q].at = "naming"
      BY <2>3, <3>1, <3>2 DEF Frame
    <3>4. Pays(q)'
      BY <3>3 DEF Pays, At
    <3>5. QED
      BY <2>1, <3>3, <3>4, MoneyAside DEF RunsStay, GamesStay, RequestStep
  <2>4. CASE Frame(q) /\ Pays(q)'
    BY <2>1, <2>4, MoneyAside DEF RunsStay, GamesStay, RequestStep
  <2>5. QED
    BY <1>1, <1>4, <2>3, <2>4, GoneOn DEF LookWhoRemains, Answered
<1>5. CASE DeleteRoom(q)
  <2>1. Frame(q) /\ Pays(q)' /\ UNCHANGED <<game, credit, staked>>
    BY <1>1, <1>5, GoneOn DEF DeleteRoom, Answered
  <2>2. RunsStay
    <3>1. ASSUME NEW r \in Runs, run[r] # NoRun
          PROVE  run'[r] # NoRun
      <4>1. run[r] \in RunRows
        BY DEF Inv, RunsTyped
      <4>2. run'[r] = [run[r] EXCEPT !.status = "gone"]
        BY <1>5, <3>1 DEF DeleteRoom
      <4>3. run'[r].status = "gone"
        BY <4>1, <4>2 DEF RunRows
      <4>4. QED
        BY <4>3 DEF NoRun
    <3>2. QED
      BY <3>1 DEF RunsStay
  <2>3. PICK f \in Rows, g \in Rows :
          f = row /\ g = row' /\ \A r \in Runs, u \in Users : g[r][u] = NoRow
    <3>1. row' = [r \in Runs |-> [u \in Users |-> NoRow]]
      BY <1>5 DEF DeleteRoom
    <3>2. row \in Rows /\ row' \in Rows
      BY <3>1 DEF Money, CreditsTyped, Rows, Amounts
    <3>3. QED
      BY <3>1, <3>2
  <2>4. PICK first \in Runs : TRUE
    OBVIOUS
  <2>5. \A u \in Users : Held(f, u) \in Nat /\ Held(g, u) = 0
    BY <2>3, NothingHeld, RowWritten
  <2>6. strayed' = [u \in Users |-> strayed[u] + Held(f, u)]
    BY <1>5, <2>3 DEF DeleteRoom
  <2>7. CreditsTyped'
    BY <2>1, <2>3, <2>5, <2>6 DEF Money, CreditsTyped
  <2>8. Accounted'
    <3>1. ASSUME NEW u \in Users
          PROVE  credit'[u] + Held(row', u) + staked'[u] + strayed'[u] = StartCredit
      <4>1. credit[u] + Held(f, u) + staked[u] + strayed[u] = StartCredit
        BY <2>3 DEF Money, Accounted
      <4>2. credit[u] \in Int /\ staked[u] \in Int /\ strayed[u] \in Int
        BY DEF Money, CreditsTyped
      <4>3. strayed'[u] = strayed[u] + Held(f, u) /\ Held(row', u) = 0 /\ Held(f, u) \in Nat
        BY <2>3, <2>5, <2>6
      <4>4. QED
        BY <2>1, <4>1, <4>2, <4>3
    <3>2. QED
      BY <3>1 DEF Accounted
  <2>9. Rowless'
    BY <2>3 DEF Rowless
  <2>10. BetOnce'
    BY <2>1, BetsStay DEF Money, GamesStay
  <2>11. PaymentsSound'
    BY <2>1, <2>2, PaymentsKept DEF Money, RequestStep
  <2>12. QED
    BY <2>7, <2>8, <2>9, <2>10, <2>11 DEF Money
<1>6. QED
  BY <1>2, <1>3, <1>4, <1>5 DEF RoomRequest

\* A step that writes runs only: none that exists becomes as if it did not.
LEMMA CancelStays ==
  ASSUME RunsTyped, NEW r, CancelRun(r)
  PROVE  RunsStay
<1>1. ASSUME NEW s \in Runs, run[s] # NoRun
      PROVE  run'[s] # NoRun
  <2>1. run[s] \in RunRows
    BY DEF RunsTyped
  <2>2. CASE run'[s] = run[s]
    BY <1>1, <2>2
  <2>3. CASE s = r /\ run' = [run EXCEPT ![r].status = "cancelled", ![r].age = 0]
    <3>1. run'[s].status = "cancelled"
      BY <2>1, <2>3 DEF RunsTyped, RunRows
    <3>2. QED
      BY <3>1 DEF NoRun
  <2>4. QED
    BY <2>2, <2>3 DEF CancelRun, RunsTyped
<1>2. QED
  BY <1>1 DEF RunsStay

\* uq_room_active_run and the debits: a row for each player that could be debited.
LEMMA CreateRunMoney ==
  ASSUME Inv, Money, NEW q \in Requests, CreateRunEnd(q)
  PROVE  Money'
<1>1. Frame(q) /\ Pays(q)' /\ UNCHANGED <<game, staked, strayed>>
  BY GoneOn DEF CreateRunEnd, Answered, Inv
<1>2. CASE UNCHANGED <<run, row, credit>>
  BY <1>1, <1>2, MoneyAside DEF RunsStay, GamesStay, RequestStep
<1>3. ASSUME NEW r \in Runs, run[r] = NoRun,
             run' = [run EXCEPT ![r].status = "active"],
             row' = [row EXCEPT ![r] = Provisioned(req[q].who, row[r])],
             credit' = Debited(req[q].who)
      PROVE  Money'
  <2> DEFINE who == req[q].who
  <2>1. row[r] \in [Users -> Amounts] /\ row \in Rows
    BY DEF Money, CreditsTyped, Rows
  <2>2. /\ \A s \in Runs : s # r => row'[s] = row[s]
        /\ row'[r] = [u \in Users |-> IF u \in who THEN TotalCost ELSE row[r][u]]
    BY <1>3, <2>1 DEF Provisioned, Rows
  <2>3. TotalCost \in 0..TotalCost /\ TotalCost # NoRow /\ TotalCost \in Nat
    BY DEF TotalCost, NoRow
  <2>4. row' \in Rows
    <3>1. row'[r] \in [Users -> Amounts]
      BY <2>1, <2>2, <2>3 DEF Amounts
    <3>2. row' = [s \in Runs |-> row'[s]] /\ \A s \in Runs : row'[s] \in [Users -> Amounts]
      BY <1>3, <2>1, <2>2, <3>1 DEF Rows
    <3>3. QED
      BY <3>2 DEF Rows
  <2>5. ASSUME NEW u \in Users
        PROVE  /\ credit[u] \in Int /\ credit'[u] \in Int
               /\ credit'[u] + Amount(row'[r][u]) = credit[u] + Amount(row[r][u])
    <3>1. credit[u] \in Int /\ row[r][u] = NoRow /\ Amount(row[r][u]) = 0
      BY <1>3 DEF Money, CreditsTyped, Rowless, Amount
    <3>2. credit'[u] = credit[u] - (IF u \in who THEN TotalCost ELSE 0)
      BY <1>3 DEF Debited
    <3>3. Amount(row'[r][u]) = IF u \in who THEN TotalCost ELSE 0
      BY <2>2, <2>3, <3>1 DEF Amount
    <3>4. QED
      BY <2>3, <3>1, <3>2, <3>3
  <2>6. CreditsTyped'
    <3>1. credit' = [u \in Users |-> credit'[u]]
      BY <1>3 DEF Debited
    <3>2. QED
      BY <1>1, <2>4, <2>5, <3>1 DEF Money, CreditsTyped
  <2>7. Accounted'
    <3>1. \A u \in Users : credit'[u] + Amount(row'[r][u]) + staked'[u] + strayed'[u]
                             = credit[u] + Amount(row[r][u]) + staked[u] + strayed[u]
      BY <1>1, <2>5
    <3>2. QED
      BY <2>2, <2>6, <3>1, BooksBalance DEF Money
  <2>8. run'[r].status = "active" /\ \A s \in Runs : s # r => run'[s] = run[s]
    <3>1. run[r] \in RunRows
      BY DEF Inv, RunsTyped
    <3>2. QED
      BY <1>3, <3>1 DEF Inv, RunsTyped, RunRows
  <2>9. RunsStay /\ run'[r] # NoRun
    BY <1>3, <2>8 DEF RunsStay, NoRun
  <2>10. Rowless'
    BY <2>2, <2>8, <2>9 DEF Rowless, Money
  <2>11. BetOnce'
    BY <1>1, BetsStay DEF Money, GamesStay
  <2>12. PaymentsSound'
    BY <1>1, <2>9, PaymentsKept DEF Money, RequestStep
  <2>13. QED
    BY <2>6, <2>7, <2>10, <2>11, <2>12 DEF Money
<1>4. QED
  <2>1. CASE UNCHANGED <<run, row, credit>>
    BY <1>2, <2>1
  <2>2. CASE \E r \in Runs :
               /\ \A s \in Runs : (run[s] = NoRun) <=> s >= r
               /\ run' = [run EXCEPT ![r].status = "active"]
               /\ row' = [row EXCEPT ![r] = Provisioned(req[q].who, @)]
               /\ credit' = Debited(req[q].who)
    <3>1. PICK r \in Runs :
               /\ \A s \in Runs : (run[s] = NoRun) <=> s >= r
               /\ run' = [run EXCEPT ![r].status = "active"]
               /\ row' = [row EXCEPT ![r] = Provisioned(req[q].who, row[r])]
               /\ credit' = Debited(req[q].who)
      BY <2>2
    <3>2. r \in Nat
      OBVIOUS
    <3>3. run[r] = NoRun
      BY <3>1, <3>2
    <3>4. QED
      BY <1>3, <3>1, <3>3
  <2>3. QED
    BY <2>1, <2>2 DEF CreateRunEnd

\* A user pays for a run that exists, and only where no row is there.
LEMMA JoinRunMoney ==
  ASSUME Inv, Money, NEW q \in Requests, JoinRunEnd(q)
  PROVE  Money'
<1>1. Frame(q) /\ Pays(q)' /\ UNCHANGED <<run, game, staked, strayed>>
  BY GoneOn DEF JoinRunEnd, Answered, Inv
<1>2. PICK u \in Users, r \in Runs : u = req[q].user /\ r = req[q].run
  BY DEF JoinRunEnd, Money, PaymentsSound, Pays
<1>3. run[r] # NoRun
  BY <1>2 DEF JoinRunEnd, Money, PaymentsSound, Pays
<1>4. row[r] \in [Users -> Amounts] /\ row \in Rows
  BY DEF Money, CreditsTyped, Rows
<1>5. RunsStay
  BY <1>1 DEF RunsStay
<1>6. CASE row' = [row EXCEPT ![r] = row[r]] /\ credit' = credit
  <2>1. row' = row
    BY <1>4, <1>6 DEF Rows
  <2>2. QED
    BY <1>1, <1>5, <1>6, <2>1, MoneyAside DEF GamesStay, RequestStep
<1>7. CASE /\ u \notin Players(r)
           /\ row' = [row EXCEPT ![r] = Provisioned({u}, row[r])] /\ credit' = Debited({u})
  <2>1. TotalCost \in 0..TotalCost /\ TotalCost # NoRow /\ TotalCost \in Nat
    BY DEF TotalCost, NoRow
  <2>2. /\ \A s \in Runs : s # r => row'[s] = row[s]
        /\ row'[r] = [v \in Users |-> IF v = u THEN TotalCost ELSE row[r][v]]
    BY <1>4, <1>7 DEF Provisioned, Rows
  <2>3. row' \in Rows
    <3>1. row'[r] \in [Users -> Amounts]
      BY <1>4, <2>1, <2>2 DEF Amounts
    <3>2. row' = [s \in Runs |-> row'[s]] /\ \A s \in Runs : row'[s] \in [Users -> Amounts]
      BY <1>4, <1>7, <2>2, <3>1 DEF Rows
    <3>3. QED
      BY <3>2 DEF Rows
  <2>4. ASSUME NEW v \in Users
        PROVE  /\ credit[v] \in Int /\ credit'[v] \in Int
               /\ credit'[v] + Amount(row'[r][v]) = credit[v] + Amount(row[r][v])
    <3>1. credit[v] \in Int
      BY DEF Money, CreditsTyped
    <3>2. credit'[v] = credit[v] - (IF v = u THEN TotalCost ELSE 0)
      BY <1>7 DEF Debited
    <3>3. CASE v = u
      <4>1. Amount(row[r][v]) = 0
        BY <1>7, <3>3 DEF Players, Amount
      <4>2. Amount(row'[r][v]) = TotalCost
        BY <2>1, <2>2, <3>3 DEF Amount
      <4>3. QED
        BY <2>1, <3>1, <3>2, <3>3, <4>1, <4>2
    <3>4. CASE v # u
      BY <2>2, <3>1, <3>2, <3>4
    <3>5. QED
      BY <3>3, <3>4
  <2>5. CreditsTyped'
    <3>1. credit' = [v \in Users |-> credit'[v]]
      BY <1>7 DEF Debited
    <3>2. QED
      BY <1>1, <2>3, <2>4, <3>1 DEF Money, CreditsTyped
  <2>6. Accounted'
    <3>1. \A v \in Users : credit'[v] + Amount(row'[r][v]) + staked'[v] + strayed'[v]
                             = credit[v] + Amount(row[r][v]) + staked[v] + strayed[v]
      BY <1>1, <2>4
    <3>2. QED
      BY <2>2, <2>5, <3>1, BooksBalance DEF Money
  <2>7. Rowless'
    BY <1>1, <1>3, <2>2 DEF Rowless, Money
  <2>8. BetOnce'
    BY <1>1, BetsStay DEF Money, GamesStay
  <2>9. PaymentsSound'
    BY <1>1, <1>5, PaymentsKept DEF Money, RequestStep
  <2>10. QED
    BY <2>5, <2>6, <2>7, <2>8, <2>9 DEF Money
<1>8. QED
  BY <1>2, <1>6, <1>7 DEF JoinRunEnd

\* What a refund gives and the row did not hold, or held and it does not give, strays.
LEMMA RefundMoney ==
  ASSUME Inv, Money, NEW q \in Requests, Refund(q)
  PROVE  Money'
<1>1. Frame(q) /\ Pays(q)' /\ UNCHANGED <<run, game, staked>>
  BY GoneOn DEF Refund, Inv
<1>2. PICK u \in Users, r \in Runs, n \in 0..TotalCost :
        u = req[q].user /\ r = req[q].run /\ n = req[q].saw
  BY DEF Refund, Money, PaymentsSound, Pays
<1>3. n \in Int
  BY <1>2 DEF TotalCost
<1>4. row[r] \in [Users -> Amounts] /\ row \in Rows
  BY DEF Money, CreditsTyped, Rows
<1>5. /\ row' = [row EXCEPT ![r][u] = NoRow]
      /\ credit' = [credit EXCEPT ![u] = credit[u] + n]
      /\ strayed' = [strayed EXCEPT ![u] = strayed[u] + Amount(row[r][u]) - n]
  BY <1>2 DEF Refund, Refunded, Amount
<1>6. /\ \A s \in Runs : s # r => row'[s] = row[s]
      /\ row'[r] = [row[r] EXCEPT ![u] = NoRow]
  BY <1>4, <1>5 DEF Rows
<1>7. row' \in Rows
  <2>1. row'[r] \in [Users -> Amounts]
    BY <1>4, <1>6 DEF Amounts
  <2>2. row' = [s \in Runs |-> row'[s]] /\ \A s \in Runs : row'[s] \in [Users -> Amounts]
    BY <1>4, <1>5, <1>6, <2>1 DEF Rows
  <2>3. QED
    BY <2>2 DEF Rows
<1>8. Amount(row[r][u]) \in Int
  <2>1. row[r][u] \in Amounts
    BY <1>4
  <2>2. QED
    BY <2>1 DEF Amounts, Amount, TotalCost
<1>9. CreditsTyped'
  BY <1>1, <1>3, <1>5, <1>7, <1>8 DEF Money, CreditsTyped
<1>10. ASSUME NEW v \in Users
       PROVE  credit'[v] + Amount(row'[r][v]) + staked'[v] + strayed'[v]
                = credit[v] + Amount(row[r][v]) + staked[v] + strayed[v]
  <2>1. credit[v] \in Int /\ staked[v] \in Int /\ strayed[v] \in Int /\ staked'[v] = staked[v]
    BY <1>1 DEF Money, CreditsTyped
  <2>2. CASE v = u
    <3>1. Amount(row'[r][v]) = 0
      BY <1>4, <1>6, <2>2 DEF Amount
    <3>2. credit'[v] = credit[v] + n /\ strayed'[v] = strayed[v] + Amount(row[r][v]) - n
      BY <1>5, <2>2 DEF Money, CreditsTyped
    <3>3. QED
      BY <1>3, <1>8, <2>1, <2>2, <3>1, <3>2
  <2>3. CASE v # u
    BY <1>4, <1>5, <1>6, <2>1, <2>3 DEF Money, CreditsTyped
  <2>4. QED
    BY <2>2, <2>3
<1>11. Accounted'
  BY <1>6, <1>9, <1>10, BooksBalance DEF Money
<1>12. Rowless'
  <2>1. \A s \in Runs, v \in Users : row'[s][v] = row[s][v] \/ row'[s][v] = NoRow
    BY <1>4, <1>6
  <2>2. QED
    BY <1>1, <2>1 DEF Rowless, Money
<1>13. BetOnce'
  BY <1>1, BetsStay DEF Money, GamesStay
<1>14. PaymentsSound'
  BY <1>1, PaymentsKept DEF Money, RequestStep, RunsStay
<1>15. QED
  BY <1>9, <1>11, <1>12, <1>13, <1>14 DEF Money

LEMMA RunRequestMoney ==
  ASSUME Inv, Money, NEW q \in Requests, RunRequest(q)
  PROVE  Money'
<1>1. RequestsShaped
  BY DEF Inv
<1>2. ASSUME NEW u \in Users, NEW who, CreateRun(q, u, who)
      PROVE  Money'
  <2>1. Frame(q) /\ req'[q].at = "creating"
    BY <1>1, <1>2, Begun DEF CreateRun
  <2>2. Pays(q)'
    BY <2>1 DEF Pays, At
  <2>3. UNCHANGED <<run, row, game, credit, staked, strayed>>
    BY <1>2 DEF CreateRun, runsState
  <2>4. QED
    BY <2>1, <2>2, <2>3, MoneyAside DEF RunsStay, GamesStay, RequestStep
<1>3. ASSUME NEW u \in Users, NEW r \in Runs, JoinRun(q, u, r)
      PROVE  Money'
  <2>1. Frame(q) /\ req'[q].at = "entering" /\ req'[q].user = u /\ req'[q].run = r
    BY <1>1, <1>3, Begun DEF JoinRun
  <2>2. UNCHANGED <<run, row, game, credit, staked, strayed>>
    BY <1>3 DEF JoinRun, runsState
  <2>3. run'[r] # NoRun
    BY <1>3, <2>2 DEF JoinRun, IsActive, NoRun
  <2>4. Pays(q)'
    BY <2>1, <2>3 DEF Pays, At
  <2>5. QED
    BY <2>1, <2>2, <2>4, MoneyAside DEF RunsStay, GamesStay, RequestStep
<1>4. ASSUME NEW u \in Users, NEW r \in Runs, LeaveRun(q, u, r)
      PROVE  Money'
  <2>1. /\ Frame(q) /\ req'[q].at = "refunding" /\ req'[q].user = u /\ req'[q].run = r
        /\ req'[q].saw = row[r][u]
    BY <1>1, <1>4, Begun DEF LeaveRun
  <2>2. UNCHANGED <<run, row, game, credit, staked, strayed>>
    BY <1>4 DEF LeaveRun, runsState
  <2>3. row[r][u] \in 0..TotalCost
    BY <1>4 DEF LeaveRun, Players, Money, CreditsTyped, Rows, Amounts
  <2>4. Pays(q)'
    BY <2>1, <2>3 DEF Pays, At
  <2>5. QED
    BY <2>1, <2>2, <2>4, MoneyAside DEF RunsStay, GamesStay, RequestStep
<1>5. CASE CountLeft(q)
  <2>1. Frame(q) /\ Pays(q)'
    BY <1>1, <1>5, GoneOn DEF CountLeft
  <2>2. UNCHANGED <<run, row, game, credit, staked, strayed>>
    BY <1>5 DEF CountLeft, runsState
  <2>3. QED
    BY <2>1, <2>2, MoneyAside DEF RunsStay, GamesStay, RequestStep
<1>6. CASE CloseRun(q)
  <2>1. Frame(q) /\ Pays(q)' /\ UNCHANGED <<row, game, credit, staked, strayed>>
    BY <1>1, <1>6, GoneOn DEF CloseRun, Answered
  <2>2. RunsStay
    BY <1>6, CancelStays DEF CloseRun, Inv
  <2>3. QED
    BY <2>1, <2>2, MoneyAside DEF GamesStay, RequestStep
<1>7. QED
  BY <1>2, <1>3, <1>4, <1>5, <1>6, CreateRunMoney, JoinRunMoney, RefundMoney DEF RunRequest

\* A game is created once for all its players, and a bet is taken from a row only where
\* the row holds one.
LEMMA StartGameMoney ==
  ASSUME Inv, Money, NEW q \in Requests, StartGame(q)
  PROVE  Money'
<1>1. Frame(q) /\ Pays(q)' /\ UNCHANGED <<credit, strayed>>
  BY GoneOn DEF StartGame, Inv
<1>2. CASE UNCHANGED <<game, row, staked, run>>
  BY <1>1, <1>2, MoneyAside DEF RunsStay, GamesStay, RequestStep
<1>3. PICK r \in Runs, k \in Games, who \in SUBSET Users :
        r = req[q].run /\ k = req[q].saw /\ who = req[q].who
  BY DEF StartGame, Inv, PlansSound, Sound
<1>4. CASE /\ FreeIndex(r, k) /\ CreateGame(r, k, who)
           /\ TakeBets(r, {u \in who : Deducts(r, u)}) /\ Advance(r, k + 1)
  <2> DEFINE pays(u) == u \in who /\ row[r][u] >= 1
  <2>1. row[r] \in [Users -> Amounts] /\ row \in Rows
    BY DEF Money, CreditsTyped, Rows
  <2>2. /\ \A s \in Runs : s # r => row'[s] = row[s]
        /\ row'[r] = [u \in Users |-> row[r][u] - (IF pays(u) THEN 1 ELSE 0)]
        /\ row' = [s \in Runs |-> row'[s]]
        /\ staked' = [u \in Users |-> staked[u] + (IF pays(u) THEN 1 ELSE 0)]
    BY <1>4, <2>1 DEF TakeBets, Deducts, Rows
  <2>3. ASSUME NEW u \in Users
        PROVE  /\ row'[r][u] \in Amounts /\ staked'[u] \in Nat
               /\ staked'[u] + Amount(row'[r][u]) = staked[u] + Amount(row[r][u])
               /\ staked[u] \in Nat /\ staked'[u] <= staked[u] + 1
               /\ Amount(row[r][u]) \in Int /\ Amount(row'[r][u]) \in Int
               /\ row[r][u] = NoRow => row'[r][u] = NoRow
    <3>1. row[r][u] \in Amounts /\ staked[u] \in Nat
      BY <2>1 DEF Money, CreditsTyped
    <3>2. CASE pays(u)
      <4>1. row[r][u] \in 1..TotalCost /\ row'[r][u] = row[r][u] - 1
        BY <2>2, <3>1, <3>2 DEF Amounts, NoRow
      <4>2. Amount(row[r][u]) = row[r][u] /\ Amount(row'[r][u]) = row[r][u] - 1
        BY <4>1 DEF Amount, NoRow
      <4>3. staked'[u] = staked[u] + 1
        BY <2>2, <3>2
      <4>4. QED
        BY <3>1, <4>1, <4>2, <4>3 DEF Amounts, NoRow, TotalCost
    <3>3. CASE ~pays(u)
      <4>1. row'[r][u] = row[r][u] /\ staked'[u] = staked[u]
        BY <2>2, <3>1, <3>3 DEF Amounts, NoRow, TotalCost
      <4>2. Amount(row[r][u]) \in Int
        BY <3>1 DEF Amounts, Amount, NoRow, TotalCost
      <4>3. QED
        BY <3>1, <4>1, <4>2
    <3>4. QED
      BY <3>2, <3>3
  <2>4. CreditsTyped'
    <3>1. row'[r] \in [Users -> Amounts]
      BY <2>2, <2>3
    <3>2. row' \in Rows
      BY <2>1, <2>2, <3>1 DEF Rows
    <3>3. QED
      BY <1>1, <2>2, <2>3, <3>2 DEF Money, CreditsTyped
  <2>5. Accounted'
    <3>1. ASSUME NEW u \in Users
          PROVE  credit'[u] + Amount(row'[r][u]) + staked'[u] + strayed'[u]
                   = credit[u] + Amount(row[r][u]) + staked[u] + strayed[u]
      <4>1. credit[u] \in Int /\ strayed[u] \in Int /\ credit' = credit /\ strayed' = strayed
        BY <1>1 DEF Money, CreditsTyped
      <4>2. QED
        BY <2>3, <4>1
    <3>2. QED
      BY <2>2, <2>4, <3>1, BooksBalance DEF Money
  <2>6. run[r] \in RunRows
    BY DEF Inv, RunsTyped
  <2>7. run'[r].status = run[r].status /\ \A s \in Runs : s # r => run'[s] = run[s]
    BY <1>4, <2>6 DEF Advance, Inv, RunsTyped, RunRows
  <2>8. run'[r].index = k + 1
    BY <1>4, <2>6 DEF Advance, Inv, RunsTyped, RunRows
  <2>9. RunsStay
    <3>1. k + 1 # 0
      BY DEF Games
    <3>2. QED
      BY <2>7, <2>8, <3>1 DEF RunsStay, NoRun
  <2>10. Rowless'
    BY <2>2, <2>3, <2>7, <2>9 DEF Rowless, RunsStay, Money
  <2>11. GamesCreated' = GamesCreated \union {<<r, k>>}
    <3>1. ASSUME NEW s \in Runs, NEW i \in Games
          PROVE  game'[s][i] = IF s = r /\ i = k THEN WithPlayers(who) ELSE game[s][i]
      BY <1>4 DEF CreateGame, Inv, GamesTyped
    <3>2. WithPlayers(who).state # "none"
      BY DEF WithPlayers
    <3>3. ASSUME NEW s \in Runs, NEW i \in Games
          PROVE  game'[s][i].state # "none" <=> game[s][i].state # "none" \/ (s = r /\ i = k)
      BY <3>1, <3>2
    <3>4. ASSUME NEW c \in Runs \X Games
          PROVE  c \in GamesCreated' <=> c \in GamesCreated \/ c = <<r, k>>
      <4>1. c[1] \in Runs /\ c[2] \in Games /\ c = <<c[1], c[2]>>
        OBVIOUS
      <4>2. c = <<r, k>> <=> c[1] = r /\ c[2] = k
        BY <4>1
      <4>3. QED
        BY <3>3, <4>1, <4>2 DEF GamesCreated
    <3>5. <<r, k>> \in Runs \X Games /\ GamesCreated \subseteq Runs \X Games
          /\ GamesCreated' \subseteq Runs \X Games
      BY DEF GamesCreated
    <3>6. QED
      BY <3>4, <3>5
  <2>12. <<r, k>> \notin GamesCreated
    BY <1>4 DEF FreeIndex, GamesCreated
  <2>13. Cardinality(GamesCreated') = Cardinality(GamesCreated) + 1
    BY <2>11, <2>12, CreatedIsFinite, FS_AddElement
  <2>14. BetOnce'
    <3>1. ASSUME NEW u \in Users
          PROVE  staked'[u] <= Cardinality(GamesCreated')
      <4>1. staked[u] <= Cardinality(GamesCreated) /\ Cardinality(GamesCreated) \in Nat
        BY CreatedIsFinite DEF Money, BetOnce
      <4>2. QED
        BY <2>3, <2>13, <4>1
    <3>2. QED
      BY <3>1 DEF BetOnce
  <2>15. PaymentsSound'
    BY <1>1, <2>9, PaymentsKept DEF Money, RequestStep
  <2>16. QED
    BY <2>4, <2>5, <2>10, <2>14, <2>15 DEF Money
<1>5. QED
  BY <1>2, <1>3, <1>4 DEF StartGame

LEMMA GameRequestMoney ==
  ASSUME Inv, Money, NEW q \in Requests, GameRequest(q)
  PROVE  Money'
<1>1. RequestsShaped
  BY DEF Inv
<1>2. ASSUME NEW u \in Users, NEW r \in Runs, StartNextGame(q, u, r)
      PROVE  Money'
  <2>1. Frame(q) /\ req'[q].at = "locked"
    BY <1>1, <1>2, Begun DEF StartNextGame
  <2>2. Pays(q)'
    BY <2>1 DEF Pays, At
  <2>3. UNCHANGED <<run, row, game, credit, staked, strayed>>
    BY <1>2 DEF StartNextGame
  <2>4. QED
    BY <2>1, <2>2, <2>3, MoneyAside DEF RunsStay, GamesStay, RequestStep
<1>3. CASE PlanGame(q)
  <2>1. UNCHANGED <<run, row, game, credit, staked, strayed>>
    BY <1>3 DEF PlanGame, runsState
  <2>2. Frame(q) /\ Pays(q)'
    <3>1. CASE GoesOn(q, "releasing")
      BY <1>1, <3>1, GoneOn
    <3>2. CASE Planned(q, req[q].run)
      <4>1. req = [p \in Requests |-> req[p]] /\ Shaped(req[q])
        BY <1>1 DEF RequestsShaped
      <4>2. Frame(q) /\ req'[q].at = "planned"
        BY <3>2, <4>1 DEF Planned, Shaped, Frame
      <4>3. QED
        BY <4>2 DEF Pays, At
    <3>3. QED
      BY <1>3, <3>1, <3>2 DEF PlanGame
  <2>3. QED
    BY <2>1, <2>2, MoneyAside DEF RunsStay, GamesStay, RequestStep
<1>4. CASE Release(q)
  <2>1. Frame(q) /\ Pays(q)'
    BY <1>1, <1>4, GoneOn DEF Release, Answered
  <2>2. UNCHANGED <<run, row, game, credit, staked, strayed>>
    BY <1>4 DEF Release
  <2>3. QED
    BY <2>1, <2>2, MoneyAside DEF RunsStay, GamesStay, RequestStep
<1>5. QED
  BY <1>2, <1>3, <1>4, StartGameMoney DEF GameRequest

\* A game that is played, ended or not, stays created.
LEMMA GameGoesOn ==
  ASSUME GamesTyped, NEW r \in Runs, NEW k \in Games, NEW x, x.state # "none",
         game' = [game EXCEPT ![r][k] = x]
  PROVE  GamesStay
BY DEF GamesTyped, GamesStay

LEMMA GameTaskMoney ==
  ASSUME Inv, Money, NEW r \in Runs, GameTask(r)
  PROVE  Money'
<1>1. UNCHANGED <<row, credit, staked, strayed, req>> /\ RequestStep
  BY DEF GameTask, LockExpires, GrowOld, ActOnRun, GamePlayed, PlayerKicked, FinalizeRun,
         RequestStep
<1>2. RunsStay
  <2>1. run[r] \in RunRows
    BY DEF Inv, RunsTyped
  <2>2. CASE UNCHANGED run
    BY <2>2 DEF RunsStay
  <2>3. CASE CancelRun(r)
    BY <2>3, CancelStays DEF Inv
  <2>4. CASE run' = [run EXCEPT ![r].status = "completed"]
    <3>1. run'[r].status = "completed" /\ \A s \in Runs \ {r} : run'[s] = run[s]
      BY <2>1, <2>4 DEF Inv, RunsTyped, RunRows
    <3>2. QED
      BY <3>1 DEF RunsStay, NoRun
  <2>5. CASE run' = [run EXCEPT ![r].warned = TRUE, ![r].age = 0]
    <3>1. run'[r].warned = TRUE /\ \A s \in Runs \ {r} : run'[s] = run[s]
      BY <2>1, <2>5 DEF Inv, RunsTyped, RunRows
    <3>2. QED
      BY <3>1 DEF RunsStay, NoRun
  <2>6. CASE GrowOld(r)
    <3>1. run'[r].status = "active" /\ \A s \in Runs \ {r} : run'[s] = run[s]
      BY <2>1, <2>6 DEF Inv, RunsTyped, RunRows, GrowOld, IsActive
    <3>2. QED
      BY <3>1 DEF RunsStay, NoRun
  <2>7. QED
    BY <2>2, <2>3, <2>4, <2>5, <2>6
       DEF GameTask, LockExpires, ActOnRun, GamePlayed, PlayerKicked, FinalizeRun
<1>3. GamesStay
  <2>1. CASE UNCHANGED game
    BY <2>1 DEF GamesStay
  <2>2. ASSUME NEW k \in Games, Ends(r, k)
        PROVE  GamesStay
    <3> DEFINE x == [state |-> "finished", in |-> {}, kicked |-> {}]
    <3>1. x.state # "none" /\ game' = [game EXCEPT ![r][k] = x] /\ GamesTyped
      BY <2>2 DEF Ends, Inv
    <3> HIDE DEF x
    <3>2. QED
      BY <3>1, GameGoesOn
  <2>3. ASSUME NEW k \in Games, NEW u \in Users, PlayerKicked(r, k, u)
        PROVE  GamesStay
    <3>1. CASE game' = [game EXCEPT ![r][k].kicked = game[r][k].kicked \union {u}]
      <4>1. game[r] \in [Games -> GameRows] /\ game[r][k] \in GameRows
        BY DEF Inv, GamesTyped
      <4>2. \A s \in Runs, i \in Games : game'[s][i].state = game[s][i].state
        BY <3>1, <4>1 DEF Inv, GamesTyped, GameRows
      <4>3. QED
        BY <4>2 DEF GamesStay
    <3>2. QED
      BY <2>2, <2>3, <3>1 DEF PlayerKicked
  <2>4. QED
    BY <2>1, <2>2, <2>3 DEF GameTask, LockExpires, GrowOld, ActOnRun, GamePlayed, FinalizeRun,
                            Games
<1>4. QED
  BY <1>1, <1>2, <1>3, MoneyAside

LEMMA MoneyNext == Inv /\ Money /\ [Next]_vars => Money'
<1> SUFFICES ASSUME Inv, Money, [Next]_vars PROVE Money'
  OBVIOUS
<1>1. ASSUME NEW q \in Requests, RoomRequest(q) \/ RunRequest(q) \/ GameRequest(q)
      PROVE  Money'
  BY <1>1, RoomRequestMoney, RunRequestMoney, GameRequestMoney
<1>2. ASSUME NEW r \in Runs, GameTask(r)
      PROVE  Money'
  BY <1>2, GameTaskMoney
<1>3. CASE ScanRuns \/ ScanCut
  BY <1>3, MoneyAside DEF ScanRuns, ScanCut, RunsStay, GamesStay, RequestStep
<1>4. CASE UNCHANGED vars
  BY <1>4, MoneyAside DEF vars, RunsStay, GamesStay, RequestStep
<1>5. QED
  BY <1>1, <1>2, <1>3, <1>4 DEF Next
------------------------------------------------------------------------------
\* The theorems about the credits.

\* What a user has paid for runs is provisioned, was bet, or strayed: no request, cut
\* short or overlapping another, takes or gives a credit beside the books (debit and
\* provision of create_run and join_run, the bets of start_next_game, the refunds of
\* leave_run).
THEOREM CreditsAccounted == Spec => []Accounted
<1>1. Inv /\ Money => Accounted
  BY DEF Money
<1>2. Spec => [](Inv /\ Money)
  BY InitInv, NextInv, MoneyInit, MoneyNext, PTL DEF Spec
<1>3. QED
  BY <1>1, <1>2, PTL

\* Beside their order: nobody bets twice on a game of a run, though two requests may
\* both have read that it is to be created.
THEOREM GamesInOrderAlways == Spec => []GamesInOrder
<1>1. Inv /\ Money => GamesInOrder
  BY DEF Inv, Money, GamesInOrder
<1>2. Spec => [](Inv /\ Money)
  BY InitInv, NextInv, MoneyInit, MoneyNext, PTL DEF Spec
<1>3. QED
  BY <1>1, <1>2, PTL

\* A room is a record of three fields.
RoomShaped ==
  room = [open |-> room.open, creator |-> room.creator, members |-> room.members]

LEMMA RoomStays == Inv /\ RoomShaped /\ [Next]_vars => RoomShaped'
<1> SUFFICES ASSUME Inv, RoomShaped, [Next]_vars PROVE RoomShaped'
  OBVIOUS
<1>1. ASSUME NEW q \in Requests, RoomRequest(q)
      PROVE  RoomShaped'
  <2>1. CASE UNCHANGED room
    BY <2>1 DEF RoomShaped
  <2>2. ASSUME NEW u, Enter(u) PROVE RoomShaped'
    BY <2>2 DEF Enter, RoomShaped
  <2>3. ASSUME NEW u \in Users, CreateRoom(q, u) PROVE RoomShaped'
    BY <2>3 DEF CreateRoom, RoomShaped
  <2>4. CASE RemoveMember(q)
    BY <2>4 DEF RemoveMember, RoomShaped
  <2>5. CASE NameCreator(q)
    BY <2>5 DEF NameCreator, RoomShaped
  <2>6. CASE DeleteRoom(q)
    BY <2>6 DEF DeleteRoom, RoomShaped
  <2>7. QED
    BY <1>1, <2>1, <2>2, <2>3, <2>4, <2>5, <2>6
       DEF RoomRequest, JoinRoom, LeaveRoom, AddCreator, JoinRoomEnd, LookWhoRemains, RequestCut
<1>2. ASSUME NEW q \in Requests, RunRequest(q) \/ GameRequest(q)
      PROVE  UNCHANGED room
  BY <1>2 DEF RunRequest, CreateRun, CreateRunEnd, JoinRun, JoinRunEnd, LeaveRun, Refund, CountLeft,
              CloseRun, GameRequest, StartNextGame, PlanGame, StartGame, Release
<1>3. ASSUME NEW r \in Runs, GameTask(r)
      PROVE  UNCHANGED room
  BY <1>3 DEF GameTask, LockExpires, GrowOld, ActOnRun, GamePlayed, PlayerKicked, FinalizeRun
<1>4. CASE ScanRuns \/ ScanCut \/ UNCHANGED vars
  BY <1>4 DEF ScanRuns, ScanCut, vars, RoomShaped
<1>5. QED
  BY <1>1, <1>2, <1>3, <1>4 DEF Next, RoomShaped

LEMMA RoomInit == Init => RoomShaped
BY DEF Init, RoomShaped

\* What a step may stray.
Races(u) ==
  \/ ~room'.open
  \/ \E q \in Requests : At(q, "refunding") /\ req[q].user = u /\ row[req[q].run][u] # req[q].saw

LEMMA StraysStep ==
  Inv /\ Money /\ RoomShaped /\ [Next]_vars => \A u \in Users : strayed'[u] # strayed[u] => Races(u)
<1> SUFFICES ASSUME Inv, Money, RoomShaped, [Next]_vars, NEW u \in Users, strayed'[u] # strayed[u]
             PROVE  Races(u)
  OBVIOUS
<1>1. ASSUME NEW q \in Requests, RoomRequest(q)
      PROVE  Races(u)
  <2>1. DeleteRoom(q)
    BY <1>1 DEF RoomRequest, CreateRoom, JoinRoom, LeaveRoom, AddCreator, JoinRoomEnd, RemoveMember,
                LookWhoRemains, NameCreator, RequestCut, RoomStep, runsState
  <2>2. ~room'.open
    BY <2>1 DEF DeleteRoom, RoomShaped
  <2>3. QED
    BY <2>2 DEF Races
<1>2. ASSUME NEW q \in Requests, RunRequest(q)
      PROVE  Races(u)
  <2>1. Refund(q)
    BY <1>2 DEF RunRequest, CreateRun, CreateRunEnd, JoinRun, JoinRunEnd, LeaveRun, CountLeft,
                CloseRun, runsState
  <2>2. PICK v \in Users, r \in Runs, n \in 0..TotalCost :
          v = req[q].user /\ r = req[q].run /\ n = req[q].saw
    BY <2>1 DEF Refund, Money, PaymentsSound, Pays
  <2>3. strayed' = [strayed EXCEPT ![v] = strayed[v] + Amount(row[r][v]) - n]
    BY <2>1, <2>2 DEF Refund, Refunded, Amount
  <2>4. strayed[v] \in Int /\ n \in Int
    BY <2>2 DEF Money, CreditsTyped, TotalCost
  <2>5. v = u /\ strayed[u] + Amount(row[r][u]) - n # strayed[u]
    BY <2>3 DEF Money, CreditsTyped
  <2>6. row[r][u] # n
    <3>1. CASE row[r][u] = n
      <4>1. Amount(row[r][u]) = n
        BY <2>2, <3>1 DEF Amount, NoRow
      <4>2. QED
        BY <2>4, <2>5, <4>1
    <3>2. QED
      BY <3>1
  <2>7. QED
    BY <2>1, <2>2, <2>5, <2>6 DEF Refund, Races
<1>3. ASSUME NEW q \in Requests, GameRequest(q)
      PROVE  FALSE
  BY <1>3 DEF GameRequest, StartNextGame, PlanGame, StartGame, Release, runsState
<1>4. ASSUME NEW r \in Runs, GameTask(r)
      PROVE  FALSE
  BY <1>4 DEF GameTask, LockExpires, GrowOld, ActOnRun, GamePlayed, PlayerKicked, FinalizeRun
<1>5. CASE ScanRuns \/ ScanCut \/ UNCHANGED vars
  BY <1>5 DEF ScanRuns, ScanCut, vars
<1>6. QED
  BY <1>1, <1>2, <1>3, <1>4, <1>5 DEF Next

\* Credit strays only where a request to leave has overlapped a step that changed the
\* row it had read, or with the room (leave_run reads what it refunds before it deletes
\* the row; the database deletes the rows with the room).
THEOREM StraysInRaces == Spec => StraysOnlyInRaces
<1>1. Inv /\ Money /\ RoomShaped /\ [Next]_vars
        => [\A u \in Users : strayed'[u] # strayed[u] =>
              \/ ~room'.open
              \/ \E q \in Requests : At(q, "refunding") /\ req[q].user = u
                                     /\ row[req[q].run][u] # req[q].saw]_vars
  BY StraysStep DEF Races
<1>2. QED
  BY <1>1, InitInv, NextInv, MoneyInit, MoneyNext, RoomInit, RoomStays, PTL
     DEF Spec, StraysOnlyInRaces
==============================================================================
