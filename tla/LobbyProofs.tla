----------------------------- MODULE LobbyProofs -----------------------------
(***************************************************************************)
(* Theorems about Lobby for every number of users, seats, backends,         *)
(* invitations, start requests and cuts: the shape of the rows, the seats   *)
(* that the player map names, and the table that is full before the deal.   *)
(***************************************************************************)
EXTENDS Lobby, FiniteSetTheorems, TLAPS

USE UsersAssumption, StakeAssumption, CutsAssumption
------------------------------------------------------------------------------
\* Counting the players.

\* The players are some of the users: they can be counted.
LEMMA SeatedCount == IsFiniteSet(Seated) /\ Cardinality(Seated) \in Nat
<1>1. Seated \in SUBSET Users
  BY DEF Seated
<1>2. IsFiniteSet(Seated)
  BY <1>1, FS_Subset
<1>3. QED
  BY <1>2, FS_CardinalityType

\* Where there is room the next position is a position.
LEMMA RoomIsPosition ==
  ASSUME game.seats \in 2..MaxPlayers, HasRoom PROVE NextPosition \in Positions
  BY SeatedCount DEF HasRoom, NextPosition, Positions

\* A user who takes a seat is one player more.
LEMMA OneMoreSeated ==
  ASSUME seat \in [Users -> Positions \union {NoSeat}], NEW u \in Users, NEW p \in Positions,
         seat[u] = NoSeat, seat' = [seat EXCEPT ![u] = p]
  PROVE  Seated' = Seated \union {u} /\ Cardinality(Seated') = Cardinality(Seated) + 1
<1>1. p # NoSeat
  BY DEF Positions, NoSeat
<1>2. Seated' = Seated \union {u} /\ u \notin Seated
  BY <1>1 DEF Seated
<1>3. QED
  BY <1>2, SeatedCount, FS_AddElement
------------------------------------------------------------------------------
\* The shape of the rows.

\* No request is a request.
LEMMA NoRequestTyped ==
  NoRequest \in [pc : {"idle", "seat", "write"}, backend : Backends \union {Nobody},
                taken : Taken, at : Positions]
  BY DEF NoRequest, Taken, Positions

LEMMA TypeInit == Init => TypeOK
<1> SUFFICES ASSUME Init PROVE TypeOK
  OBVIOUS
<1>1. game \in [status : {"None", "Pending", "Ready", "Active", "Cancelled"},
               seats : 2..MaxPlayers, taken : Taken, lapsed : BOOLEAN]
  BY DEF Init, Taken
<1>2. credit \in [Users -> Int]
  <2>1. Credits \subseteq Int
    OBVIOUS
  <2>2. QED
    BY <2>1 DEF Init
<1>3. /\ accept \in [Users -> [pc : {"idle", "seat", "write"}, backend : Backends \union {Nobody},
                                taken : Taken, at : Positions]]
      /\ scan \in [Backends -> [pc : {"idle", "list", "write"}, list : SUBSET Users]]
  BY NoRequestTyped DEF Init, NoScan
<1>4. QED
  BY <1>1, <1>2, <1>3 DEF Init, TypeOK

\* An accept that has ended leaves no trace.
LEMMA AnswerTyped ==
  ASSUME TypeOK, NEW u \in Users, Answer(u)
  PROVE  /\ accept' \in [Users -> [pc : {"idle", "seat", "write"}, backend : Backends \union {Nobody},
                                   taken : Taken, at : Positions]]
         /\ lock' \in [Backends -> Users \union {Nobody}]
  BY NoRequestTyped DEF Answer, TypeOK

LEMMA TypeStep == TypeOK /\ [Next]_vars => TypeOK'
<1> SUFFICES ASSUME TypeOK, [Next]_vars PROVE TypeOK'
  OBVIOUS
<1> USE DEF TypeOK
<1>1. CASE Create
  <2>1. 0 \in Positions
    BY DEF Positions
  <2>2. game' \in [status : {"None", "Pending", "Ready", "Active", "Cancelled"},
                   seats : 2..MaxPlayers, taken : Taken, lapsed : BOOLEAN]
    BY <1>1, <2>1 DEF Create, TakeStake, NewGame, Sit, Taken
  <2>3. QED
    BY <1>1, <2>1, <2>2 DEF Create, TakeStake, NewGame, Sit, requests
<1>2. CASE InviteBegin
  BY <1>2 DEF InviteBegin, rows
<1>3. CASE InviteEnd
  BY <1>3 DEF InviteEnd, rows
<1>4. CASE Lapse
  BY <1>4 DEF Lapse, requests
<1>5. ASSUME NEW u \in Users, Invite(u) PROVE TypeOK'
  BY <1>5 DEF Invite, MayInvite, WriteInvite, requests
<1>6. ASSUME NEW u \in Users, NEW b \in Backends, AcceptBegin(u, b) PROVE TypeOK'
  <2>1. 0 \in Positions
    BY DEF Positions
  <2>2. QED
    BY <1>6, <2>1 DEF AcceptBegin, rows
<1>7. ASSUME NEW u \in Users, AcceptSeat(u) PROVE TypeOK'
  <2>1. CASE Answer(u)
    BY <1>7, <2>1, AnswerTyped DEF AcceptSeat, rows
  <2>2. CASE ~Answer(u)
    <3> DEFINE r == [accept[u] EXCEPT !.pc = "write", !.at = NextPosition]
    <3>1. HasRoom /\ accept' = [accept EXCEPT ![u] = r] /\ UNCHANGED lock
      BY <1>7, <2>2 DEF AcceptSeat
    <3>2. r \in [pc : {"idle", "seat", "write"}, backend : Backends \union {Nobody},
                taken : Taken, at : Positions]
      <4>1. NextPosition \in Positions
        BY <3>1, RoomIsPosition
      <4>2. accept[u] \in [pc : {"idle", "seat", "write"}, backend : Backends \union {Nobody},
                           taken : Taken, at : Positions]
        OBVIOUS
      <4>3. QED
        BY <4>1, <4>2
    <3>3. QED
      BY <1>7, <3>1, <3>2 DEF AcceptSeat, rows
  <2>3. QED
    BY <2>1, <2>2
<1>8. ASSUME NEW u \in Users, AcceptWrite(u) PROVE TypeOK'
  <2> DEFINE at == accept[u].at
  <2>1. at \in Positions /\ accept[u].taken \in Taken /\ StatusWith(at) \in {"Ready", "Pending"}
    BY DEF StatusWith
  <2>2. [accept[u].taken EXCEPT ![at] = u] \in Taken
    BY <2>1 DEF Taken
  <2>3. /\ credit' \in [Users -> Int]
        /\ seat' \in [Users -> Positions \union {NoSeat}]
        /\ invite' \in [Users -> {"None", "Pending", "Accepted", "Declined"}]
    <3>1. CASE MayStake(u) /\ seat[u] = NoSeat
      <4>1. /\ credit' = [credit EXCEPT ![u] = credit[u] - Bet]
            /\ seat' = [seat EXCEPT ![u] = at]
            /\ invite' = [invite EXCEPT ![u] = "Accepted"]
        BY <1>8, <3>1 DEF AcceptWrite, TakeStake, Sit, WriteInvite
      <4>2. credit[u] - Bet \in Int
        OBVIOUS
      <4>3. QED
        BY <2>1, <4>1, <4>2
    <3>2. CASE ~(MayStake(u) /\ seat[u] = NoSeat)
      BY <1>8, <3>2 DEF AcceptWrite, TakeStake, Sit, WriteInvite
    <3>3. QED
      BY <3>1, <3>2
  <2>4. game' \in [status : {"None", "Pending", "Ready", "Active", "Cancelled"},
                   seats : 2..MaxPlayers, taken : Taken, lapsed : BOOLEAN]
    BY <1>8, <2>1, <2>2 DEF AcceptWrite, TakeStake, Sit, WriteInvite
  <2>5. Answer(u)
    BY <1>8 DEF AcceptWrite, TakeStake, Sit, WriteInvite
  <2>6. QED
    BY <1>8, <2>3, <2>4, <2>5, AnswerTyped DEF AcceptWrite, TakeStake, Sit, WriteInvite
<1>9. ASSUME NEW u \in Users, AcceptCut(u) PROVE TypeOK'
  BY <1>9, AnswerTyped DEF AcceptCut, rows
<1>10. ASSUME NEW u \in Users, DeclineBegin(u) PROVE TypeOK'
  BY <1>10 DEF DeclineBegin, rows
<1>11. ASSUME NEW u \in Users, DeclineWrite(u) PROVE TypeOK'
  BY <1>11 DEF DeclineWrite, WriteInvite
<1>12. ASSUME NEW b \in Backends, ScanStep(b) PROVE TypeOK'
  <2>1. CASE ScanBegin(b)
    BY <2>1 DEF ScanBegin, rows
  <2>2. CASE ScanList(b)
    BY <2>2 DEF ScanList, rows, Seated
  <2>3. CASE ScanWrite(b)
    <3>1. game' \in [status : {"None", "Pending", "Ready", "Active", "Cancelled"},
                     seats : 2..MaxPlayers, taken : Taken, lapsed : BOOLEAN]
      BY <2>3 DEF ScanWrite
    <3>2. credit' \in [Users -> Int]
      <4>1. Bet \in Int /\ credit' = [u \in Users |-> credit[u] + IF u \in scan[b].list THEN Bet ELSE 0]
        BY <2>3 DEF ScanWrite
      <4>2. ASSUME NEW u \in Users
            PROVE  (credit[u] + IF u \in scan[b].list THEN Bet ELSE 0) \in Int
        BY <4>1
      <4>3. QED
        BY <4>1, <4>2
    <3>3. /\ invite' \in [Users -> {"None", "Pending", "Accepted", "Declined"}]
          /\ scan' \in [Backends -> [pc : {"idle", "list", "write"}, list : SUBSET Users]]
      BY <2>3 DEF ScanWrite, NoScan
    <3>4. QED
      BY <2>3, <3>1, <3>2, <3>3 DEF ScanWrite
  <2>4. QED
    BY <1>12, <2>1, <2>2, <2>3 DEF ScanStep
<1>13. ASSUME NEW b \in Backends, ScanCut(b) PROVE TypeOK'
  BY <1>13 DEF ScanCut, NoScan, rows
<1>14. ASSUME NEW r \in Starts, StartBegin(r) PROVE TypeOK'
  BY <1>14 DEF StartBegin, rows
<1>15. ASSUME NEW r \in Starts, StartWrite(r) PROVE TypeOK'
  <2>1. game' = game \/ game' = [game EXCEPT !.status = "Active"]
    BY <1>15 DEF StartWrite, MarkStarted
  <2>2. game' \in [status : {"None", "Pending", "Ready", "Active", "Cancelled"},
                   seats : 2..MaxPlayers, taken : Taken, lapsed : BOOLEAN]
    BY <2>1
  <2>3. dealt' \in Nat /\ start' \subseteq Starts
    BY <1>15 DEF StartWrite, MarkStarted
  <2>4. QED
    BY <1>15, <2>2, <2>3 DEF StartWrite
<1>16. CASE UNCHANGED vars
  BY <1>16 DEF vars, rows, requests
<1>17. QED
  BY <1>1, <1>2, <1>3, <1>4, <1>5, <1>6, <1>7, <1>8, <1>9, <1>10, <1>11, <1>12, <1>13,
     <1>14, <1>15, <1>16 DEF Next, SendInvites, RespondToInvite, StartGame

\* For any number of backends the rows keep their shapes: in particular no player
\* is ever given a position outside the game (AcceptInviteOrchestrator::execute).
THEOREM LobbyTypeCorrect == Spec => []TypeOK
  BY TypeInit, TypeStep, PTL DEF Spec
------------------------------------------------------------------------------
\* The seats, with a mutex in the memory of every backend.

\* An accept in flight holds the mutex of its backend; the players it has read have
\* their seats still, and there are no fewer of them than it has counted.
AcceptsSound ==
  \A u \in Users : accept[u].pc # "idle" =>
    /\ accept[u].backend \in Backends /\ lock[accept[u].backend] = u
    /\ \A v \in Users, p \in Positions : accept[u].taken[p] = v => seat[v] = p
    /\ accept[u].pc = "write" => accept[u].at <= Cardinality(Seated)

\* As long as no accepts have crossed one at most is in flight, and what it has read
\* of the players is still so.
AloneSound ==
  ~crossed =>
    \A u \in Users : accept[u].pc # "idle" =>
      /\ \A v \in Users : accept[v].pc # "idle" => v = u
      /\ accept[u].taken = game.taken
      /\ accept[u].pc = "write" => accept[u].at = NextPosition

\* Before its creation the game has no players and nobody accepts.
EmptyAtFirst ==
  game.status = "None" => Seated = {} /\ \A u \in Users : accept[u].pc = "idle"

\* From the moment it is ready the game has all its players.
FullOnceReady ==
  game.status \in {"Ready", "Active"} \/ start # {} \/ dealt > 0
    => Cardinality(Seated) >= game.seats

\* The accepts that have found room, and may all have found the same.
Writers == {u \in Users : accept[u].pc = "write"}

\* With those that have found room there is one too many at most for every backend
\* but one.
RoomKept == Cardinality(Seated) + Cardinality(Writers) < game.seats + Cardinality(Backends)

Inv ==
  /\ TypeOK /\ SeatsInOrder /\ AcceptsSound /\ AloneSound /\ EmptyAtFirst
  /\ FullOnceReady /\ RoomKept

\* The backends and the accepts that have found room can be counted.
LEMMA WritersCount ==
  /\ IsFiniteSet(Writers) /\ Cardinality(Writers) \in Nat
  /\ Cardinality(Backends) \in Nat \ {0}
<1>1. Writers \in SUBSET Users
  BY DEF Writers
<1>2. IsFiniteSet(Writers)
  BY <1>1, FS_Subset
<1>3. Cardinality(Writers) \in Nat /\ Cardinality(Backends) \in Nat
  BY <1>2, FS_CardinalityType
<1>4. Cardinality(Backends) # 0
  BY FS_EmptySet
<1>5. QED
  BY <1>2, <1>3, <1>4

\* There is one for each backend at most: it holds the backend's mutex.
LEMMA OneWriterEach ==
  ASSUME AcceptsSound PROVE Cardinality(Writers) <= Cardinality(Backends)
<1> DEFINE f == [u \in Writers |-> accept[u].backend]
<1>1. ASSUME NEW u \in Writers PROVE accept[u].backend \in Backends /\ lock[accept[u].backend] = u
  BY DEF Writers, AcceptsSound
<1>2. f \in [Writers -> Backends]
  BY <1>1
<1>3. ASSUME NEW u \in Writers, NEW v \in Writers, f[u] = f[v] PROVE u = v
  BY <1>1, <1>3
<1>4. f \in Injection(Writers, Backends)
  BY <1>2, <1>3 DEF Injection, IsInjective
<1>5. QED
  <2> HIDE DEF f
  <2>1. QED
    BY <1>4, FS_Injection

LEMMA InitInv == Init => Inv
<1> SUFFICES ASSUME Init PROVE Inv
  OBVIOUS
<1>1. TypeOK
  BY TypeInit
<1>2. Seated = {} /\ Cardinality(Seated) = 0
  BY FS_EmptySet DEF Init, Seated
<1>3. \A u \in Users : accept[u].pc = "idle"
  BY DEF Init, NoRequest
<1>4. SeatsInOrder
  <2>1. {seat[u] : u \in Seated} = 0..(Cardinality(Seated) - 1)
    BY <1>2
  <2>2. ASSUME NEW u \in Users, NEW p \in Positions PROVE seat[u] # p /\ game.taken[p] # u
    BY DEF Init, Positions, NoSeat
  <2>3. QED
    BY <2>1, <2>2 DEF SeatsInOrder
<1>5. AcceptsSound /\ AloneSound /\ EmptyAtFirst
  BY <1>2, <1>3 DEF AcceptsSound, AloneSound, EmptyAtFirst
<1>6. FullOnceReady
  BY DEF Init, FullOnceReady
<1>7. RoomKept
  <2>1. Writers = {} /\ Cardinality(Writers) = 0
    BY <1>3, FS_EmptySet DEF Writers
  <2>2. game.seats \in 2..MaxPlayers
    BY DEF Init
  <2>3. QED
    BY <1>2, <2>1, <2>2, WritersCount DEF RoomKept
<1>8. QED
  BY <1>1, <1>4, <1>5, <1>6, <1>7 DEF Inv

\* A step that leaves the players alone, and of the accepts at most ends one.
LEMMA PlayersStay ==
  ASSUME Inv, [Next]_vars, UNCHANGED <<seat, crossed>>,
         game'.taken = game.taken, game'.seats = game.seats,
         \A v \in Users : \/ accept'[v].pc = "idle"
                         \/ /\ accept'[v] = accept[v]
                            /\ accept[v].backend \in Backends
                               => lock'[accept[v].backend] = lock[accept[v].backend],
         game'.status = "None" => game.status = "None",
         game'.status \in {"Ready", "Active"} \/ start' # {} \/ dealt' > 0
           => Cardinality(Seated) >= game.seats
  PROVE  Inv'
<1>1. TypeOK'
  BY TypeStep DEF Inv
<1>2. Seated' = Seated /\ NextPosition' = NextPosition
  BY DEF Seated, NextPosition
<1>3. SeatsInOrder'
  <2>1. {seat[u] : u \in Seated}' = {seat[u] : u \in Seated}
    BY <1>2
  <2>2. QED
    BY <1>2, <2>1 DEF SeatsInOrder, Inv
<1>4. AcceptsSound'
  BY <1>2 DEF AcceptsSound, Inv
<1>5. AloneSound'
  BY <1>2 DEF AloneSound, Inv
<1>6. EmptyAtFirst' /\ FullOnceReady'
  BY <1>2 DEF EmptyAtFirst, FullOnceReady, Inv
<1>7. RoomKept'
  <2>1. Writers' \in SUBSET Writers
    BY DEF Writers
  <2>2. Cardinality(Writers') <= Cardinality(Writers) /\ Cardinality(Writers') \in Nat
    BY <2>1, WritersCount, FS_Subset, FS_CardinalityType
  <2>3. RoomKept /\ game.seats \in 2..MaxPlayers
    BY DEF Inv, TypeOK
  <2>4. QED
    BY <1>2, <2>2, <2>3, SeatedCount, WritersCount DEF RoomKept
<1>8. QED
  BY <1>1, <1>3, <1>4, <1>5, <1>6, <1>7 DEF Inv

\* When an accept is answered the others keep their mutexes.
LEMMA OthersAccept ==
  ASSUME Inv, NEW u \in Users, accept[u].pc # "idle", Answer(u)
  PROVE  /\ accept'[u].pc = "idle"
         /\ \A v \in Users : v # u =>
              /\ accept'[v] = accept[v]
              /\ accept[v].pc # "idle" => lock'[accept[v].backend] = lock[accept[v].backend]
<1>1. /\ accept' = [accept EXCEPT ![u] = NoRequest] /\ DOMAIN accept = Users
      /\ lock' = [lock EXCEPT ![accept[u].backend] = Nobody]
  BY DEF Answer, Inv, TypeOK
<1>2. accept'[u].pc = "idle" /\ \A v \in Users : v # u => accept'[v] = accept[v]
  BY <1>1 DEF NoRequest
<1>3. ASSUME NEW v \in Users, v # u, accept[v].pc # "idle"
      PROVE  lock'[accept[v].backend] = lock[accept[v].backend]
  <2>1. lock[accept[u].backend] = u /\ lock[accept[v].backend] = v
    BY <1>3 DEF Inv, AcceptsSound
  <2>2. accept[v].backend # accept[u].backend
    BY <1>3, <2>1
  <2>3. QED
    BY <1>1, <2>2
<1>4. QED
  BY <1>2, <1>3

LEMMA CreateInv == ASSUME Inv, Create PROVE Inv'
<1>1. TypeOK'
  BY TypeStep DEF Inv, Next, SendInvites, RespondToInvite, StartGame
<1>2. Seated = {} /\ \A u \in Users : accept[u].pc = "idle"
  BY DEF Create, TakeStake, NewGame, Sit, Inv, EmptyAtFirst
<1>3. /\ 0 \in Positions /\ seat \in [Users -> Positions \union {NoSeat}]
      /\ game.taken \in [Positions -> Users \union {Nobody}] /\ game.seats \in 2..MaxPlayers
  BY DEF Positions, Inv, TypeOK, Taken
<1>4. /\ seat' = [seat EXCEPT ![Creator] = 0] /\ game'.taken = [game.taken EXCEPT ![0] = Creator]
      /\ game'.seats = game.seats /\ UNCHANGED <<accept, crossed>>
  BY DEF Create, TakeStake, NewGame, Sit, Inv, TypeOK, requests
<1>5. \A u \in Users, p \in Positions : seat[u] = NoSeat /\ seat[u] # p /\ game.taken[p] # u
  BY <1>2 DEF Seated, Inv, SeatsInOrder, Positions, NoSeat
<1>6. Seated' = {Creator} /\ Cardinality(Seated') = 1
  <2>1. Seated' = {Creator}
    BY <1>3, <1>4, <1>5 DEF Seated, NoSeat
  <2>2. QED
    BY <2>1, FS_Singleton
<1>7. SeatsInOrder'
  <2>1. {seat'[u] : u \in Seated'} = {0}
    BY <1>3, <1>4, <1>6
  <2>2. 0..(Cardinality(Seated') - 1) = {0}
    BY <1>6
  <2>3. ASSUME NEW u \in Users, NEW p \in Positions PROVE seat'[u] = p <=> game'.taken[p] = u
    BY <1>3, <1>4, <1>5
  <2>4. QED
    BY <2>1, <2>2, <2>3 DEF SeatsInOrder
<1>8. AcceptsSound' /\ AloneSound'
  BY <1>2, <1>4 DEF AcceptsSound, AloneSound
<1>9. game'.status = "Pending" /\ start' = {} /\ ~ (dealt' > 0)
  <2>1. ~ (Cardinality(Seated) >= game.seats)
    BY <1>2, <1>3, FS_EmptySet
  <2>2. QED
    BY <2>1 DEF Create, TakeStake, NewGame, Sit, requests, Inv, TypeOK, FullOnceReady
<1>10. EmptyAtFirst' /\ FullOnceReady'
  BY <1>9 DEF EmptyAtFirst, FullOnceReady
<1>11. RoomKept'
  <2>1. Writers' = {} /\ Cardinality(Writers') = 0
    BY <1>2, <1>4, FS_EmptySet DEF Writers
  <2>2. QED
    BY <1>3, <1>4, <1>6, <2>1, WritersCount DEF RoomKept
<1>12. QED
  BY <1>1, <1>7, <1>8, <1>10, <1>11 DEF Inv

LEMMA AcceptBeginInv ==
  ASSUME Inv, NEW b \in Backends, NEW u \in Users, AcceptBegin(u, b)
  PROVE  Inv'
<1>1. TypeOK'
  BY TypeStep DEF Inv, Next, SendInvites, RespondToInvite, StartGame
<1>2. /\ UNCHANGED <<game, seat, start, dealt>> /\ game.status = "Pending"
      /\ accept[u].pc = "idle" /\ lock[b] = Nobody
      /\ crossed' = (crossed \/ Elsewhere(b))
  BY DEF AcceptBegin, rows, Free
<1>3. /\ accept'[u] = [pc |-> "seat", backend |-> b, taken |-> game.taken, at |-> 0]
      /\ lock'[b] = u
      /\ \A v \in Users : v # u => accept'[v] = accept[v]
      /\ \A c \in Backends : c # b => lock'[c] = lock[c]
  BY DEF AcceptBegin, Inv, TypeOK
<1>4. Seated' = Seated /\ NextPosition' = NextPosition
  BY <1>2 DEF Seated, NextPosition
<1>5. AcceptsSound'
  <2> SUFFICES ASSUME NEW v \in Users, accept'[v].pc # "idle"
               PROVE  /\ accept'[v].backend \in Backends /\ lock'[accept'[v].backend] = v
                      /\ \A w \in Users, p \in Positions : accept'[v].taken[p] = w => seat'[w] = p
                      /\ accept'[v].pc = "write" => accept'[v].at <= Cardinality(Seated')
    BY DEF AcceptsSound
  <2>1. CASE v = u
    BY <1>2, <1>3, <2>1 DEF Inv, SeatsInOrder
  <2>2. CASE v # u
    <3>1. accept'[v] = accept[v] /\ accept[v].backend \in Backends /\ lock[accept[v].backend] = v
      BY <1>3, <2>2 DEF Inv, AcceptsSound
    <3>2. accept[v].backend # b
      BY <1>2, <3>1
    <3>3. QED
      BY <1>2, <1>3, <1>4, <3>1, <3>2 DEF Inv, AcceptsSound
  <2>3. QED
    BY <2>1, <2>2
<1>6. AloneSound'
  <2> SUFFICES ASSUME ~crossed' PROVE \A v \in Users : accept'[v].pc # "idle" => v = u
    BY <1>2, <1>3 DEF AloneSound
  <2> SUFFICES ASSUME NEW v \in Users, v # u PROVE accept[v].pc = "idle"
    BY <1>3
  <2>1. accept[v].pc # "idle" => accept[v].backend = b /\ lock[b] = v
    BY <1>2 DEF Elsewhere, Inv, AcceptsSound
  <2>2. QED
    BY <1>2, <2>1
<1>7. SeatsInOrder'
  <2>1. {seat[v] : v \in Seated}' = {seat[v] : v \in Seated}
    BY <1>2, <1>4
  <2>2. QED
    BY <1>2, <1>4, <2>1 DEF SeatsInOrder, Inv
<1>8. EmptyAtFirst' /\ FullOnceReady'
  BY <1>2, <1>4 DEF EmptyAtFirst, FullOnceReady, Inv
<1>9. RoomKept'
  <2>1. Writers' = Writers
    BY <1>2, <1>3 DEF Writers
  <2>2. QED
    BY <1>2, <1>4, <2>1 DEF RoomKept, Inv
<1>10. QED
  BY <1>1, <1>5, <1>6, <1>7, <1>8, <1>9 DEF Inv

\* The end of an accept that has written nothing.
LEMMA AnswerInv ==
  ASSUME Inv, NEW u \in Users, accept[u].pc # "idle", [Next]_vars,
         Answer(u), UNCHANGED <<game, seat, dealt, start, crossed>>
  PROVE  Inv'
<1>1. \A v \in Users : \/ accept'[v].pc = "idle"
                      \/ /\ accept'[v] = accept[v]
                         /\ accept[v].backend \in Backends
                            => lock'[accept[v].backend] = lock[accept[v].backend]
  BY OthersAccept
<1>2. QED
  BY <1>1, PlayersStay DEF Inv, FullOnceReady

LEMMA AcceptSeatInv ==
  ASSUME Inv, NEW u \in Users, AcceptSeat(u)
  PROVE  Inv'
<1>1. CASE Answer(u)
  BY <1>1, AnswerInv DEF AcceptSeat, rows, Next, SendInvites, RespondToInvite, StartGame
<1>2. CASE ~Answer(u)
  <2> DEFINE r == [accept[u] EXCEPT !.pc = "write", !.at = NextPosition]
  <2>1. /\ accept' = [accept EXCEPT ![u] = r]
        /\ UNCHANGED <<lock, game, seat, dealt, start, crossed>>
        /\ HasRoom /\ accept[u].pc # "idle"
    BY <1>2 DEF AcceptSeat, rows
  <2>2. Seated' = Seated /\ NextPosition' = NextPosition /\ NextPosition <= Cardinality(Seated)
    BY <2>1, SeatedCount DEF Seated, NextPosition
  <2>3. /\ accept'[u] = r /\ r.backend = accept[u].backend /\ r.taken = accept[u].taken
        /\ r.at = NextPosition
        /\ \A v \in Users : v # u => accept'[v] = accept[v]
    BY <2>1 DEF Inv, TypeOK
  <2> HIDE DEF r
  <2>4. AcceptsSound'
    BY <2>1, <2>2, <2>3 DEF AcceptsSound, Inv
  <2>5. AloneSound'
    <3>1. AloneSound
      BY DEF Inv
    <3>2. QED
      BY <2>1, <2>2, <2>3, <3>1 DEF AloneSound
  <2>6. SeatsInOrder' /\ FullOnceReady'
    <3>1. {seat[v] : v \in Seated}' = {seat[v] : v \in Seated}
      BY <2>1, <2>2
    <3>2. QED
      BY <2>1, <2>2, <3>1 DEF SeatsInOrder, FullOnceReady, Inv
  <2>7. EmptyAtFirst'
    BY <2>1 DEF EmptyAtFirst, Inv
  <2>8. TypeOK'
    BY TypeStep DEF Inv, Next, SendInvites, RespondToInvite, StartGame
  <2>9. RoomKept'
    <3>1. Cardinality(Writers') <= Cardinality(Backends)
      <4>1. (Cardinality(Writers) <= Cardinality(Backends))'
        BY <2>4, OneWriterEach, PTL
      <4>2. QED
        BY <4>1
    <3>2. Cardinality(Writers') \in Nat
      <4>1. Writers' \in SUBSET Users
        BY DEF Writers
      <4>2. QED
        BY <4>1, FS_Subset, FS_CardinalityType
    <3>3. game.seats \in 2..MaxPlayers /\ Cardinality(Seated) < game.seats
      BY <2>1 DEF HasRoom, Inv, TypeOK
    <3>4. QED
      BY <2>1, <2>2, <3>1, <3>2, <3>3, SeatedCount, WritersCount DEF RoomKept
  <2>10. QED
    BY <2>4, <2>5, <2>6, <2>7, <2>8, <2>9 DEF Inv
<1>3. QED
  BY <1>1, <1>2

LEMMA AcceptWriteInv ==
  ASSUME Inv, NEW u \in Users, AcceptWrite(u)
  PROVE  Inv'
<1>1. /\ Answer(u) /\ accept[u].pc # "idle" /\ accept[u].pc = "write"
      /\ UNCHANGED <<dealt, start, crossed>>
  BY DEF AcceptWrite, TakeStake, Sit, WriteInvite
<1>2. CASE UNCHANGED <<game, seat>>
  BY <1>1, <1>2, AnswerInv DEF Next, SendInvites, RespondToInvite, StartGame
<1>3. CASE ~ UNCHANGED <<game, seat>>
  <2> DEFINE n == Cardinality(Seated)
             at == accept[u].at
             map == accept[u].taken
  <2>1. at \in Positions /\ at \in Nat /\ at <= n /\ n \in Nat /\ game.seats \in 2..MaxPlayers
    BY <1>1, SeatedCount DEF Inv, TypeOK, AcceptsSound, Positions
  <2>2. /\ seat[u] = NoSeat /\ seat' = [seat EXCEPT ![u] = at]
        /\ game' = [game EXCEPT !.taken = [map EXCEPT ![at] = u], !.status = StatusWith(at)]
    BY <1>3 DEF AcceptWrite, TakeStake, Sit, WriteInvite
  <2>3. /\ game'.taken = [map EXCEPT ![at] = u] /\ game'.status = StatusWith(at)
        /\ game'.seats = game.seats
    BY <2>2 DEF Inv, TypeOK
  <2>4. Seated' = Seated \union {u} /\ Cardinality(Seated') = n + 1
    BY <2>1, <2>2, OneMoreSeated DEF Inv, TypeOK
  <2>5. /\ seat \in [Users -> Positions \union {NoSeat}]
        /\ map \in [Positions -> Users \union {Nobody}]
    BY DEF Inv, TypeOK, Taken
  <2>6. at # NoSeat /\ NoSeat \notin Positions /\ u \notin Seated
    BY <2>1, <2>2 DEF NoSeat, Positions, Seated
  <2>7. /\ accept'[u].pc = "idle"
        /\ \A v \in Users : v # u =>
             /\ accept'[v] = accept[v]
             /\ accept[v].pc # "idle" => lock'[accept[v].backend] = lock[accept[v].backend]
    BY <1>1, OthersAccept
  <2>8. \A v \in Users, p \in Positions : seat[v] = p => seat'[v] = p
    BY <2>2, <2>5, <2>6
  <2>9. \A v \in Users, p \in Positions : map[p] = v => seat[v] = p
    BY <1>1 DEF Inv, AcceptsSound
  <2>10. AloneSound => (~crossed => /\ \A v \in Users : accept[v].pc # "idle" => v = u
                                   /\ map = game.taken /\ at = n)
    BY <1>1 DEF AloneSound, NextPosition
  <2>11. ~crossed => /\ \A v \in Users : accept[v].pc # "idle" => v = u
                    /\ map = game.taken /\ at = n
    BY <2>10 DEF Inv
  <2> HIDE DEF n, at, map
  <2>12. SeatsInOrder'
    <3>1. ASSUME NEW v \in Users, NEW p \in Positions, game'.taken[p] = v PROVE seat'[v] = p
      <4>1. CASE p = at
        BY <2>1, <2>2, <2>3, <2>5, <3>1, <4>1
      <4>2. CASE p # at
        <5>1. map[p] = v
          BY <2>1, <2>3, <2>5, <3>1, <4>2
        <5>2. QED
          BY <2>8, <2>9, <5>1
      <4>3. QED
        BY <4>1, <4>2
    <3>2. ASSUME ~crossed
          PROVE  /\ {seat'[v] : v \in Seated'} = 0..(Cardinality(Seated') - 1)
                 /\ \A v \in Users, p \in Positions : seat'[v] = p => game'.taken[p] = v
      <4>1. /\ {seat[v] : v \in Seated} = 0..(n - 1)
            /\ \A v \in Users, p \in Positions : seat[v] = p => game.taken[p] = v
        BY <3>2 DEF Inv, SeatsInOrder, n
      <4>2. {seat'[v] : v \in Seated'} = {seat[v] : v \in Seated} \union {at}
        BY <2>1, <2>2, <2>4, <2>5, <2>6 DEF Seated
      <4>3. 0..(n - 1) \union {at} = 0..n /\ Cardinality(Seated') - 1 = n
        BY <2>1, <2>4, <2>11, <3>2
      <4>4. ASSUME NEW v \in Users, NEW p \in Positions, seat'[v] = p PROVE game'.taken[p] = v
        <5>1. CASE v = u
          BY <2>1, <2>2, <2>3, <2>5, <4>4, <5>1
        <5>2. CASE v # u
          <6>1. seat[v] = p
            BY <2>2, <2>5, <4>4, <5>2
          <6>2. v \in Seated
            BY <2>6, <6>1 DEF Seated
          <6>3. p \in 0..(n - 1)
            BY <4>1, <6>1, <6>2
          <6>4. p # at /\ game.taken[p] = v /\ map = game.taken
            BY <2>1, <2>11, <3>2, <4>1, <6>1, <6>3
          <6>5. QED
            BY <2>3, <2>5, <6>4
        <5>3. QED
          BY <5>1, <5>2
      <4>5. QED
        BY <4>1, <4>2, <4>3, <4>4
    <3>3. QED
      BY <1>1, <3>1, <3>2 DEF SeatsInOrder
  <2>13. AcceptsSound'
    <3>1. ASSUME NEW v \in Users, accept'[v].pc # "idle"
          PROVE  /\ accept'[v].backend \in Backends /\ lock'[accept'[v].backend] = v
                 /\ \A w \in Users, p \in Positions : accept'[v].taken[p] = w => seat'[w] = p
                 /\ accept'[v].pc = "write" => accept'[v].at <= Cardinality(Seated')
      <4>1. v # u /\ accept'[v] = accept[v] /\ lock'[accept[v].backend] = lock[accept[v].backend]
        BY <2>7, <3>1
      <4>2. /\ accept[v].backend \in Backends /\ lock[accept[v].backend] = v
            /\ \A w \in Users, p \in Positions : accept[v].taken[p] = w => seat[w] = p
            /\ accept[v].pc = "write" => accept[v].at <= n
        BY <3>1, <4>1 DEF Inv, AcceptsSound, n
      <4>3. accept[v].at \in Nat
        BY DEF Inv, TypeOK, Positions
      <4>4. accept[v].pc = "write" => accept[v].at <= Cardinality(Seated')
        BY <2>1, <2>4, <4>2, <4>3
      <4>5. QED
        BY <2>8, <4>1, <4>2, <4>4
    <3>2. QED
      BY <3>1 DEF AcceptsSound
  <2>14. AloneSound'
    BY <1>1, <2>7, <2>11 DEF AloneSound
  <2>15. game'.status # "None" /\ EmptyAtFirst'
    BY <2>3 DEF StatusWith, EmptyAtFirst
  <2>16. FullOnceReady'
    <3>1. start # {} \/ dealt > 0 => n >= game.seats
      BY DEF Inv, FullOnceReady, n
    <3>2. game'.status \in {"Ready", "Active"} => at + 1 >= game.seats
      BY <2>3 DEF StatusWith
    <3>3. QED
      BY <1>1, <2>1, <2>3, <2>4, <3>1, <3>2 DEF FullOnceReady
  <2>17. RoomKept'
    <3>1. Writers' = Writers \ {u} /\ u \in Writers
      BY <1>1, <2>7 DEF Writers
    <3>2. Cardinality(Writers') = Cardinality(Writers) - 1
      BY <3>1, WritersCount, FS_RemoveElement
    <3>3. RoomKept
      BY DEF Inv
    <3>4. QED
      BY <2>1, <2>3, <2>4, <3>2, <3>3, WritersCount DEF RoomKept, n
  <2>18. TypeOK'
    BY TypeStep DEF Inv, Next, SendInvites, RespondToInvite, StartGame
  <2>19. QED
    BY <2>12, <2>13, <2>14, <2>15, <2>16, <2>17, <2>18 DEF Inv
<1>4. QED
  BY <1>2, <1>3

\* The scan and the start write nothing of the players.
LEMMA RowStepInv ==
  ASSUME Inv, [Next]_vars,
         \/ Lapse
         \/ \E b \in Backends : ScanStep(b)
         \/ \E r \in Starts : StartBegin(r) \/ StartWrite(r)
  PROVE  Inv'
<1>1. UNCHANGED <<seat, accept, lock, crossed>> /\ game'.taken = game.taken /\ game'.seats = game.seats
  BY DEF Lapse, ScanStep, ScanBegin, ScanList, ScanWrite, StartBegin, StartWrite,
     MarkStarted, rows, requests,
         Inv, TypeOK
<1>2. game'.status = "None" => game.status = "None"
  BY DEF Lapse, ScanStep, ScanBegin, ScanList, ScanWrite, StartBegin, StartWrite,
     MarkStarted, rows, requests,
         Inv, TypeOK
<1>3. CASE Lapse \/ \E b \in Backends : ScanStep(b)
  <2>1. UNCHANGED <<start, dealt>> /\ (game'.status = game.status \/ game'.status = "Cancelled")
    BY <1>3 DEF Lapse, ScanStep, ScanBegin, ScanList, ScanWrite, rows, requests, Inv, TypeOK
  <2>2. QED
    BY <1>1, <1>2, <2>1, PlayersStay DEF Inv, FullOnceReady
<1>4. CASE \E r \in Starts : StartBegin(r) \/ StartWrite(r)
  <2>1. Cardinality(Seated) >= game.seats
    BY <1>4 DEF StartBegin, StartWrite, MarkStarted, Inv, FullOnceReady
  <2>2. QED
    BY <1>1, <1>2, <2>1, PlayersStay
<1>5. QED
  BY <1>3, <1>4

LEMMA StepInv == ASSUME Inv, [Next]_vars PROVE Inv'
<1>1. CASE Create
  BY <1>1, CreateInv
<1>2. CASE InviteBegin \/ InviteEnd
  <2>1. UNCHANGED <<game, seat, accept, lock, start, dealt, crossed>>
    BY <1>2 DEF InviteBegin, InviteEnd, rows
  <2>2. QED
    BY <2>1, PlayersStay DEF Inv, FullOnceReady
<1>3. CASE Lapse
  BY <1>3, RowStepInv
<1>4. ASSUME NEW u \in Users, Invite(u) \/ DeclineBegin(u) \/ DeclineWrite(u) PROVE Inv'
  <2>1. UNCHANGED <<game, seat, accept, lock, start, dealt, crossed>>
    BY <1>4 DEF Invite, MayInvite, WriteInvite, DeclineBegin, DeclineWrite, rows, requests
  <2>2. QED
    BY <2>1, PlayersStay DEF Inv, FullOnceReady
<1>5. ASSUME NEW u \in Users, NEW b \in Backends, AcceptBegin(u, b) PROVE Inv'
  BY <1>5, AcceptBeginInv
<1>6. ASSUME NEW u \in Users, AcceptSeat(u) PROVE Inv'
  BY <1>6, AcceptSeatInv
<1>7. ASSUME NEW u \in Users, AcceptWrite(u) PROVE Inv'
  BY <1>7, AcceptWriteInv
<1>8. ASSUME NEW u \in Users, AcceptCut(u) PROVE Inv'
  BY <1>8, AnswerInv DEF AcceptCut, rows
<1>9. ASSUME NEW b \in Backends, ScanStep(b) PROVE Inv'
  BY <1>9, RowStepInv
<1>10. ASSUME NEW b \in Backends, ScanCut(b) PROVE Inv'
  <2>1. UNCHANGED <<game, seat, accept, lock, start, dealt, crossed>>
    BY <1>10 DEF ScanCut, rows
  <2>2. QED
    BY <2>1, PlayersStay DEF Inv, FullOnceReady
<1>11. ASSUME NEW r \in Starts, StartBegin(r) \/ StartWrite(r) PROVE Inv'
  BY <1>11, RowStepInv
<1>12. CASE UNCHANGED vars
  <2>1. UNCHANGED <<game, seat, accept, lock, start, dealt, crossed>>
    BY <1>12 DEF vars, rows, requests
  <2>2. QED
    BY <2>1, PlayersStay DEF Inv, FullOnceReady
<1>13. QED
  BY <1>1, <1>2, <1>3, <1>4, <1>5, <1>6, <1>7, <1>8, <1>9, <1>10, <1>11,
     <1>12 DEF Next, SendInvites, RespondToInvite, StartGame

LEMMA InvAlways == Spec => []Inv
  BY InitInv, StepInv, PTL DEF Spec

\* Whatever the numbers of users, seats, backends, requests and transactions cut short,
\* the player map of the game row names nobody but at the seat of its player row, though
\* accepts of several backends write over each other's maps; and until two backends have
\* had an accept in flight at once the players sit on the first seats, one each, and the
\* map names them all (accept_invite_lock, AcceptInviteOrchestrator::execute).
THEOREM SeatsAreTakenInOrder == Spec => []SeatsInOrder
<1>1. Inv => SeatsInOrder
  BY DEF Inv
<1>2. QED
  BY <1>1, InvAlways, PTL

\* For any number of backends cards are dealt only when every seat is taken
\* (GameService::start_game), though no write of the game row is conditional; and of the
\* players who accept at once no more than one for each further backend is too many.
THEOREM StartsWhenFull == Spec => []StartedFull
<1>1. ASSUME Inv PROVE StartedFull
  <2>1. RoomKept /\ FullOnceReady /\ game.seats \in 2..MaxPlayers
    BY <1>1 DEF Inv, TypeOK
  <2>2. QED
    BY <2>1, SeatedCount, WritersCount DEF RoomKept, FullOnceReady, StartedFull
<1>2. QED
  BY <1>1, InvAlways, PTL
==============================================================================
