---------------------------- MODULE SessionProofs ----------------------------
(***************************************************************************)
(* Theorems about Session for every number of players, bots and kicks.      *)
(***************************************************************************)
EXTENDS Session, FiniteSetTheorems, FunctionTheorems, WellFoundedInduction, TLAPS

USE NAssumption, CardsAssumption, BetAssumption, PlayersAssumption, BoundsAssumption
------------------------------------------------------------------------------
\* Listings, seats and money.

\* The first m numbers are m.
LEMMA UpTo == ASSUME NEW m \in Nat PROVE IsFiniteSet(1..m) /\ Cardinality(1..m) = m
<1>1. IsFiniteSet(1..m) /\ Cardinality(1..m) = IF 1 > m THEN 0 ELSE m - 1 + 1
  BY FS_Interval
<1>2. QED
  BY <1>1

\* The active players are some of the N players.
LEMMA ActiveCount ==
  IsFiniteSet(Players) /\ Cardinality(Players) = N
    /\ IsFiniteSet(Active) /\ Active \subseteq Players /\ Cardinality(Active) \in 0..N
<1>1. IsFiniteSet(Players) /\ Cardinality(Players) = N
  BY FS_Interval DEF Players
<1>2. Active \subseteq Players
  BY DEF Active
<1>3. IsFiniteSet(Active) /\ Cardinality(Active) <= N
  BY <1>1, <1>2, FS_Subset
<1>4. QED
  BY <1>1, <1>2, <1>3, FS_CardinalityType

\* A listing names every player: a player's index in it is one of 1..N.
LEMMA InjectionIsComplete ==
  ASSUME NEW l \in Injection(1..N, Players), NEW p \in Players
  PROVE  IndexIn(l, p) \in 1..N /\ l[IndexIn(l, p)] = p
<1>1. l \in Injection(1..N, Players)
  OBVIOUS
<1>2. IsFiniteSet(1..N) /\ Cardinality(1..N) = N
  BY FS_Interval
<1>3. l \in Surjection(1..N, Players)
  BY <1>1, <1>2, ActiveCount, FS_Injection
<1>4. DOMAIN l = 1..N /\ \E i \in 1..N : l[i] = p
  BY <1>3 DEF Surjection
<1>5. QED
  BY <1>4 DEF IndexIn

LEMMA ListingIsComplete ==
  ASSUME NEW l \in Listings, NEW p \in Players
  PROVE  /\ l \in Injection(1..N, Players)
         /\ IndexIn(l, p) \in 1..N /\ l[IndexIn(l, p)] = p
<1>1. l \in Injection(1..N, Players)
  BY DEF Listings, Injection, IsInjective
<1>2. QED
  BY <1>1, InjectionIsComplete

\* The seat that the evaluation gives a player is a seat.
LEMMA SeatInIsSeat ==
  ASSUME NEW l \in Listings, NEW p \in Players
  PROVE  SeatIn(l, p) \in Players
<1> DEFINE k == IndexIn(l, p)
           Before == {i \in 1..(k - 1) : l[i] \in Active}
<1>1. k \in 1..N
  BY ListingIsComplete
<1>2. IsFiniteSet(1..(k - 1)) /\ Cardinality(1..(k - 1)) <= N - 1
  <2>1. k - 1 \in Nat /\ k - 1 <= N - 1
    BY <1>1
  <2>2. QED
    BY <2>1, UpTo
<1>3. IsFiniteSet(Before) /\ Cardinality(Before) <= N - 1
  <2>1. Before \subseteq 1..(k - 1)
    OBVIOUS
  <2>2. IsFiniteSet(Before) /\ Cardinality(Before) <= Cardinality(1..(k - 1))
    BY <2>1, <1>2, FS_Subset
  <2>3. Cardinality(1..(k - 1)) \in Nat /\ Cardinality(Before) \in Nat
    BY <2>2, <1>2, FS_CardinalityType
  <2>4. QED
    BY <2>2, <2>3, <1>2
<1>4. Cardinality(Before) \in Nat
  BY <1>3, FS_CardinalityType
<1>5. SeatIn(l, p) = Cardinality(Before)
  BY DEF SeatIn
<1>6. QED
  BY <1>3, <1>4, <1>5 DEF Players

\* A settlement leaves numbers, and pays none but the players it is for.
LEMMA SettlePays ==
  ASSUME NEW ps \in SUBSET Players, NEW w \in Players,
         purse \in [Players -> Int], credit \in [Players -> Int], Settle(ps, w)
  PROVE  /\ purse' \in [Players -> Int] /\ credit' \in [Players -> Int]
         /\ \A p \in Players \ ps : purse'[p] = purse[p] /\ credit'[p] = credit[p]
<1> DEFINE gain(p) == Bet + Payment(p, w, Cardinality(ps), Bet)
           add(f, qs) == [p \in Players |-> f[p] + IF p \in qs THEN gain(p) ELSE 0]
<1>1. Cardinality(ps) \in Nat
  BY ActiveCount, FS_Subset, FS_CardinalityType
<1>2. Bet * (Cardinality(ps) - 1) \in Int /\ -Bet \in Int
  BY <1>1
<1>3. \A p \in Players : gain(p) \in Int
  BY <1>2 DEF Payment
<1>4. purse' = add(purse, ps) /\ credit' = add(credit, ps \cap Users \cap humans)
  BY DEF Settle
<1> HIDE DEF gain
<1>5. QED
  BY <1>3, <1>4

\* Among some numbers up to N one is the greatest.
LEMMA GreatestOf ==
  ASSUME NEW T \in SUBSET (1..N), T # {}
  PROVE  \E n \in T : \A m \in T : m <= n
<1> DEFINE U == {N - n : n \in T}
<1>1. U \subseteq Nat /\ U # {}
  <2>1. \A n \in T : n \in 1..N /\ N - n \in Nat
    OBVIOUS
  <2>2. PICK n \in T : TRUE
    OBVIOUS
  <2>3. N - n \in U
    BY <2>2
  <2>4. QED
    BY <2>1, <2>3
<1>2. PICK u \in U : \A v \in U : ~ (<<v, u>> \in OpToRel(<, Nat))
  BY <1>1, WFMin, NatLessThanWellFounded
<1>3. PICK n \in T : u = N - n
  OBVIOUS
<1>4. \A m \in T : ~ (N - m < N - n)
  BY <1>1, <1>2, <1>3 DEF OpToRel
<1>5. QED
  BY <1>4
------------------------------------------------------------------------------
\* The invariant: types, the round of a game in play, and what the scan has read
\* of the player it is about to warn or to kick.
RollInGame == game.status = "Active" => game.roll <= CARDS_PER_PLAYER

ScanSound ==
  scan.pc \in {"warn", "kick", "write"} =>
    scan.target \in humans /\ scan.list \in [1..N -> Players]

Inv == TypeOK /\ RollInGame /\ ScanSound

\* The scan at rest is a scan.
LEMMA RestIsScan == Rest \in Scan /\ Rest.pc = "rest"
<1>1. 0 \in Players /\ 1 \in 1..(CARDS_PER_PLAYER + 1) /\ Nobody \in Players \union {Nobody}
  BY DEF Players
<1>2. Rest.row \in Row
  BY <1>1 DEF Rest, Row, Status, Fresh, KickStale
<1>3. <<>> \in Seq(Players) /\ [p \in Players |-> 0] \in [Players -> Players]
        /\ [p \in Players |-> 0] \in [Players -> Int]
  BY <1>1
<1>4. QED
  BY <1>1, <1>2, <1>3 DEF Rest, Scan

\* A game starts in the invariant.
LEMMA InitInv == Init => Inv
<1> SUFFICES ASSUME Init PROVE Inv
  OBVIOUS
<1>1. PICK r \in Players, c \in (IF Solo THEN {} ELSE SpecialHands) \union {Nobody} :
        game = [status |-> "Active", rank |-> r, roll |-> 1, winner |-> Nobody,
                claim |-> c, warned |-> FALSE, idle |-> Fresh]
  BY DEF Init
<1>2. game \in Row /\ RollInGame
  BY <1>1 DEF Row, Status, Fresh, KickStale, RollInGame
<1>3. scan \in Scan /\ ScanSound
  BY RestIsScan DEF Init, ScanSound
<1>4. chain \subseteq Players \ humans
  BY <1>1 DEF Init
<1>5. position \in [Players -> Players] /\ left \in [Players -> 0..CARDS_PER_PLAYER]
        /\ purse \in [Players -> Int] /\ credit \in [Players -> Int]
  BY DEF Init
<1>6. kicked \subseteq Players /\ humans \subseteq Players /\ trick \in Seq(Players) /\ alerted \subseteq humans
        /\ crashes \in Nat
  BY DEF Init
<1>7. QED
  BY <1>2, <1>3, <1>4, <1>5, <1>6 DEF Inv, TypeOK

\* A card that leaves the round open passes the turn to a seat.
LEMMA PlayOnInv ==
  ASSUME Inv, NEW p \in Players, PlayOn(p) PROVE Inv'
<1> DEFINE next == NextSeat(position[p], Cardinality(Active))
<1>1. next \in Players
  <2>1. Len(trick) \in Nat /\ Cardinality(Active) \in 0..N
    BY ActiveCount DEF Inv, TypeOK
  <2>2. Cardinality(Active) \in 1..N
    BY <2>1 DEF PlayOn, Completes
  <2>3. position[p] \in Nat
    BY DEF Inv, TypeOK, Players
  <2>4. \A n \in Nat, k \in 1..N : (n + 1) % k \in 0..(N - 1)
    OBVIOUS
  <2>5. QED
    BY <2>2, <2>3, <2>4 DEF NextSeat, Players
<1> HIDE DEF next
<1>2. game' \in Row /\ RollInGame'
  <2>1. game' = [game EXCEPT !.rank = next, !.idle = Fresh] /\ game \in Row
    BY DEF PlayOn, next, Inv, TypeOK
  <2>2. Fresh \in Fresh..KickStale
    BY DEF Fresh, KickStale
  <2>3. game' \in Row
    BY <1>1, <2>1, <2>2 DEF Row
  <2>4. game'.status = game.status /\ game'.roll = game.roll
    BY <2>1 DEF Row
  <2>5. QED
    BY <2>3, <2>4 DEF Inv, RollInGame
<1>3. left' \in [Players -> 0..CARDS_PER_PLAYER]
  <2>1. left' = [left EXCEPT ![p] = left[p] - 1] /\ left[p] > 0
    BY DEF PlayOn, MayPlay
  <2>2. left \in [Players -> 0..CARDS_PER_PLAYER]
    BY DEF Inv, TypeOK
  <2>3. left[p] - 1 \in 0..CARDS_PER_PLAYER
    BY <2>1, <2>2
  <2>4. QED
    BY <2>1, <2>2, <2>3
<1>4. trick' \in Seq(Players)
  BY DEF PlayOn, Inv, TypeOK
<1>5. chain' \subseteq Players \ humans'
  BY ActiveCount DEF PlayOn, seats, Scheduled, Inv, TypeOK
<1>6. QED
  BY <1>2, <1>3, <1>4, <1>5 DEF PlayOn, Inv, TypeOK, ScanSound, seats, money

\* The card that completes a round gives the turn to the winner's seat, and a
\* game that is not over has rounds left.
LEMMA PlayLastInv ==
  ASSUME Inv, NEW p \in Players, PlayLast(p) PROVE Inv'
<1> DEFINE ends == game.roll + 1 > CARDS_PER_PLAYER
<1>1. PICK w \in Players, l \in Listings :
        /\ w \in Active
        /\ game' = [game EXCEPT !.rank = SeatIn(l, w), !.winner = w, !.roll = @ + 1,
                                !.idle = Fresh,
                                !.status = IF ends THEN "Finished" ELSE @]
        /\ IF ends THEN Settle(Active, w) /\ chain' = chain \ {p}
           ELSE chain' = Scheduled(p, w) /\ UNCHANGED money
  BY ActiveCount DEF PlayLast
<1>2. SeatIn(l, w) \in Players
  BY SeatInIsSeat
<1>3. game' \in Row /\ RollInGame'
  <2>1. game.status = "Active" /\ game.roll \in 1..CARDS_PER_PLAYER
    BY DEF PlayLast, MayPlay, Inv, RollInGame, TypeOK, Row
  <2>2. game.roll + 1 \in 1..(CARDS_PER_PLAYER + 1) /\ "Finished" \in Status
    BY <2>1 DEF Status, Terminal
  <2>3. game \in Row /\ Fresh \in Fresh..KickStale
    BY DEF Inv, TypeOK, Fresh, KickStale
  <2>4. game' \in Row
    BY <1>1, <1>2, <2>1, <2>2, <2>3 DEF Row
  <2>5. game'.roll = game.roll + 1 /\ (game'.status = "Active" => ~ends)
    BY <1>1, <2>3 DEF Row
  <2>6. QED
    BY <2>1, <2>4, <2>5 DEF RollInGame
<1>4. left' \in [Players -> 0..CARDS_PER_PLAYER]
  <2>1. left \in [Players -> 0..CARDS_PER_PLAYER] /\ left[p] > 0
    BY DEF PlayLast, MayPlay, Inv, TypeOK
  <2>2. left' = [left EXCEPT ![p] = @ - 1]
    BY DEF PlayLast
  <2>3. QED
    BY <2>1, <2>2
<1>5. trick' \in Seq(Players)
  BY DEF PlayLast
<1>6. chain' \subseteq Players \ humans'
  BY <1>1 DEF PlayLast, seats, Scheduled, Inv, TypeOK
<1>7. purse' \in [Players -> Int] /\ credit' \in [Players -> Int]
  BY <1>1, ActiveCount, SettlePays DEF money, Inv, TypeOK
<1>8. QED
  BY <1>3, <1>4, <1>5, <1>6, <1>7 DEF PlayLast, Inv, TypeOK, ScanSound, seats

\* A granted claim ends the game.
LEMMA ClaimInv ==
  ASSUME Inv, NEW p \in Players, Claim(p) PROVE Inv'
<1>1. game \in Row /\ Fresh \in Fresh..KickStale /\ "Finished" \in Status
  BY DEF Inv, TypeOK, Fresh, KickStale, Status, Terminal
<1>2. game' = [game EXCEPT !.status = "Finished", !.winner = p, !.claim = Nobody,
                          !.idle = Fresh]
  BY DEF Claim
<1>3. game' \in Row
  BY <1>1, <1>2 DEF Row
<1>4. RollInGame'
  BY <1>1, <1>2 DEF Row, RollInGame
<1>5. purse' \in [Players -> Int] /\ credit' \in [Players -> Int]
  BY SettlePays DEF Claim, Inv, TypeOK
<1>6. QED
  BY <1>3, <1>4, <1>5 DEF Claim, Inv, TypeOK, ScanSound, seats, cards

\* Declining, ageing and the steps of the bots touch one field or one set.
LEMMA PlainInv ==
  ASSUME Inv, NEW p \in Players,
         Decline(p) \/ Age \/ BotGivesUp(p) \/ Crash \/ RecoverBot
  PROVE  Inv'
<1>1. game \in Row
  BY DEF Inv, TypeOK
<1>2. CASE Decline(p)
  <2>1. game' = [game EXCEPT !.claim = Nobody]
    BY <1>2 DEF Decline
  <2>2. game' \in Row /\ game'.status = game.status /\ game'.roll = game.roll
    BY <1>1, <2>1 DEF Row
  <2>3. QED
    BY <1>2, <2>2 DEF Decline, Inv, TypeOK, RollInGame, ScanSound, seats, cards, money
<1>3. CASE Age
  <2>1. game' = [game EXCEPT !.idle = @ + 1] /\ game.idle + 1 \in Fresh..KickStale
    BY <1>1, <1>3 DEF Age, Row, Fresh, KickStale
  <2>2. game' \in Row /\ game'.status = game.status /\ game'.roll = game.roll
    BY <1>1, <2>1 DEF Row
  <2>3. QED
    BY <1>3, <2>2 DEF Age, Inv, TypeOK, RollInGame, ScanSound, seats, cards, money
<1>4. CASE BotGivesUp(p)
  BY <1>4 DEF BotGivesUp, Inv, TypeOK, RollInGame, ScanSound, seats, cards, money
<1>5. CASE Crash
  BY <1>5 DEF Crash, Inv, TypeOK, RollInGame, ScanSound, seats, cards, money
<1>6. CASE RecoverBot
  <2>1. PICK l \in Listings : \E q \in StalledTurn(l) \ humans : chain' = chain \union {q}
    BY <1>6 DEF RecoverBot
  <2>2. StalledTurn(l) \subseteq Players
    BY DEF StalledTurn, Listings
  <2>3. chain' \subseteq Players \ humans'
    BY <1>6, <2>1, <2>2 DEF RecoverBot, seats, Inv, TypeOK
  <2>4. QED
    BY <1>6, <2>3 DEF RecoverBot, Inv, TypeOK, RollInGame, ScanSound, seats, cards, money
<1>7. QED
  BY <1>2, <1>3, <1>4, <1>5, <1>6

\* What the scan reads is what the invariant says of it.
LEMMA ScanReadsInv ==
  ASSUME Inv, FindStalled \/ ReadPlayers \/ BeginKick \/ ScanCut PROVE Inv'
<1>1. scan \in Scan /\ game \in Row
  BY DEF Inv, TypeOK
<1>2. CASE FindStalled
  <2>1. scan' = [Rest EXCEPT !.pc = "players", !.row = game]
    BY <1>2 DEF FindStalled
  <2>2. scan' \in Scan /\ scan'.pc = "players"
    BY <1>1, <2>1, RestIsScan DEF Scan
  <2>3. QED
    BY <1>2, <2>2 DEF FindStalled, Inv, TypeOK, RollInGame, ScanSound, seats, cards, money
<1>3. CASE ReadPlayers
  <2>1. PICK l \in Listings :
          \/ scan' = Rest
          \/ LET i == scan.row.rank + 1 IN
               /\ i \in 1..N /\ l[i] \in humans
               /\ scan' = [scan EXCEPT !.pc = Verdict(scan.row), !.list = l,
                                      !.seat = position, !.purse = purse, !.target = l[i]]
    BY <1>3 DEF ReadPlayers
  <2>2. l \in [1..N -> Players]
    BY DEF Listings
  <2>3. l \in Seq(Players)
    BY <2>2
  <2>4. Verdict(scan.row) \in {"warn", "kick", "rest"}
    BY DEF Verdict
  <2>5. position \in [Players -> Players] /\ purse \in [Players -> Int]
    BY DEF Inv, TypeOK
  <2>6. scan' \in Scan /\ ScanSound'
    <3>1. CASE scan' = Rest
      BY <3>1, RestIsScan DEF ScanSound
    <3>2. CASE scan' # Rest
      <4>1. PICK q \in humans :
              scan' = [scan EXCEPT !.pc = Verdict(scan.row), !.list = l,
                                  !.seat = position, !.purse = purse, !.target = q]
        BY <2>1, <3>2
      <4>2. q \in Players
        BY DEF Inv, TypeOK
      <4>3. scan' \in Scan
        BY <1>1, <2>3, <2>4, <2>5, <4>1, <4>2 DEF Scan
      <4>4. scan'.target = q /\ scan'.list = l
        BY <1>1, <4>1 DEF Scan
      <4>5. QED
        BY <2>2, <4>3, <4>4, <1>3 DEF ScanSound, ReadPlayers, seats
    <3>3. QED
      BY <3>1, <3>2
  <2>7. QED
    BY <1>3, <2>6 DEF ReadPlayers, Inv, TypeOK, RollInGame, seats, cards, money
<1>4. CASE BeginKick
  <2>1. \/ scan' = Rest
        \/ scan' = [scan EXCEPT !.pc = "write", !.row = game] /\ scan.pc = "kick"
    BY <1>4 DEF BeginKick
  <2>2. scan' \in Scan /\ ScanSound'
    <3>1. CASE scan' = Rest
      BY <3>1, RestIsScan DEF ScanSound
    <3>2. CASE scan' # Rest
      <4>1. scan' = [scan EXCEPT !.pc = "write", !.row = game] /\ scan.pc = "kick"
        BY <2>1, <3>2
      <4>2. scan' \in Scan /\ scan'.target = scan.target /\ scan'.list = scan.list
        BY <1>1, <4>1 DEF Scan
      <4>3. QED
        BY <4>1, <4>2, <1>4 DEF Inv, ScanSound, BeginKick, seats
    <3>3. QED
      BY <3>1, <3>2
  <2>3. QED
    BY <1>4, <2>2 DEF BeginKick, Inv, TypeOK, RollInGame, seats, cards, money
<1>5. CASE ScanCut
  <2>1. scan' \in Scan /\ ScanSound'
    BY <1>5, RestIsScan DEF ScanCut, ScanSound
  <2>2. QED
    BY <1>5, <2>1 DEF ScanCut, Inv, TypeOK, RollInGame, seats, cards, money
<1>6. QED
  BY <1>2, <1>3, <1>4, <1>5

\* The rows that remain are N - 1 players.
LEMMA RemainingPlayers ==
  ASSUME Inv, scan.pc = "write"
  PROVE  /\ Remaining \in [1..(N - 1) -> Players] /\ Len(Remaining) = N - 1
         /\ scan.target \in humans
<1>1. scan.list \in [1..N -> Players] /\ scan.target \in humans
  BY DEF Inv, ScanSound
<1>2. \A i \in 1..(N - 1) : scan.list[i] \in Players /\ scan.list[i + 1] \in Players
  BY <1>1
<1>3. Remaining \in [1..(N - 1) -> Players]
  BY <1>2 DEF Remaining
<1>4. Remaining \in Seq(Players) /\ DOMAIN Remaining = 1..(N - 1)
  BY <1>3
<1>5. QED
  BY <1>1, <1>3, <1>4

\* What every kick writes keeps the invariant, with any row it may write.
LEMMA KickedInv ==
  ASSUME Inv, scan.pc = "write", NEW g \in Row, Kicked(g),
         g.status = "Active" => g.roll <= CARDS_PER_PLAYER,
         position' \in [Players -> Players], purse' \in [Players -> Int],
         chain' \subseteq Players \ humans'
  PROVE  Inv'
<1>1. game' = [g EXCEPT !.warned = FALSE, !.idle = Fresh] /\ Fresh \in Fresh..KickStale
  BY DEF Kicked, Fresh, KickStale
<1>2. game' \in Row /\ game'.status = g.status /\ game'.roll = g.roll
  BY <1>1 DEF Row
<1>3. kicked' \subseteq Players
  BY RemainingPlayers DEF Kicked, Inv, TypeOK
<1>4. scan' \in Scan /\ ScanSound'
  BY RestIsScan DEF Kicked, ScanSound
<1>5. QED
  BY <1>2, <1>3, <1>4 DEF Kicked, Inv, TypeOK, RollInGame, cards

\* The turn after a kick is a seat of those who remain.
LEMMA RankAfterIsSeat ==
  ASSUME Inv, scan.pc = "write"
  PROVE  RankAfter(Remaining) \in Players /\ RankAfter(Remaining) \in 0..(N - 2)
<1> DEFINE rest == Remaining
           rank == scan.row.rank
           from == scan.seat[scan.target]
           same == {i \in DOMAIN rest : scan.seat[rest[i]] = rank}
<1>1. rest \in [1..(N - 1) -> Players] /\ scan.target \in Players
  BY RemainingPlayers DEF Inv, TypeOK
<1>2. rank \in 0..(N - 1) /\ from \in 0..(N - 1)
  BY <1>1 DEF Inv, TypeOK, Scan, Row, Players
<1>3. CASE same # {}
  <2>1. same \in SUBSET (1..N) /\ same \subseteq 1..(N - 1)
    BY <1>1
  <2>2. \E i \in same : \A j \in same : j <= i
    BY <1>3, <2>1, GreatestOf
  <2>3. (CHOOSE i \in same : \A j \in same : j <= i) \in same
    BY <2>2
  <2>4. RankAfter(rest) = (CHOOSE i \in same : \A j \in same : j <= i) - 1
    BY <1>3 DEF RankAfter
  <2> HIDE DEF same
  <2>5. \E t : t \in same /\ RankAfter(rest) = t - 1
    BY <2>3, <2>4
  <2>6. PICK t : t \in same /\ RankAfter(rest) = t - 1
    BY <2>5
  <2>7. t \in 1..(N - 1)
    BY <2>1, <2>6
  <2>8. QED
    BY <2>6, <2>7 DEF Players
<1>4. CASE same = {}
  <2>1. RankAfter(rest) = IF rank = from THEN 0 ELSE IF rank > from THEN rank - 1 ELSE rank
    BY <1>4 DEF RankAfter
  <2>2. QED
    BY <1>2, <2>1 DEF Players
<1>5. QED
  BY <1>3, <1>4

\* A kick keeps the invariant: it ends the game, or deals the seats anew.
LEMMA KickInv == ASSUME Inv, Kick PROVE Inv'
<1>1. game \in Row /\ "Finished" \in Status /\ Nobody \in Players \union {Nobody}
  BY DEF Inv, TypeOK, Status, Terminal
<1>2. scan.pc = "write"
  BY DEF Kick, KickFromSolo, KickToForfeit, KickAndReseat
<1>3. CASE KickFromSolo
  <2> DEFINE g == [game EXCEPT !.status = "Finished", !.winner = Nobody]
  <2>1. g \in Row /\ g.status # "Active"
    BY <1>1 DEF Row
  <2>2. Kicked(g) /\ UNCHANGED <<position, purse, chain>>
    BY <1>3 DEF KickFromSolo
  <2>3. position' \in [Players -> Players] /\ purse' \in [Players -> Int]
        /\ chain' \subseteq Players \ humans'
    BY <2>2 DEF Kicked, Inv, TypeOK
  <2> HIDE DEF g
  <2>4. QED
    BY <1>2, <2>1, <2>2, <2>3, KickedInv
<1>4. CASE KickToForfeit
  <2> DEFINE w == Remaining[1]
             g == [game EXCEPT !.status = "Finished", !.winner = w]
  <2>1. w \in Players
    BY <1>2, RemainingPlayers
  <2>2. g \in Row /\ g.status # "Active"
    BY <1>1, <2>1 DEF Row
  <2>3. /\ Kicked(g) /\ UNCHANGED <<position, chain>>
        /\ purse' = IF w \in Users \cap humans THEN [purse EXCEPT ![w] = scan.purse[w] + Bet] ELSE purse
    BY <1>4 DEF KickToForfeit
  <2>4. scan.purse[w] + Bet \in Int /\ purse \in [Players -> Int]
    <3>1. scan \in Scan /\ purse \in [Players -> Int]
      BY DEF Inv, TypeOK
    <3>2. scan.purse[w] \in Int
      BY <2>1, <3>1 DEF Scan
    <3>3. QED
      BY <3>1, <3>2, BetAssumption
  <2>5. position' \in [Players -> Players] /\ purse' \in [Players -> Int]
        /\ chain' \subseteq Players \ humans'
    BY <2>3, <2>4 DEF Kicked, Inv, TypeOK
  <2> HIDE DEF g
  <2>6. QED
    BY <1>2, <2>2, <2>3, <2>5, KickedInv
<1>5. CASE KickAndReseat
  <2> DEFINE rest == Remaining
             rank == RankAfter(rest)
             g == [game EXCEPT !.rank = rank]
  <2>1. rest \in [1..(N - 1) -> Players] /\ rank \in Players
    BY <1>2, RemainingPlayers, RankAfterIsSeat
  <2>2. /\ Kicked(g) /\ UNCHANGED purse
        /\ position' = [p \in Players |->
                          IF p \in Elements(rest) THEN IndexIn(rest, p) - 1 ELSE position[p]]
        /\ chain' = chain \union ({rest[i] : i \in {rank + 1} \cap DOMAIN rest} \ humans)
    BY <1>5 DEF KickAndReseat
  <2>3. g \in Row /\ g.status = game.status /\ g.roll = game.roll
    <3> HIDE DEF rank
    <3>1. QED
      BY <1>1, <2>1 DEF Row
  <2>4. \A p \in Elements(rest) : IndexIn(rest, p) \in 1..(N - 1)
    BY <2>1 DEF Elements, IndexIn
  <2>5. position' \in [Players -> Players]
    <3>1. \A p \in Elements(rest) : IndexIn(rest, p) - 1 \in Players
      BY <2>4 DEF Players
    <3>2. position \in [Players -> Players]
      BY DEF Inv, TypeOK
    <3> HIDE DEF rest
    <3>3. QED
      BY <2>2, <3>1, <3>2
  <2>6. chain' \subseteq Players \ humans'
    <3> HIDE DEF rank
    <3>1. {rest[i] : i \in {rank + 1} \cap DOMAIN rest} \subseteq Players
      BY <2>1
    <3>2. QED
      BY <2>2, <3>1 DEF Kicked, Inv, TypeOK
  <2>7. purse' \in [Players -> Int]
    BY <2>2 DEF Inv, TypeOK
  <2>8. g.status = "Active" => g.roll <= CARDS_PER_PLAYER
    BY <2>3 DEF Inv, RollInGame
  <2> HIDE DEF g
  <2>9. QED
    BY <1>2, <2>2, <2>3, <2>5, <2>6, <2>7, <2>8, KickedInv
<1>6. QED
  BY <1>3, <1>4, <1>5 DEF Kick

\* A warning marks the game row.
LEMMA WarnInv == ASSUME Inv, Warn PROVE Inv'
<1>1. scan.pc = "warn" /\ game' = [game EXCEPT !.warned = TRUE] /\ game \in Row
  BY DEF Warn, Inv, TypeOK
<1>2. game' \in Row /\ game'.status = game.status /\ game'.roll = game.roll
  BY <1>1 DEF Row
<1>3. scan' \in Scan /\ ScanSound'
  BY RestIsScan DEF Warn, ScanSound
<1>4. alerted' \subseteq humans'
  BY <1>1 DEF Warn, seats, Inv, TypeOK, ScanSound
<1>5. QED
  BY <1>2, <1>3, <1>4 DEF Warn, Inv, TypeOK, RollInGame, seats, cards, money

\* Every step keeps the invariant.
LEMMA StepInv == Inv /\ [Next]_vars => Inv'
<1> SUFFICES ASSUME Inv, [Next]_vars PROVE Inv'
  OBVIOUS
<1>1. ASSUME NEW p \in Players, PlayCard(p) PROVE Inv'
  BY <1>1, PlayOnInv, PlayLastInv DEF PlayCard
<1>2. ASSUME NEW p \in Players, HumanActs(p) \/ BotActs(p) PROVE Inv'
  BY <1>1, <1>2, ClaimInv, PlainInv DEF HumanActs, BotActs, BotPlays
<1>3. CASE ScanStep
  BY <1>3, ScanReadsInv, WarnInv, KickInv DEF ScanStep
<1>4. CASE RecoverBot \/ Age \/ Crash
  <2>1. 0 \in Players
    BY DEF Players
  <2>2. QED
    BY <1>4, <2>1, PlainInv
<1>5. CASE ScanCut
  BY <1>5, ScanReadsInv
<1>6. CASE UNCHANGED vars
  BY <1>6 DEF vars, Inv, TypeOK, RollInGame, ScanSound
<1>7. QED
  BY <1>2, <1>3, <1>4, <1>5, <1>6 DEF Next

\* The rows, the seats, the chains and what the scan holds keep their shapes, with
\* any number of players, bots and kicks: the turn is always a seat, though the
\* seats are renumbered under it (lifecycle.rs).
THEOREM SessionTypeCorrect == Spec => []TypeOK
<1>1. Inv => TypeOK
  BY DEF Inv
<1>2. QED
  BY InitInv, StepInv, <1>1, PTL DEF Spec
------------------------------------------------------------------------------
\* Money.

\* Of two players the kick leaves one, and the game is over with it.
LastOfTwo == (N = 2 /\ kicked # {}) => game.status # "Active" /\ scan.pc # "write"

OnlyByClaim ==
  \A p \in kicked :
    (purse'[p] > purse[p] \/ credit'[p] > credit[p]) => game.claim = p

\* Money that stays where it is pays nobody.
LEMMA UnchangedPaysNobody ==
  ASSUME Inv, UNCHANGED money PROVE OnlyByClaim
<1>1. purse \in [Players -> Int] /\ credit \in [Players -> Int] /\ kicked \subseteq Players
  BY DEF Inv, TypeOK
<1>2. \A p \in kicked : ~ (purse[p] > purse[p] \/ credit[p] > credit[p])
  BY <1>1
<1>3. QED
  BY <1>2 DEF OnlyByClaim, money

\* A card never pays a kicked player and opens no game again.
LEMMA PlayPaysActive ==
  ASSUME Inv, LastOfTwo, NEW p \in Players, PlayCard(p)
  PROVE  LastOfTwo' /\ OnlyByClaim
<1>1. game \in Row /\ game.status = "Active" /\ kicked' = kicked /\ scan' = scan
  <2>1. game \in Row
    BY DEF Inv, TypeOK
  <2>2. MayPlay(p) /\ UNCHANGED <<seats, scan>>
    BY DEF PlayCard, PlayOn, PlayLast
  <2>3. QED
    BY <2>1, <2>2 DEF MayPlay, seats
<1>2. CASE PlayOn(p)
  BY <1>1, <1>2, UnchangedPaysNobody DEF PlayOn, LastOfTwo
<1>3. CASE PlayLast(p)
  <2>2. PICK w \in Players : Settle(Active, w) \/ UNCHANGED money
    BY <1>3, ActiveCount DEF PlayLast
  <2>3. purse \in [Players -> Int] /\ credit \in [Players -> Int] /\ kicked \subseteq Players
    BY DEF Inv, TypeOK
  <2>4. ASSUME Settle(Active, w) PROVE OnlyByClaim
    <3>1. \A q \in Players \ Active : purse'[q] = purse[q] /\ credit'[q] = credit[q]
      BY <2>3, <2>4, ActiveCount, SettlePays
    <3>2. kicked \subseteq Players \ Active
      BY <2>3 DEF Active
    <3>3. QED
      BY <2>3, <3>1, <3>2 DEF OnlyByClaim
  <2>5. QED
    BY <1>1, <2>2, <2>4, UnchangedPaysNobody DEF LastOfTwo
<1>4. QED
  BY <1>2, <1>3 DEF PlayCard

\* A kick pays the last of two players, who has not been kicked.
LEMMA KickPaysNobodyKicked ==
  ASSUME Inv, LastOfTwo, Kick PROVE LastOfTwo' /\ OnlyByClaim
<1>1. scan.pc = "write" /\ game \in Row /\ scan'.pc = "rest" /\ UNCHANGED credit
  BY RestIsScan DEF Kick, KickFromSolo, KickToForfeit, KickAndReseat, Kicked, Inv, TypeOK
<1>2. Len(Remaining) = N - 1
  BY <1>1, RemainingPlayers
<1>4. CASE KickFromSolo
  <2>1. game'.status # "Active"
    BY <1>1, <1>4 DEF KickFromSolo, Kicked, Row
  <2>2. QED
    BY <1>1, <1>4, <2>1, UnchangedPaysNobody DEF KickFromSolo, money, LastOfTwo
<1>5. CASE KickToForfeit
  <2>1. game'.status # "Active"
    BY <1>1, <1>5 DEF KickToForfeit, Kicked, Row
  <2>2. kicked = {}
    BY <1>1, <1>2, <1>5 DEF KickToForfeit, LastOfTwo
  <2>3. QED
    BY <1>1, <2>1, <2>2 DEF OnlyByClaim, LastOfTwo
<1>6. CASE KickAndReseat
  <2>1. N # 2
    BY <1>2, <1>6 DEF KickAndReseat
  <2>2. QED
    BY <1>1, <1>6, <2>1, UnchangedPaysNobody DEF KickAndReseat, money, LastOfTwo
<1>7. QED
  BY <1>4, <1>5, <1>6 DEF Kick

\* A claim pays the claimant, and the others nothing beyond the stake they lose.
LEMMA ClaimPaysClaimant ==
  ASSUME Inv, LastOfTwo, NEW p \in Players, Claim(p)
  PROVE  LastOfTwo' /\ OnlyByClaim
<1> DEFINE gain(q) == Bet + Payment(q, p, Cardinality(Players), Bet)
           add(f, qs) == [q \in Players |-> f[q] + IF q \in qs THEN gain(q) ELSE 0]
<1>1. game \in Row /\ purse \in [Players -> Int] /\ credit \in [Players -> Int]
        /\ kicked \subseteq Players
  BY DEF Inv, TypeOK
<1>2. game'.status # "Active" /\ game.claim = p
  BY <1>1 DEF Claim, Row
<1>3. UNCHANGED <<kicked, scan>> /\ game.status = "Active"
  BY DEF Claim, seats
<1>4. LastOfTwo'
  BY <1>2, <1>3 DEF LastOfTwo
<1>5. purse' = add(purse, Players) /\ credit' = add(credit, Players \cap Users \cap humans)
  BY DEF Claim, Settle
<1>6. \A q \in Players : q # p => gain(q) = 0
  BY BetAssumption DEF Payment
<1> HIDE DEF gain
<1>7. \A q \in Players : q # p => purse'[q] = purse[q] /\ credit'[q] = credit[q]
  BY <1>1, <1>5, <1>6
<1>8. ASSUME NEW q \in kicked, purse'[q] > purse[q] \/ credit'[q] > credit[q]
      PROVE  game.claim = q
  <2>1. q \in Players /\ purse[q] \in Int /\ credit[q] \in Int
    BY <1>1
  <2>2. q = p
    BY <1>7, <1>8, <2>1
  <2>3. QED
    BY <1>2, <2>2
<1>9. QED
  BY <1>4, <1>8 DEF OnlyByClaim

\* The other steps pay nobody.
LEMMA RestPaysNobody ==
  ASSUME Inv, LastOfTwo, NEW p \in Players,
         \/ Decline(p) \/ BotGivesUp(p) \/ RecoverBot \/ Age \/ Crash
         \/ FindStalled \/ ReadPlayers \/ Warn \/ BeginKick \/ ScanCut \/ UNCHANGED vars
  PROVE  LastOfTwo' /\ OnlyByClaim
<1>1. game \in Row /\ Rest.pc # "write" /\ scan \in Scan
  BY RestIsScan DEF Inv, TypeOK
<1>3. UNCHANGED money /\ game'.status = game.status /\ kicked' = kicked
  <2>1. CASE Decline(p)
    BY <1>1, <2>1 DEF Decline, money, seats, Row
  <2>2. CASE Age
    BY <1>1, <2>2 DEF Age, money, seats, Row
  <2>3. CASE Warn
    BY <1>1, <2>3 DEF Warn, money, seats, Row
  <2>4. CASE RecoverBot \/ BotGivesUp(p) \/ Crash
    BY <2>4 DEF RecoverBot, BotGivesUp, Crash, money, seats
  <2>5. CASE FindStalled \/ BeginKick \/ ScanCut
    BY <2>5 DEF FindStalled, BeginKick, ScanCut, money, seats
  <2>6. CASE ReadPlayers
    <3>1. UNCHANGED <<game, seats, cards, money, alerted, chain, crashes>>
      BY <2>6 DEF ReadPlayers
    <3>2. QED
      BY <3>1 DEF money, seats
  <2>7. CASE UNCHANGED vars
    BY <2>7 DEF vars, money, seats
  <2>8. QED
    BY <2>1, <2>2, <2>3, <2>4, <2>5, <2>6, <2>7
<1>4. (scan'.pc = "write") => (scan.pc = "write" \/ game.status = "Active")
  <2>1. CASE ReadPlayers
    <3>1. Verdict(scan.row) # "write"
      BY DEF Verdict
    <3>2. PICK l \in Listings :
            \/ scan' = Rest
            \/ scan' = [scan EXCEPT !.pc = Verdict(scan.row), !.list = l,
                                    !.seat = position, !.purse = purse,
                                    !.target = l[scan.row.rank + 1]]
      BY <2>1 DEF ReadPlayers
    <3>3. scan'.pc \in {Rest.pc, Verdict(scan.row)}
      BY <1>1, <3>2 DEF Scan
    <3>4. QED
      BY <1>1, <3>1, <3>3
  <2>2. CASE FindStalled
    <3>1. scan'.pc = "players"
      BY <2>2 DEF FindStalled, Rest
    <3>2. QED
      BY <3>1
  <2>3. CASE Warn \/ BeginKick \/ ScanCut
    BY <1>1, <2>3 DEF Warn, BeginKick, ScanCut
  <2>4. CASE UNCHANGED scan
    BY <2>4
  <2>5. QED
    BY <2>1, <2>2, <2>3, <2>4
    DEF Decline, BotGivesUp, RecoverBot, Age, Crash, vars
<1>5. QED
  BY <1>3, <1>4, UnchangedPaysNobody DEF LastOfTwo

\* A step keeps the invariant and pays a kicked player by its claim only.
LEMMA StepPaysByClaim ==
  ASSUME Inv, LastOfTwo, [Next]_vars
  PROVE  LastOfTwo' /\ OnlyByClaim
<1>1. ASSUME NEW p \in Players, HumanActs(p) \/ BotActs(p)
      PROVE  LastOfTwo' /\ OnlyByClaim
  BY <1>1, PlayPaysActive, ClaimPaysClaimant, RestPaysNobody
  DEF HumanActs, BotActs, BotPlays
<1>2. 0 \in Players
  BY DEF Players
<1>3. CASE ScanStep
  BY <1>2, <1>3, KickPaysNobodyKicked, RestPaysNobody DEF ScanStep
<1>4. CASE RecoverBot \/ Age \/ Crash \/ ScanCut \/ UNCHANGED vars
  BY <1>2, <1>4, RestPaysNobody
<1>5. QED
  BY <1>1, <1>3, <1>4 DEF Next

\* "You have lost your bet": for any number of players, kicks and special hands, no
\* step pays a player who has been kicked, but the grant of the claim pending for it.
\* The forfeit of a kick pays the one row it leaves, and with more than two players it
\* leaves more: the rows kicked before are counted too (lifecycle.rs,
\* kick_player_from_game).
THEOREM KickedIsNeverPaid == Spec => KickedNeverPaid
<1>1. Init => Inv /\ LastOfTwo
  BY InitInv DEF Init, LastOfTwo
<1>2. (Inv /\ LastOfTwo) /\ [Next]_vars => (Inv /\ LastOfTwo)' /\ [OnlyByClaim]_vars
  BY StepInv, StepPaysByClaim
<1>3. [OnlyByClaim]_vars
        => [\A p \in kicked :
              (purse'[p] > purse[p] \/ credit'[p] > credit[p]) => game.claim = p]_vars
  BY DEF OnlyByClaim
<1>4. QED
  BY <1>1, <1>2, <1>3, PTL DEF Spec, KickedNeverPaid
------------------------------------------------------------------------------
\* The turn.

\* How many seats are taken: by all the players, then by the rows that a kick leaves.
Taken == IF kicked = {} THEN N ELSE N - 1

\* No two active players share a seat.
Apart == \A p, q \in Active : position[p] = position[q] => p = q

\* While the game is on, each of these seats is somebody's, until a second kick an
\* active player's, and the turn is one of them.
Seated ==
  \A s \in 0..(Taken - 1) :
    /\ \E p \in Players : position[p] = s
    /\ Cardinality(kicked) <= 1 => \E p \in Active : position[p] = s
TurnSeated == game.status = "Active" => Seated /\ game.rank \in 0..(Taken - 1)

\* A scan holds a listing of all players.
ListsAll ==
  scan.pc \in {"warn", "kick", "write"} => scan.list \in Injection(1..N, Players)

TurnInv == Apart /\ TurnSeated /\ ListsAll

LEMMA TurnHolds == TurnInv => TurnHasOneHolder
<1> SUFFICES ASSUME TurnInv, game.status = "Active"
             PROVE  /\ \E p \in Players : position[p] = game.rank
                    /\ Cardinality(Holders) <= 1
                    /\ Cardinality(kicked) <= 1 => Cardinality(Holders) = 1
  BY DEF TurnHasOneHolder
<1>1. /\ \E p \in Players : position[p] = game.rank
      /\ Cardinality(kicked) <= 1 => \E p \in Active : position[p] = game.rank
  BY DEF TurnInv, TurnSeated, Seated
<1>2. ASSUME NEW p \in Active, position[p] = game.rank
      PROVE  Cardinality(Holders) = 1
  <2>1. Holders = {p}
    BY <1>2 DEF Holders, TurnInv, Apart
  <2>2. QED
    BY <2>1, FS_Singleton
<1>3. CASE \E p \in Active : position[p] = game.rank
  BY <1>1, <1>2, <1>3
<1>4. CASE ~ \E p \in Active : position[p] = game.rank
  <2>1. Holders = {}
    BY <1>4 DEF Holders
  <2>2. Cardinality(Holders) = 0
    BY <2>1, FS_EmptySet
  <2>3. QED
    BY <1>1, <1>4, <2>2
<1>5. QED
  BY <1>3, <1>4

\* There are at least as many taken seats as active players, one at least.
LEMMA ActiveTaken ==
  ASSUME Inv PROVE Taken \in {N - 1, N} /\ Cardinality(Active) <= Taken
<1>1. CASE kicked = {}
  BY <1>1, ActiveCount DEF Taken
<1>2. CASE kicked # {}
  <2>1. PICK p \in kicked : TRUE
    BY <1>2
  <2>2. Active \subseteq Players \ {p} /\ p \in Players
    BY <2>1 DEF Active, Inv, TypeOK
  <2>3. IsFiniteSet(Players \ {p}) /\ Cardinality(Players \ {p}) = N - 1
    BY <2>2, ActiveCount, FS_RemoveElement
  <2>4. Cardinality(Active) <= N - 1
    BY <2>2, <2>3, FS_Subset
  <2>5. QED
    BY <1>2, <2>4 DEF Taken
<1>3. QED
  BY <1>1, <1>2

\* Nobody is kicked at the start, and the seats are those of the players.
LEMMA TurnInit == Init => TurnInv
<1> SUFFICES ASSUME Init PROVE TurnInv
  OBVIOUS
<1>1. Active = Players /\ Taken = N
  BY DEF Init, Active, Taken
<1>2. position = [p \in Players |-> p] /\ game.rank \in Players
  BY DEF Init
<1>3. Seated /\ Apart
  BY <1>1, <1>2 DEF Seated, Apart, Players
<1>4. TurnSeated
  BY <1>1, <1>2, <1>3 DEF TurnSeated, Players
<1>5. QED
  BY <1>3, <1>4, RestIsScan DEF Init, TurnInv, ListsAll

\* The index of an active player among the active players is less than their number.
LEMMA SeatInIsActiveSeat ==
  ASSUME NEW l \in Listings, NEW w \in Active
  PROVE  SeatIn(l, w) \in 0..(Cardinality(Active) - 1)
<1> DEFINE k == IndexIn(l, w)
           Before == {i \in 1..(k - 1) : l[i] \in Active}
           others == Active \ {w}
           f == [i \in Before |-> l[i]]
<1>1. l \in Injection(1..N, Players) /\ k \in 1..N /\ l[k] = w
  BY ListingIsComplete, ActiveCount
<1>2. IsFiniteSet(others) /\ Cardinality(others) = Cardinality(Active) - 1
  BY ActiveCount, FS_RemoveElement
<1>3. \A i \in 1..N, j \in 1..N : l[i] = l[j] => i = j
  BY <1>1 DEF Injection, IsInjective
<1>4. Before \subseteq 1..N /\ k \notin Before
  BY <1>1
<1>5. \A i \in Before : l[i] \in others
  <2>1. ASSUME NEW i \in Before, l[i] = w PROVE FALSE
    BY <1>1, <1>3, <1>4, <2>1
  <2>2. QED
    BY <2>1
<1> HIDE DEF Before, k, others
<1>6. f \in Injection(Before, others)
  BY <1>3, <1>4, <1>5 DEF Injection, IsInjective
<1>7. IsFiniteSet(Before) /\ Cardinality(Before) <= Cardinality(others)
  BY <1>2, <1>6, FS_Injection
<1>8. Cardinality(Before) \in Nat /\ Cardinality(Active) \in Nat
  BY <1>7, ActiveCount, FS_CardinalityType
<1>9. SeatIn(l, w) = Cardinality(Before)
  BY DEF SeatIn, Before, k
<1>10. QED
  BY <1>2, <1>7, <1>8, <1>9

\* A card passes the turn to a seat that is taken.
LEMMA PlayTurn ==
  ASSUME Inv, TurnInv, NEW p \in Players, PlayCard(p) PROVE TurnInv'
<1>1. UNCHANGED <<position, kicked, scan>> /\ game \in Row /\ game.status = "Active"
  BY DEF PlayCard, PlayOn, PlayLast, MayPlay, seats, Inv, TypeOK
<1>2. Taken' = Taken /\ Seated' /\ Apart' /\ ListsAll'
  <2>1. Active' = Active /\ Taken' = Taken
    BY <1>1 DEF Active, Taken
  <2>2. Seated /\ Apart
    BY <1>1 DEF TurnInv, TurnSeated
  <2>3. Seated' /\ Apart'
    BY <1>1, <2>1, <2>2 DEF Seated, Apart
  <2>4. ListsAll'
    BY <1>1 DEF TurnInv, ListsAll
  <2>5. QED
    BY <2>1, <2>3, <2>4
<1>3. CASE PlayOn(p)
  <2> DEFINE next == NextSeat(position[p], Cardinality(Active))
  <2>1. Len(trick) \in Nat /\ Cardinality(Active) \in 0..N /\ position[p] \in Nat
    BY ActiveCount DEF Inv, TypeOK, Players
  <2>2. Cardinality(Active) \in 1..N
    BY <1>3, <2>1 DEF PlayOn, Completes
  <2>3. \A n \in Nat, m \in 1..N : (n + 1) % m \in 0..(m - 1)
    OBVIOUS
  <2>4. next \in 0..(Cardinality(Active) - 1)
    BY <2>1, <2>2, <2>3 DEF NextSeat
  <2> HIDE DEF next
  <2>5. game' = [game EXCEPT !.rank = next, !.idle = Fresh]
    BY <1>3 DEF PlayOn, next
  <2>6. game'.rank = next
    BY <1>1, <2>5 DEF Row
  <2>7. game'.rank \in 0..(Taken - 1)
    BY <2>1, <2>4, <2>6, ActiveTaken
  <2>8. QED
    BY <1>2, <2>7 DEF TurnInv, TurnSeated
<1>4. CASE PlayLast(p)
  <2> DEFINE ends == game.roll + 1 > CARDS_PER_PLAYER
  <2>1. PICK w \in Active, l \in Listings :
          game' = [game EXCEPT !.rank = SeatIn(l, w), !.winner = w, !.roll = @ + 1,
                               !.idle = Fresh,
                               !.status = IF ends THEN "Finished" ELSE @]
    BY <1>4 DEF PlayLast
  <2>2. game'.rank = SeatIn(l, w)
    BY <1>1, <2>1 DEF Row
  <2>3. SeatIn(l, w) \in 0..(Cardinality(Active) - 1) /\ Cardinality(Active) \in Nat
    BY SeatInIsActiveSeat, ActiveCount
  <2>4. game'.rank \in 0..(Taken - 1)
    BY <2>2, <2>3, ActiveTaken
  <2>5. QED
    BY <1>2, <2>4 DEF TurnInv, TurnSeated
<1>5. QED
  BY <1>3, <1>4 DEF PlayCard

\* The other steps of players and bots, and the steps of the scan before it kicks,
\* leave the turn and the seats alone, or end the game.
LEMMA OthersKeepTurn ==
  ASSUME Inv, TurnInv, UNCHANGED <<position, kicked>>,
         game'.status = "Active" => game.status = "Active" /\ game'.rank = game.rank,
         ListsAll'
  PROVE  TurnInv'
<1>1. Active' = Active /\ Taken' = Taken
  BY DEF Active, Taken
<1>2. QED
  BY <1>1 DEF TurnInv, TurnSeated, Seated, Apart

LEMMA PlainTurn ==
  ASSUME Inv, TurnInv, NEW p \in Players,
         \/ Claim(p) \/ Decline(p) \/ BotGivesUp(p) \/ RecoverBot \/ Age \/ Crash
         \/ UNCHANGED vars
  PROVE  TurnInv'
<1>1. game \in Row
  BY DEF Inv, TypeOK
<1>2. UNCHANGED <<position, kicked, scan>>
  BY DEF Claim, Decline, BotGivesUp, RecoverBot, Age, Crash, vars, seats
<1>3. ListsAll'
  BY <1>2 DEF TurnInv, ListsAll
<1>4. game'.status = "Active" => game.status = "Active" /\ game'.rank = game.rank
  <2>1. CASE Claim(p)
    BY <1>1, <2>1 DEF Claim, Row
  <2>2. CASE Decline(p)
    BY <1>1, <2>2 DEF Decline, Row
  <2>3. CASE Age
    BY <1>1, <2>3 DEF Age, Row
  <2>4. CASE BotGivesUp(p) \/ RecoverBot \/ Crash \/ UNCHANGED vars
    BY <2>4 DEF BotGivesUp, RecoverBot, Crash, vars
  <2>5. QED
    BY <2>1, <2>2, <2>3, <2>4
<1>5. QED
  BY <1>2, <1>3, <1>4, OthersKeepTurn

LEMMA ScanTurn ==
  ASSUME Inv, TurnInv,
         FindStalled \/ ReadPlayers \/ Warn \/ BeginKick \/ ScanCut
  PROVE  TurnInv'
<1>1. game \in Row /\ scan \in Scan
  BY DEF Inv, TypeOK
<1>2. UNCHANGED <<position, kicked>>
  BY DEF FindStalled, ReadPlayers, Warn, BeginKick, ScanCut, seats
<1>3. game'.status = game.status /\ game'.rank = game.rank
  <2>1. CASE Warn
    BY <1>1, <2>1 DEF Warn, Row
  <2>2. CASE FindStalled \/ ReadPlayers \/ BeginKick \/ ScanCut
    BY <2>2 DEF FindStalled, ReadPlayers, BeginKick, ScanCut
  <2>3. QED
    BY <2>1, <2>2
<1>4. CASE scan' = Rest
  <2>1. ListsAll'
    BY <1>4, RestIsScan DEF ListsAll
  <2>2. QED
    BY <1>2, <1>3, <2>1, OthersKeepTurn
<1>5. CASE FindStalled
  <2>1. scan'.pc = "players"
    BY <1>5 DEF FindStalled, Rest
  <2>2. ListsAll'
    BY <2>1 DEF ListsAll
  <2>3. QED
    BY <1>2, <1>3, <2>2, OthersKeepTurn
<1>6. CASE ReadPlayers /\ scan' # Rest
  <2>1. PICK l \in Listings, q \in Players :
          scan' = [scan EXCEPT !.pc = Verdict(scan.row), !.list = l, !.seat = position,
                               !.purse = purse, !.target = q]
    BY <1>6 DEF ReadPlayers, Inv, TypeOK
  <2>2. scan'.pc = Verdict(scan.row) /\ scan'.list = l
    BY <1>1, <2>1 DEF Scan
  <2>3. Verdict(scan.row) # "write"
    BY DEF Verdict
  <2>4. l \in Injection(1..N, Players)
    BY ListingIsComplete
  <2>5. ListsAll'
    BY <2>2, <2>3, <2>4 DEF ListsAll
  <2>6. QED
    BY <1>2, <1>3, <2>5, OthersKeepTurn
<1>7. CASE BeginKick /\ scan' # Rest
  <2>1. scan' = [scan EXCEPT !.pc = "write", !.row = game] /\ scan.pc = "kick"
    BY <1>7 DEF BeginKick
  <2>2. scan'.list = scan.list
    BY <1>1, <2>1 DEF Scan
  <2>4. ListsAll'
    BY <1>2, <2>1, <2>2 DEF TurnInv, ListsAll
  <2>5. QED
    BY <1>2, <1>3, <2>4, OthersKeepTurn
<1>8. QED
  BY <1>4, <1>5, <1>6, <1>7 DEF Warn, ScanCut

\* The rows that remain are the others, each once.
LEMMA RemainingOthers ==
  ASSUME Inv, TurnInv, scan.pc = "write"
  PROVE  /\ \A i, j \in 1..(N - 1) : Remaining[i] = Remaining[j] => i = j
         /\ \A i \in 1..(N - 1) : Remaining[i] \in Players \ {scan.target}
         /\ \A p \in Players \ {scan.target} : \E i \in 1..(N - 1) : Remaining[i] = p
<1> DEFINE l == scan.list
           t == scan.target
           k == IndexIn(l, t)
<1>1. l \in Injection(1..N, Players) /\ t \in Players
  BY RemainingPlayers DEF TurnInv, ListsAll, Inv, TypeOK, Scan
<1>2. k \in 1..N /\ l[k] = t
  BY <1>1, InjectionIsComplete
<1>3. \A i \in 1..N, j \in 1..N : l[i] = l[j] => i = j
  BY <1>1 DEF Injection, IsInjective
<1>4. \A i \in 1..N : l[i] \in Players
  BY <1>1 DEF Injection
<1>5. \A i \in 1..(N - 1) : Remaining[i] = IF i < k THEN l[i] ELSE l[i + 1]
  BY DEF Remaining
<1>6. \A p \in Players : \E i \in 1..N : l[i] = p
  BY <1>1, InjectionIsComplete
<1> HIDE DEF l, t, k
<1>7. ASSUME NEW i \in 1..(N - 1), NEW j \in 1..(N - 1), Remaining[i] = Remaining[j]
      PROVE  i = j
  <2> DEFINE at(n) == IF n < k THEN n ELSE n + 1
  <2>1. at(i) \in 1..N /\ at(j) \in 1..N
    BY <1>2
  <2>2. l[at(i)] = l[at(j)]
    BY <1>5, <1>7
  <2>3. at(i) = at(j)
    BY <1>3, <2>1, <2>2
  <2>4. QED
    BY <1>2, <2>3
<1>8. ASSUME NEW i \in 1..(N - 1)
      PROVE  Remaining[i] \in Players \ {t}
  <2> DEFINE n == IF i < k THEN i ELSE i + 1
  <2>1. n \in 1..N /\ n # k
    BY <1>2
  <2>2. Remaining[i] = l[n]
    BY <1>5
  <2> HIDE DEF n
  <2>3. l[n] # t
    BY <1>2, <1>3, <2>1
  <2>4. QED
    BY <1>4, <2>1, <2>2, <2>3
<1>9. ASSUME NEW p \in Players \ {t}
      PROVE  \E i \in 1..(N - 1) : Remaining[i] = p
  <2>1. PICK n \in 1..N : l[n] = p
    BY <1>6
  <2>2. n # k
    BY <1>2, <2>1
  <2>3. CASE n < k
    <3>1. n \in 1..(N - 1)
      BY <1>2, <2>3
    <3>2. QED
      BY <1>5, <2>1, <2>3, <3>1
  <2>4. CASE n > k
    <3>1. n - 1 \in 1..(N - 1) /\ ~(n - 1 < k) /\ (n - 1) + 1 = n
      BY <1>2, <2>4
    <3>2. QED
      BY <1>5, <2>1, <3>1
  <2>5. QED
    BY <1>2, <2>2, <2>3, <2>4
<1>10. QED
  BY <1>7, <1>8, <1>9 DEF t

\* A kick gives the others the seats from 0 on, and one of them the turn.
LEMMA KickTurn ==
  ASSUME Inv, TurnInv, Kick PROVE TurnInv'
<1> DEFINE t == scan.target
           rest == Remaining
<1>1. scan.pc = "write" /\ game \in Row /\ scan' = Rest /\ kicked' = kicked \union {t}
  BY DEF Kick, KickFromSolo, KickToForfeit, KickAndReseat, Kicked, Inv, TypeOK
<1>2. ListsAll'
  BY <1>1, RestIsScan DEF ListsAll
<1>3. t \in Players /\ Active' = Active \ {t} /\ Active' \subseteq Players \ {t}
        /\ Taken' = N - 1
  <2>1. t \in humans
    BY <1>1, RemainingPlayers
  <2>2. t \in Players /\ t \in kicked'
    BY <1>1, <2>1 DEF Inv, TypeOK
  <2>3. kicked' # {}
    BY <2>2
  <2> HIDE DEF t
  <2>4. QED
    BY <1>1, <2>2, <2>3 DEF Active, Taken
<1>4. CASE KickFromSolo \/ KickToForfeit
  <2>1. game'.status # "Active"
    BY <1>1, <1>4 DEF KickFromSolo, KickToForfeit, Kicked, Row
  <2>2. position' = position
    BY <1>4 DEF KickFromSolo, KickToForfeit
  <2>3. Apart'
    BY <1>3, <2>2 DEF TurnInv, Apart
  <2>4. QED
    BY <1>2, <2>1, <2>3 DEF TurnInv, TurnSeated
<1>5. CASE KickAndReseat
  <2>1. Cardinality(kicked') <= 1 => Active' = Players \ {t}
    <3>1. t \in kicked' /\ kicked' \subseteq Players /\ IsFiniteSet(kicked')
      <4>1. kicked' \subseteq Players
        BY <1>1, <1>3 DEF Inv, TypeOK
      <4>2. QED
        BY <1>1, <4>1, ActiveCount, FS_Subset
    <3>2. IsFiniteSet(kicked' \ {t}) /\ Cardinality(kicked' \ {t}) = Cardinality(kicked') - 1
      BY <3>1, FS_RemoveElement
    <3>3. Cardinality(kicked' \ {t}) \in Nat /\ Cardinality(kicked') \in Nat
      BY <3>1, <3>2, FS_CardinalityType
    <3>4. ASSUME Cardinality(kicked') <= 1 PROVE kicked' = {t}
      <4>1. Cardinality(kicked' \ {t}) = 0
        BY <3>2, <3>3, <3>4
      <4>2. kicked' \ {t} = {}
        BY <3>2, <4>1, FS_EmptySet
      <4>3. QED
        BY <3>1, <4>2
    <3>5. QED
      BY <3>4 DEF Active
  <2>3. RankAfter(rest) \in 0..(N - 2)
    BY <1>1, RankAfterIsSeat
  <2>4. game'.rank = RankAfter(rest)
    <3> DEFINE rank == RankAfter(rest)
               g == [game EXCEPT !.rank = rank]
    <3>1. Kicked(g)
      BY <1>5 DEF KickAndReseat
    <3> HIDE DEF rank
    <3>2. g.rank = rank /\ g \in [status : Status, rank : {rank},
              roll : 1..(CARDS_PER_PLAYER + 1), winner : Players \union {Nobody},
              claim : Players \union {Nobody}, warned : BOOLEAN, idle : Fresh..KickStale]
      BY <1>1 DEF Row
    <3> HIDE DEF g
    <3>3. game'.rank = rank
      BY <3>1, <3>2 DEF Kicked
    <3>4. QED
      BY <3>3 DEF rank
  <2>5. position' = [p \in Players |->
                      IF p \in Elements(rest) THEN IndexIn(rest, p) - 1 ELSE position[p]]
    BY <1>5 DEF KickAndReseat
  <2>6. rest \in [1..(N - 1) -> Players]
    BY <1>1, RemainingPlayers
  <2>7. ASSUME NEW p \in Players \ {t}
        PROVE  /\ IndexIn(rest, p) \in 1..(N - 1) /\ rest[IndexIn(rest, p)] = p
               /\ position'[p] = IndexIn(rest, p) - 1
    <3>1. \E i \in DOMAIN rest : rest[i] = p
      BY <1>1, <2>6, RemainingOthers
    <3>2. IndexIn(rest, p) \in DOMAIN rest /\ rest[IndexIn(rest, p)] = p
      BY <3>1 DEF IndexIn
    <3>3. p \in Elements(rest)
      BY <3>1 DEF Elements
    <3> HIDE DEF rest
    <3>4. QED
      BY <2>5, <2>6, <3>2, <3>3
  <2>8. \A i, j \in 1..(N - 1) : rest[i] = rest[j] => i = j
    BY <1>1, RemainingOthers
  <2>9. \A i \in 1..(N - 1) : rest[i] \in Players \ {t}
    BY <1>1, RemainingOthers
  <2> HIDE DEF rest, t
  <2>10. ASSUME NEW s \in 0..(N - 2)
         PROVE  \E p \in Players \ {t} : position'[p] = s
    <3>1. s + 1 \in 1..(N - 1)
      OBVIOUS
    <3>2. rest[s + 1] \in Players \ {t}
      BY <2>9, <3>1
    <3>3. IndexIn(rest, rest[s + 1]) = s + 1
      BY <2>7, <2>8, <3>1, <3>2
    <3>4. position'[rest[s + 1]] = s
      BY <2>7, <3>2, <3>3
    <3>5. QED
      BY <3>2, <3>4
  <2>11. ASSUME NEW p \in Players \ {t}, NEW q \in Players \ {t},
                position'[p] = position'[q]
         PROVE  p = q
    <3>1. PICK a \in 1..(N - 1) : rest[a] = p /\ position'[p] = a - 1
      BY <2>7
    <3>2. PICK b \in 1..(N - 1) : rest[b] = q /\ position'[q] = b - 1
      BY <2>7
    <3>3. a - 1 = b - 1
      BY <2>11, <3>1, <3>2, Zenon
    <3>4. a \in Int /\ b \in Int
      OBVIOUS
    <3>5. a = b
      BY <3>3, <3>4
    <3>6. QED
      BY <3>1, <3>2, <3>5
  <2>12. (N - 1) - 1 = N - 2
    OBVIOUS
  <2>13. Apart'
    BY <1>3, <2>11 DEF Apart
  <2>14. Seated'
    BY <1>3, <2>1, <2>10, <2>12 DEF Seated
  <2>15. TurnSeated'
    BY <1>3, <2>3, <2>4, <2>12, <2>14 DEF TurnSeated
  <2>16. QED
    BY <1>2, <2>13, <2>15 DEF TurnInv
<1>6. QED
  BY <1>4, <1>5 DEF Kick

LEMMA TurnStep == Inv /\ TurnInv /\ [Next]_vars => TurnInv'
<1> SUFFICES ASSUME Inv, TurnInv, [Next]_vars PROVE TurnInv'
  OBVIOUS
<1>1. ASSUME NEW p \in Players, HumanActs(p) \/ BotActs(p) PROVE TurnInv'
  BY <1>1, PlayTurn, PlainTurn DEF HumanActs, BotActs, BotPlays
<1>2. 0 \in Players
  BY DEF Players
<1>3. CASE ScanStep \/ ScanCut
  BY <1>3, ScanTurn, KickTurn DEF ScanStep
<1>4. CASE RecoverBot \/ Age \/ Crash \/ UNCHANGED vars
  BY <1>2, <1>4, PlainTurn
<1>5. QED
  BY <1>1, <1>3, <1>4 DEF Next

\* Of any number of players, with any bots, special hands and kicks, the turn of an
\* active game is at a seat that somebody has and no two active players share, also
\* after kicks have renumbered the seats in the middle of a round (lifecycle.rs:314);
\* until the second kick it is an active player's.
THEOREM TurnIsHeld == Spec => []TurnHasOneHolder
<1>1. Init => Inv /\ TurnInv
  BY InitInv, TurnInit
<1>2. (Inv /\ TurnInv) /\ [Next]_vars => (Inv /\ TurnInv)'
  BY StepInv, TurnStep
<1>3. TurnInv => TurnHasOneHolder
  BY TurnHolds
<1>4. QED
  BY <1>1, <1>2, <1>3, PTL DEF Spec
==============================================================================
