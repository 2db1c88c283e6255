------------------------------- MODULE Lineups --------------------------------
(***************************************************************************)
(* What is owed to the players of a game, whatever becomes of the requests: *)
(* the liveness of Session and of CardPlay in the line-ups that differ in    *)
(* kind, and what two requests at once may not do.  A behaviour is one line- *)
(* up from its start to its end: two humans of whom one may be asked to       *)
(* claim, three humans of whom any may be kicked, a human alone with two      *)
(* bots, two requests of a game whose rounds are evaluated by a request of    *)
(* their own, or a click made twice.                                          *)
(* The modules name their rows alike and share the variables; a click made   *)
(* twice is CardPlay itself, with the constants of the configuration.        *)
(***************************************************************************)
EXTENDS CardPlay

CONSTANT Lineup   \* the line-ups

VARIABLES
  lineup,
  position, kicked, humans, left, trick, alerted, chain, scan, crashes,  \* of Session
  evaluating   \* tx of the game whose rounds are evaluated by requests

sessionVars == <<position, kicked, humans, left, trick, alerted, chain, scan, crashes>>
playVars == <<hand, special, round, playedAt, clock, tx, evaluating>>
lineupVars == <<lineup, game, purse, credit, sessionVars, playVars>>

Two == INSTANCE Session WITH
  N <- 2, CARDS_PER_PLAYER <- 2, Bet <- 5, StartCredit <- 20,
  Tables <- {{0, 1}}, Users <- {0, 1}, SpecialHands <- {0, 1},
  MaxKicks <- 1, MaxCrashes <- 1
Three == INSTANCE Session WITH
  N <- 3, CARDS_PER_PLAYER <- 2, Bet <- 5, StartCredit <- 20,
  Tables <- {0..2}, Users <- 0..2, SpecialHands <- {0},
  MaxKicks <- 3, MaxCrashes <- 1
Quick == INSTANCE Session WITH
  N <- 3, CARDS_PER_PLAYER <- 2, Bet <- 5, StartCredit <- 20,
  Tables <- {{0}}, Users <- {0}, SpecialHands <- {},
  MaxKicks <- 1, MaxCrashes <- 1
Requests == {"a", "b"}
Evaluated == INSTANCE CardPlay WITH
  N <- 2, CARDS_PER_PLAYER <- 2, Deck <- {0, 1, 8, 10}, Bet <- 5, StartCredit <- 20,
  Multiplayer <- FALSE, StepByStep <- TRUE, Req <- Requests,
  SeatOf <- [p \in Requests |-> IF p = "a" THEN 0 ELSE 1], Evaluators <- {"a"},
  MaxRetries <- 2, tx <- evaluating
\* Two requests in flight for seat 0: a double click, a second tab, a task delivered twice.
Clicks == [p \in Req |-> IF p = "b" THEN 1 ELSE 0]
OfPlays == {"evaluated", "double"}

Unused == <<>>
NoRequest == [p \in Requests |-> Evaluated!Idle]
LineupInit ==
  /\ lineup \in Lineup
  /\ CASE lineup = "two" -> Two!Init
       [] lineup = "three" -> Three!Init
       [] lineup = "quick" -> Quick!Init
       [] lineup \in OfPlays ->
            /\ IF lineup = "evaluated" THEN Evaluated!Init ELSE Init
            /\ position = Unused /\ kicked = Unused /\ humans = Unused /\ left = Unused
            /\ trick = Unused /\ alerted = Unused /\ chain = Unused /\ scan = Unused
            /\ crashes = Unused
  /\ lineup \notin OfPlays =>
       /\ hand = Unused /\ special = Unused /\ round = Unused /\ playedAt = Unused
       /\ clock = Unused
  /\ lineup # "evaluated" => evaluating = NoRequest
  /\ lineup # "double" => tx = [p \in Req |-> Idle]

\* The actions of a line-up.
TwoStep(A) == lineup = "two" /\ A /\ UNCHANGED <<lineup, playVars>>
ThreeStep(A) == lineup = "three" /\ A /\ UNCHANGED <<lineup, playVars>>
QuickStep(A) == lineup = "quick" /\ A /\ UNCHANGED <<lineup, playVars>>
EvaluatedStep(A) == lineup = "evaluated" /\ A /\ UNCHANGED <<lineup, sessionVars, tx>>
DoubleStep(A) == lineup = "double" /\ A /\ UNCHANGED <<lineup, sessionVars, evaluating>>

LineupNext ==
  \/ TwoStep(Two!Next)
  \/ ThreeStep(Three!Next)
  \/ QuickStep(Quick!Next)
  \/ EvaluatedStep(Evaluated!Next)
  \/ DoubleStep(Next)

\* The fairness of each line-up's module; nothing is assumed of the humans.
LineupFairness ==
  /\ WF_lineupVars(TwoStep(Two!Age)) /\ WF_lineupVars(TwoStep(Two!ScanStep))
  /\ WF_lineupVars(ThreeStep(Three!Age)) /\ WF_lineupVars(ThreeStep(Three!ScanStep))
  /\ WF_lineupVars(QuickStep(Quick!Age)) /\ WF_lineupVars(QuickStep(Quick!ScanStep))
  /\ WF_lineupVars(QuickStep(Quick!RecoverBot))
  /\ \A p \in 1..2 : WF_lineupVars(QuickStep(Quick!BotActs(p)))
  /\ \A p \in Requests : WF_lineupVars(EvaluatedStep(Evaluated!Step(p)))
LineupSpec == LineupInit /\ [][LineupNext]_lineupVars /\ LineupFairness
------------------------------------------------------------------------------
\* Properties, besides NoLostTurn and OneClaimWins of CardPlay for the click made twice.

\* Whoever stops playing, or never answers an offered claim, and whatever chain of
\* bot moves is lost, the scans bring the game to its end, with one exception: a game
\* that goes on after a kick stops for good where the row at the index of the turn may
\* be that of a player kicked before (recovery.rs).
StalledGameEnds ==
  <>[](lineup \in OfPlays \/ game.status # "Active"
         \/ (lineup = "three" /\ Three!Unattended))

\* Every request is answered where rounds are evaluated by requests of their own: no
\* retry after a lost version check goes on for ever and no transaction waits for ever
\* for a row (gameplay.rs, evaluation.rs).
EachAnswered == \A p \in Requests : evaluating[p].pc # "idle" ~> evaluating[p].pc = "idle"
==============================================================================
