-------------------------------- MODULE Stakes --------------------------------
(***************************************************************************)
(* What the games of one user do to the profile: a stake is taken when the  *)
(* user joins, given back when the game is cancelled, and settled when it   *)
(* ends.  Each of these reads the profile, and writes it later.             *)
(***************************************************************************)
EXTENDS Profile

CONSTANTS
  Quick,    \* quick games, which the user starts alone
  Created,  \* multiplayer games the user creates
  Accepted, \* multiplayer games the user is invited to
  Stake     \* the bet of a game

Games == Quick \union Created \union Accepted
ASSUME StakeAssumption == Stake \in Nat \ {0}
ASSUME GamesAssumption == IsFiniteSet(Games)

VARIABLE game \* game -> where the game stands, the profile it has read, its delta

KORA_CREDIT_MULTIPLIER == 2

Unread == [credit |-> 0, frozen |-> "no", locked |-> FALSE]

GamesInit(gs) ==
  game = [g \in Games |-> [st |-> IF g \in gs THEN "none" ELSE "absent",
                           seen |-> Unread, delta |-> 0]]

\* The game moves on, and what was read for it is forgotten; or the profile is read.
Move(g, st) == game' = [game EXCEPT ![g].st = st, ![g].seen = Unread]
Reads(g, st) == game' = [game EXCEPT ![g].st = st, ![g].seen = profile]

\* load_and_validate_profile and validate_sufficient_credit; a quick game only
\* asks for its own stake.
MayJoin(g) ==
  /\ profile.frozen # "until" /\ ~profile.locked
  /\ profile.credit >= IF g \in Quick THEN Stake ELSE Stake * KORA_CREDIT_MULTIPLIER

\* compute_joining_credit: the stake is taken; an account left with nothing is
\* frozen, one whose freeze has passed is unfrozen and filled up.
Joined(seen) ==
  LET rest == seen.credit - Stake
  IN IF rest <= 0 THEN [credit |-> rest, frozen |-> "until"]
     ELSE IF seen.frozen = "no" THEN [credit |-> rest, frozen |-> "no"]
     ELSE [credit |-> IF rest < FreeCredit THEN FreeCredit ELSE rest, frozen |-> "no"]

JoinRead(g) ==
  /\ game[g].st = "none" /\ MayJoin(g)
  /\ Reads(g, "joining")
  /\ UNCHANGED <<account, scan, cuts>>

\* Mutant of Conflicts: the update of a creation does not look at the credit.
ConflictsNever(g) == FALSE

\* update_credit_optimistic_in_txn finds no row: the credit is not the one read.
\* Only the creation of a game asks.
Conflicts(g) == g \in Created /\ profile.credit # game[g].seen.credit

JoinRefused(g) ==
  /\ game[g].st = "joining" /\ Conflicts(g)
  /\ Move(g, "none")
  /\ UNCHANGED <<account, scan, cuts>>

JoinWrite(g) ==
  /\ game[g].st = "joining" /\ ~Conflicts(g)
  /\ LET seen == game[g].seen
         new == Joined(seen)
     IN /\ profile' = [profile EXCEPT !.credit = new.credit, !.frozen = new.frozen]
        /\ granted' = granted + new.credit + Stake - seen.credit
        /\ overwritten' = (overwritten \/ (g \notin Created /\ profile.credit # seen.credit))
  /\ Move(g, "staked")
  /\ UNCHANGED <<scan, cuts>>

\* What the end of a game adds to a profile whose stake is paid: a game lost, a
\* game lost by a special card, a game won.
Deltas == {0, -Stake, 2 * Stake}

SettleRead(g) ==
  /\ game[g].st = "staked"
  /\ \E d \in Deltas :
       game' = [game EXCEPT ![g] = [st |-> "settling", seen |-> profile, delta |-> d]]
  /\ UNCHANGED <<account, scan, cuts>>

\* Mutant of Settled: the credit read is written back.
SettledAsRead(seen, delta) ==
  [profile EXCEPT !.credit = seen.credit + delta,
                  !.frozen = IF seen.credit + delta <= 0 THEN "until" ELSE "no"]

\* apply_game_settlement_in_txn: the credit is incremented, the freeze follows the
\* credit that was read.
Settled(seen, delta) ==
  [profile EXCEPT !.credit = @ + delta,
                  !.frozen = IF seen.credit + delta <= 0 THEN "until" ELSE "no"]

SettleWrite(g) ==
  /\ game[g].st = "settling"
  /\ profile' = Settled(game[g].seen, game[g].delta)
  /\ Move(g, "over")
  /\ UNCHANGED <<granted, overwritten, scan, cuts>>

\* cancel_game, which only a game that still waits for players comes to.
CancelRead(g) ==
  /\ game[g].st = "staked" /\ g \notin Quick
  /\ Reads(g, "cancelling")
  /\ UNCHANGED <<account, scan, cuts>>

CancelWrite(g) ==
  /\ game[g].st = "cancelling"
  /\ profile' = [profile EXCEPT !.credit = game[g].seen.credit + Stake]
  /\ overwritten' = (overwritten \/ profile.credit # game[g].seen.credit)
  /\ Move(g, "cancelled")
  /\ UNCHANGED <<granted, scan, cuts>>

GameStep(g) ==
  \/ JoinRead(g) \/ JoinRefused(g) \/ JoinWrite(g)
  \/ SettleRead(g) \/ SettleWrite(g)
  \/ CancelRead(g) \/ CancelWrite(g)

\* What the games have put into the profile and taken from it, by their rows.
Staked == {g \in Games : game[g].st \in {"staked", "settling", "cancelling", "over"}}
OverWith(d) == {g \in Games : game[g].st = "over" /\ game[g].delta = d}
Winnings ==
  Stake * (2 * Cardinality(OverWith(2 * Stake)) - Cardinality(OverWith(-Stake))
             - Cardinality(Staked))

GamesTypeOK ==
  \A g \in Games :
    /\ game[g].st \in {"absent", "none", "joining", "staked", "settling", "over",
                       "cancelling", "cancelled"}
    /\ game[g].delta \in Deltas
==============================================================================
