------------------------------- MODULE Profile -------------------------------
(***************************************************************************)
(* The profile of one user: the credit, the freeze and the lock that games, *)
(* payments, cash-outs and the scheduler write, each in transactions of its *)
(* own that take no lock on the row before they write it.  The modules      *)
(* Stakes, Orders and Cashout add these writers; Ledger composes them.      *)
(***************************************************************************)
EXTENDS Integers, FiniteSets

CONSTANTS
  StartCredits, \* the credits a user may have at first
  FreeCredit,   \* unfreeze_credit_no_payment: the credit after a freeze ended
  PaidCredit,   \* unfreeze_credit_with_payment
  MaxCuts       \* bound: requests and tasks cut short

ASSUME CreditsAssumption ==
  /\ StartCredits \subseteq Int
  /\ FreeCredit \in Int /\ PaidCredit \in Int
ASSUME CutsAssumption == MaxCuts \in Nat

VARIABLES
  profile,     \* the row: credit, frozen (frozen_until), locked (cashout_locked)
  granted,     \* what joining and unfreezing have added over what was due
  overwritten, \* a writer has undone what it had not read
  scan,        \* check_expired_freezes: "rest", or "listed" the profile
  cuts         \* how often something was cut short

\* frozen_until: not set, still to come, or passed and not yet cleared.
Freezes == {"no", "until", "over"}

account == <<profile, granted, overwritten>>

AccountInit ==
  /\ \E c \in StartCredits : profile = [credit |-> c, frozen |-> "no", locked |-> FALSE]
  /\ granted = 0
  /\ overwritten = FALSE
  /\ scan = "rest"
  /\ cuts = 0

\* A worker, a task or a request dies; its transaction is rolled back.
CutShort == cuts < MaxCuts /\ cuts' = cuts + 1

\* UPDATE ... SET credit = credit + amount.
AddCredit(amount) == profile' = [profile EXCEPT !.credit = @ + amount]

\* The freeze ends at its time, and nobody has seen it yet.
Lapse ==
  /\ profile.frozen = "until"
  /\ profile' = [profile EXCEPT !.frozen = "over"]
  /\ UNCHANGED <<granted, overwritten, scan, cuts>>

\* Mutant of Expired: the freezes that are still to run.
ExpiredYet == profile.frozen = "until"

Expired == profile.frozen = "over"

\* check_expired_freezes lists the profiles first ...
ListExpired ==
  /\ scan = "rest" /\ Expired
  /\ scan' = "listed"
  /\ UNCHANGED <<account, cuts>>

\* ... and then sets the credit of each, whatever it has become.
EndFreeze ==
  /\ scan = "listed"
  /\ profile' = [profile EXCEPT !.credit = FreeCredit, !.frozen = "no"]
  /\ granted' = granted + FreeCredit - profile.credit
  /\ overwritten' = (overwritten \/ ~Expired)
  /\ scan' = "rest"
  /\ UNCHANGED cuts

\* The task times out between two profiles.
ScanCut == scan = "listed" /\ CutShort /\ scan' = "rest" /\ UNCHANGED account

ScanStep == ListExpired \/ EndFreeze

ProfileTypeOK ==
  /\ profile \in [credit : Int, frozen : Freezes, locked : BOOLEAN]
  /\ granted \in Int /\ overwritten \in BOOLEAN
  /\ scan \in {"rest", "listed"} /\ cuts \in 0..MaxCuts
==============================================================================
