-------------------------------- MODULE Ledger --------------------------------
(***************************************************************************)
(* Everything that writes the profile of one user, together: the games the  *)
(* user joins, the payments, the cash-outs and the scan for ended freezes.  *)
(***************************************************************************)
EXTENDS Stakes, Orders, Cashout

CONSTANT Loads \* bound: the games, orders and requests there may be at once

ASSUME LoadsAssumption == Loads \subseteq SUBSET (Games \union AllOrders \union Requests)

vars == <<profile, granted, overwritten, scan, cuts, game, order, way, request, deciding>>

Init ==
  /\ AccountInit
  /\ \E busy \in Loads : GamesInit(busy) /\ OrdersInit(busy) /\ RequestsInit(busy)

orders == <<order, way>>
requests == <<request, deciding>>

TaskStep == Lapse \/ ScanStep \/ ScanCut

Next ==
  \/ TaskStep /\ UNCHANGED <<game, orders, requests>>
  \/ \E g \in Games : GameStep(g) /\ UNCHANGED <<orders, requests>>
  \/ \E o \in AllOrders : OrderStep(o) /\ UNCHANGED <<game, requests>>
  \/ \E c \in Requests : RequestStep(c) /\ UNCHANGED <<game, orders>>

Spec == Init /\ [][Next]_vars

\* Time passes and the scheduler runs its tasks; the client of an order goes on
\* asking for it.
Fairness ==
  /\ WF_vars(Lapse /\ UNCHANGED <<game, orders, requests>>)
  /\ WF_vars(ScanStep /\ UNCHANGED <<game, orders, requests>>)
  /\ \A c \in Requests :
       /\ WF_vars(GrowOld(c) /\ UNCHANGED <<game, orders>>)
       /\ WF_vars(AutoReject(c) /\ UNCHANGED <<game, orders>>)
  /\ \A o \in AllOrders : WF_vars(Handles(o, "client") /\ UNCHANGED <<game, requests>>)

FairSpec == Spec /\ Fairness

TypeOK == ProfileTypeOK /\ GamesTypeOK /\ OrdersTypeOK /\ RequestsTypeOK

\* The credit is what the rows of games, payments and cash-outs say it is, unless a
\* join, a cancellation or the end of a freeze has written over a change it did not
\* see: settlements, top-ups, cash-outs and the creation of a game never lose one
\* ("concurrent settlements never lose updates", player_profile.rs:191).
Accounted ==
  \/ overwritten
  \/ \E start \in StartCredits :
       profile.credit = start + granted + Winnings + ToppedUp - CashedOut

\* Whatever is played, paid and begun meanwhile, a frozen account is free again one
\* day, and one that a cash-out has locked is unlocked without any administrator
\* ("auto-rejected and refunded after 1 day with no decision", README.md:62).
FreezeEnds == profile.frozen # "no" ~> profile.frozen = "no"
LockEnds == profile.locked ~> ~profile.locked
BlocksEnd == FreezeEnds /\ LockEnds

\* "reject refunds the reserved credits"; "pay then issues the PayPal payout": the
\* credits of a request leave it one way, and once.
LeavesOnce == \A c \in Requests : request[c].refunds + Cardinality(request[c].batches) <= 1

\* That is what the code does while the decisions of the command line and the scheduler
\* on a request do not cross: whatever they do to it one after the other, they give its
\* credits back or have PayPal pay it, and once.  Two decisions that have both read it as
\* open each do what they read it for, and so does a rejection after a payout whose
\* command died before the mark ('crossed').  Even then a request says it is paid only
\* if PayPal has paid it, and rejected only if its credits are back.
ClosedOnce ==
  \A c \in Requests :
    /\ request[c].crossed \/ request[c].refunds + Cardinality(request[c].batches) <= 1
    /\ request[c].status = "paid" => request[c].batches # {}
    /\ request[c].status = "rejected" => request[c].refunds > 0
==============================================================================
