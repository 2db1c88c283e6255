------------------------------- MODULE Cashout -------------------------------
(***************************************************************************)
(* Requests to be paid out in money.  The request takes the credits and     *)
(* locks the account; an administrator's command line and the scheduler     *)
(* decide on it, each in a transaction that reads the request, and then     *)
(* writes the profile and the request.  The PayPal payout comes between two *)
(* of them.                                                                 *)
(***************************************************************************)
EXTENDS Profile

CONSTANTS
  Requests, \* requests of the user
  Amount,   \* credits of a request
  MaxHands  \* bound: commands on a request under way at once

ASSUME AmountAssumption == Amount \in Nat \ {0} /\ MaxHands \in Nat
ASSUME RequestsAssumption == IsFiniteSet(Requests)

VARIABLES
  request, \* request -> its status and age, its refunds, and the batches PayPal has paid
  deciding \* request -> the decisions that have read it and will write it

\* approve, reject and pay of the command line, and auto_reject_expired; a payment
\* goes on to mark_paid, which reads the request again.
Decisions == {"approve", "reject", "auto", "pay", "confirm", "paid"}

RequestsInit(cs) ==
  /\ request = [c \in Requests |->
                  [status |-> IF c \in cs THEN "none" ELSE "absent", old |-> FALSE,
                   refunds |-> 0, batches |-> {}, crossed |-> FALSE]]
  /\ deciding = [c \in Requests |-> {}]

Becomes(c, status) == request' = [request EXCEPT ![c].status = status]

\* The lock is asked first ...
AskCashout(c) ==
  /\ request[c].status = "none" /\ ~profile.locked
  /\ Becomes(c, "asked")
  /\ UNCHANGED <<deciding, account, scan, cuts>>

\* ... and then the credits are taken if they are there.
MakeRequest(c) ==
  /\ request[c].status = "asked"
  /\ IF profile.credit >= Amount
     THEN /\ profile' = [profile EXCEPT !.credit = @ - Amount, !.locked = TRUE]
          /\ Becomes(c, "requested")
     ELSE Becomes(c, "none") /\ UNCHANGED profile
  /\ UNCHANGED <<deciding, granted, overwritten, scan, cuts>>

\* cashout_auto_reject_after_secs have passed.
GrowOld(c) ==
  /\ request[c].status = "requested" /\ ~request[c].old
  /\ request' = [request EXCEPT ![c].old = TRUE]
  /\ UNCHANGED <<deciding, account, scan, cuts>>

\* What a decision asks of the status it reads.
Allows(c, d) ==
  CASE d = "approve" -> request[c].status = "requested"
    [] d = "reject" -> request[c].status \in {"requested", "approved"}
    [] d = "auto" -> request[c].status = "requested" /\ request[c].old
    [] d = "pay" -> request[c].status = "approved"
    [] OTHER -> FALSE

Consider(c, d) ==
  /\ d \notin deciding[c] /\ Allows(c, d)
  /\ d = "auto" \/ Cardinality(deciding[c] \ {"auto"}) < MaxHands
  /\ deciding' = [deciding EXCEPT ![c] = @ \union {d}]
  /\ UNCHANGED <<request, account, scan, cuts>>

Decided(c, d) == deciding' = [deciding EXCEPT ![c] = @ \ {d}]
Proceed(c, d, e) == deciding' = [deciding EXCEPT ![c] = (@ \ {d}) \union {e}]

\* The credits of the request leave by d while another decision on it is open, or
\* are given back when PayPal has paid and the command died before it said so.
Crossing(c, d) ==
  \/ request[c].crossed
  \/ deciding[c] \ {d} # {}
  \/ d \in {"reject", "auto"} /\ request[c].status = "approved" /\ request[c].batches # {}

\* Mutant of Final: an approved request that is rejected stays approved.
FinalRequested(c, status) ==
  IF request[c].status = "requested" THEN status ELSE request[c].status

\* finalize_in_txn: the update looks at the status, the unlock does not.
Final(c, status) ==
  IF request[c].status \in {"requested", "approved"} THEN status ELSE request[c].status

ApproveRequest(c) ==
  /\ "approve" \in deciding[c]
  /\ Becomes(c, Final(c, "approved"))
  /\ profile' = [profile EXCEPT !.locked = FALSE]
  /\ Decided(c, "approve")
  /\ UNCHANGED <<granted, overwritten, scan, cuts>>

\* Mutant of Unlocked: the lock stays.
UnlockedNever(pr) == pr

\* unlock_user_in_txn
Unlocked(pr) == [pr EXCEPT !.locked = FALSE]

\* reject_in_txn: the credits are given back before the status is looked at.
RejectRequest(c, d) ==
  /\ d \in {"reject", "auto"} /\ d \in deciding[c]
  /\ request' = [request EXCEPT ![c].status = Final(c, "rejected"),
                                ![c].refunds = @ + 1,
                                ![c].crossed = Crossing(c, d)]
  /\ profile' = Unlocked([profile EXCEPT !.credit = @ + Amount])
  /\ Decided(c, d)
  /\ UNCHANGED <<granted, overwritten, scan, cuts>>

\* sender_batch_id: one for the request, whatever the attempt.
SenderBatchId(c) == 0

\* create_payout: PayPal pays a batch it has not seen.  The answer says so; or it is
\* lost, the payment made; or PayPal refuses the batch as one it has seen.
PayOut(c) ==
  /\ "pay" \in deciding[c]
  /\ request' = [request EXCEPT ![c].batches = @ \union {SenderBatchId(c)},
                                ![c].crossed = Crossing(c, "pay")]
  /\ \/ Proceed(c, "pay", "confirm") /\ UNCHANGED cuts
     \/ Decided(c, "pay") /\ CutShort
     \/ Decided(c, "pay") /\ SenderBatchId(c) \in request[c].batches /\ UNCHANGED cuts
  /\ UNCHANGED <<account, scan>>

\* mark_paid reads the request again, and gives up if it is no longer approved ...
ConfirmPayment(c) ==
  /\ "confirm" \in deciding[c]
  /\ IF request[c].status = "approved" THEN Proceed(c, "confirm", "paid")
     ELSE Decided(c, "confirm")
  /\ UNCHANGED <<request, account, scan, cuts>>

\* ... but writes without asking.
MarkPaid(c) ==
  /\ "paid" \in deciding[c]
  /\ request' = [request EXCEPT ![c].status = "paid", ![c].crossed = Crossing(c, "paid")]
  /\ Decided(c, "paid")
  /\ UNCHANGED <<account, scan, cuts>>

\* The command or the task dies.
DecisionCut(c) ==
  /\ \E d \in deciding[c] : Decided(c, d)
  /\ CutShort
  /\ UNCHANGED <<request, account, scan>>

RequestStep(c) ==
  \/ AskCashout(c) \/ MakeRequest(c) \/ GrowOld(c)
  \/ \E d \in Decisions : Consider(c, d) \/ RejectRequest(c, d)
  \/ ApproveRequest(c) \/ PayOut(c) \/ ConfirmPayment(c) \/ MarkPaid(c) \/ DecisionCut(c)

AutoReject(c) == Consider(c, "auto") \/ RejectRequest(c, "auto")

\* What the requests have taken from the profile and not given back.
Charged == {c \in Requests : request[c].status \notin {"absent", "none", "asked"}}
Refunded == UNION {{c} \X (1..request[c].refunds) : c \in Requests}
CashedOut == Amount * (Cardinality(Charged) - Cardinality(Refunded))

RequestsTypeOK ==
  /\ \A c \in Requests :
       /\ request[c].status \in {"absent", "none", "asked", "requested", "approved",
                                 "rejected", "paid"}
       /\ request[c].refunds \in Nat /\ request[c].batches \subseteq Nat
       /\ request[c].crossed \in BOOLEAN
  /\ deciding \in [Requests -> SUBSET Decisions]
==============================================================================
