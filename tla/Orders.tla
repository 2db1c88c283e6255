-------------------------------- MODULE Orders --------------------------------
(***************************************************************************)
(* The PayPal orders of one user: top-ups, which add credit, and payments   *)
(* that end a freeze, which set it.  An order that the user has approved is *)
(* captured by a request of the client or by the return page, or by both,   *)
(* each as often as they are repeated; a handler is a few steps that other  *)
(* handlers, and the death of its own process, come between.  PayPal and    *)
(* Redis are modelled from how the handlers use them.                       *)
(***************************************************************************)
EXTENDS Profile

CONSTANTS
  TopUps,      \* orders that add TopUpCredit
  Unfreezes,   \* orders that set PaidCredit and end the freeze
  TopUpCredit, \* topup_credit_amount
  MonthlyCap,  \* payments the monthly limit leaves room for
  MaxRows      \* bound: rows of topup_transactions for one unfreezing

AllOrders == TopUps \union Unfreezes
Ways == {"client", "page"}
ASSUME OrdersAssumption ==
  /\ TopUps \cap Unfreezes = {}
  /\ TopUpCredit \in Nat /\ MonthlyCap \in Nat /\ MaxRows \in Nat \ {0}
  /\ IsFiniteSet(AllOrders)

VARIABLES
  order,  \* order -> its state at PayPal, its keys in Redis, its rows, its credits
  way     \* order -> way -> where the handler stands

NoOrder == [paypal |-> "none", mapped |-> FALSE, mark |-> "none", rows |-> 0,
            credited |-> 0]

OrdersInit(os) ==
  /\ order = [o \in AllOrders |->
                [NoOrder EXCEPT !.paypal = IF o \in os THEN "none" ELSE "absent"]]
  /\ way = [o \in AllOrders |-> [w \in Ways |-> "idle"]]

Goes(o, w, pc) == way' = [way EXCEPT ![o][w] = pc]

\* The rows of topup_transactions, of either kind.
Rows == {r \in AllOrders \X (1..MaxRows) : r[2] <= order[r[1]].rows}

\* Nobody orders more than the monthly limit, by the rows there are now.
WithinLimit == Cardinality(Rows) < MonthlyCap

\* The user of the order is kept in Redis, if Redis takes it.
Opens(o) ==
  /\ order[o].paypal = "none" /\ WithinLimit
  /\ \E mapped \in BOOLEAN :
       order' = [order EXCEPT ![o].paypal = "open", ![o].mapped = mapped]
  /\ UNCHANGED <<way, account, scan, cuts>>

\* An account that is frozen or has nothing left cannot be topped up.
CreateTopUpOrder(o) ==
  /\ o \in TopUps /\ profile.frozen # "until" /\ profile.credit > 0
  /\ Opens(o)

CreateUnfreezeOrder(o) == o \in Unfreezes /\ Opens(o)

\* The user approves the payment at PayPal.
Approve(o) ==
  /\ order[o].paypal = "open"
  /\ order' = [order EXCEPT ![o].paypal = "approved"]
  /\ UNCHANGED <<way, account, scan, cuts>>

\* A request for an order comes in; the page knows its user from Redis only.
Asked(o, w) ==
  /\ way[o][w] = "idle" /\ order[o].paypal \notin {"absent", "none"}
  /\ w = "page" => order[o].mapped

\* exists_by_order_id: an order that has its row is not captured again.
Unrecorded(o, w) ==
  /\ o \in TopUps /\ Asked(o, w) /\ order[o].rows = 0
  /\ Goes(o, w, "capture")
  /\ UNCHANGED <<order, account, scan, cuts>>

TopUpBegin(o) == Unrecorded(o, "client")
TopUpReturn(o) == Unrecorded(o, "page")

\* Mutant of IsDone: a payment that is being processed is taken for done.
IsDoneEarly(mark) == mark # "none"

\* The mark that stops a request to unfreeze.
IsDone(mark) == mark = "completed"

\* The client's request goes on where a marked one has stopped.
UnfreezeBegin(o) ==
  /\ o \in Unfreezes /\ Asked(o, "client") /\ ~IsDone(order[o].mark)
  /\ Goes(o, "client", IF order[o].mark = "processing" THEN "finalize" ELSE "capture")
  /\ UNCHANGED <<order, account, scan, cuts>>

\* The page marks the order before it captures it.
UnfreezeReturn(o) ==
  /\ o \in Unfreezes /\ Asked(o, "page") /\ ~IsDone(order[o].mark)
  /\ order' = [order EXCEPT ![o].mark = "processing"]
  /\ Goes(o, "page", "capture")
  /\ UNCHANGED <<account, scan, cuts>>

\* PayPal captures an order once and answers a repeated request alike.  The
\* client's request to unfreeze is marked now.
Capture(o, w) ==
  /\ way[o][w] = "capture" /\ order[o].paypal \in {"approved", "captured"}
  /\ order' = [order EXCEPT ![o].paypal = "captured",
                            ![o].mark = IF o \in Unfreezes /\ w = "client"
                                        THEN "processing" ELSE @]
  /\ Goes(o, w, "finalize")
  /\ UNCHANGED <<account, scan, cuts>>

\* The capture is refused, or its answer is lost before or after PayPal has
\* captured.  The page takes its mark back.
CaptureFails(o, w) ==
  /\ way[o][w] = "capture"
  /\ \E done \in {order[o].paypal} \union
                 (IF order[o].paypal = "approved" THEN {"captured"} ELSE {}) :
       order' = [order EXCEPT ![o].paypal = done,
                              ![o].mark = IF o \in Unfreezes /\ w = "page"
                                          THEN "none" ELSE @]
  /\ IF order[o].paypal = "open" THEN UNCHANGED cuts ELSE CutShort
  /\ Goes(o, w, "idle")
  /\ UNCHANGED <<account, scan>>

\* Mutant of Absent: the insert has no ON CONFLICT clause to skip it.
AbsentAlways(o) == TRUE

\* insert_order_if_absent_in_txn inserts.
Absent(o) == order[o].rows = 0

\* finalize_topup: whoever inserts the row adds the credit.
FinalizeTopUp(o, w) ==
  /\ way[o][w] = "finalize" /\ o \in TopUps
  /\ IF Absent(o)
     THEN /\ order' = [order EXCEPT ![o].rows = @ + 1, ![o].credited = @ + 1]
          /\ AddCredit(TopUpCredit)
     ELSE UNCHANGED <<order, profile>>
  /\ Goes(o, w, "idle")
  /\ UNCHANGED <<granted, overwritten, scan, cuts>>

\* finalize_unfreeze: a row, and the credit is set, each time.
FinalizeUnfreeze(o, w) ==
  /\ way[o][w] = "finalize" /\ o \in Unfreezes /\ order[o].rows < MaxRows
  /\ order' = [order EXCEPT ![o].rows = @ + 1]
  /\ profile' = [profile EXCEPT !.credit = PaidCredit, !.frozen = "no"]
  /\ granted' = granted + PaidCredit - profile.credit
  /\ Goes(o, w, "mark")
  /\ UNCHANGED <<overwritten, scan, cuts>>

MarkCompleted(o, w) ==
  /\ way[o][w] = "mark"
  /\ order' = [order EXCEPT ![o].mark = "completed"]
  /\ Goes(o, w, "idle")
  /\ UNCHANGED <<account, scan, cuts>>

\* The process dies, or the database refuses the transaction.
RequestCut(o, w) ==
  /\ way[o][w] # "idle" /\ CutShort
  /\ Goes(o, w, "idle")
  /\ UNCHANGED <<order, account, scan>>

\* The keys of the order in Redis expire, or Redis loses them.
Forget(o) ==
  /\ order[o].mapped \/ order[o].mark # "none"
  /\ order' = [order EXCEPT ![o].mapped = FALSE, ![o].mark = "none"]
  /\ UNCHANGED <<way, account, scan, cuts>>

Handles(o, w) ==
  \/ w = "client" /\ (TopUpBegin(o) \/ UnfreezeBegin(o))
  \/ w = "page" /\ (TopUpReturn(o) \/ UnfreezeReturn(o))
  \/ Capture(o, w) \/ FinalizeTopUp(o, w) \/ FinalizeUnfreeze(o, w) \/ MarkCompleted(o, w)

OrderStep(o) ==
  \/ CreateTopUpOrder(o) \/ CreateUnfreezeOrder(o) \/ Approve(o) \/ Forget(o)
  \/ \E w \in Ways : Handles(o, w) \/ CaptureFails(o, w) \/ RequestCut(o, w)

\* What the top-ups have added, by their rows.
ToppedUp == TopUpCredit * Cardinality({r \in Rows : r[1] \in TopUps})

OrdersTypeOK ==
  /\ order \in [AllOrders ->
       [paypal : {"absent", "none", "open", "approved", "captured"},
        mapped : BOOLEAN, mark : {"none", "processing", "completed"},
        rows : 0..MaxRows, credited : 0..MaxRows]]
  /\ \A o \in TopUps : order[o].rows <= 1
  /\ way \in [AllOrders -> [Ways -> {"idle", "capture", "finalize", "mark"}]]

\* "each may be repeated": a top-up adds its credit at most once, and only when
\* PayPal has the money, whatever requests race and die ("the insert is a no-op
\* and no credit is applied", topup.rs:418).
CreditedOnce ==
  \A o \in TopUps :
    order[o].credited <= 1 /\ (order[o].credited = 1 => order[o].paypal = "captured")

\* A payment PayPal has captured is applied to the account, provided its user goes
\* on asking: no lost answer, death or lapsed key may leave it looking done.
PaidIsApplied ==
  \A o \in AllOrders : order[o].paypal = "captured" ~> order[o].rows > 0
==============================================================================
