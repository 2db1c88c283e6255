------------------------------- MODULE Breaker -------------------------------
(***************************************************************************)
(* Publishing to RabbitMQ behind a circuit breaker shared by the tasks of a  *)
(* process.  Its state, its counter and its cooldown have a lock or an       *)
(* atomic each, so that asking for leave and recording a result are several  *)
(* steps, and those of other tasks come between them.                        *)
(***************************************************************************)
EXTENDS Naturals

CONSTANTS
  Tasks,        \* bound: the tasks that publish
  Threshold,    \* consecutive failures that open the breaker, 5 in the code
  MaxRetries,   \* attempts of a publish, 3 in the code
  MaxOutages    \* bound: attempts that fail

VARIABLES
  breaker,    \* "Closed", "Open" or "HalfOpen"
  failures,   \* consecutive failures, counted up to the threshold
  cooled,     \* whether the cooldown has passed
  publisher,  \* task -> where its publish is, and its attempts
  outages

breakerVars == <<breaker, failures, cooled, publisher, outages>>

Idle == [pc |-> "idle", tries |-> 0]

Init ==
  /\ breaker = "Closed" /\ failures = 0 /\ cooled = FALSE
  /\ publisher = [t \in Tasks |-> Idle] /\ outages = 0

At(t, pc) == publisher[t].pc = pc
Goto(t, pc) == publisher' = [publisher EXCEPT ![t] = [pc |-> pc, tries |-> 0]]

\* allow_request reads the state and lets its lock go before it looks at the
\* cooldown.
Ask(t) ==
  /\ At(t, "idle")
  /\ Goto(t, IF breaker = "Open" THEN "open" ELSE "attempt")
  /\ UNCHANGED <<breaker, failures, cooled, outages>>

\* A publish that is refused has its caller fall back.
AskCooldown(t) ==
  /\ At(t, "open")
  /\ Goto(t, IF cooled THEN "half" ELSE "idle")
  /\ UNCHANGED <<breaker, failures, cooled, outages>>

\* The state is written whatever it has become.
OpenHalf(t) ==
  /\ At(t, "half")
  /\ breaker' = "HalfOpen" /\ Goto(t, "attempt")
  /\ UNCHANGED <<failures, cooled, outages>>

Attempt(t) ==
  /\ At(t, "attempt")
  /\ \/ Goto(t, "success") /\ UNCHANGED outages
     \/ /\ outages < MaxOutages /\ outages' = outages + 1
        /\ IF publisher[t].tries + 1 = MaxRetries THEN Goto(t, "failure")
           ELSE publisher' = [publisher EXCEPT ![t].tries = @ + 1]
  /\ UNCHANGED <<breaker, failures, cooled>>

\* record_success: the counter first, then the state.
ResetCount(t) ==
  /\ At(t, "success")
  /\ failures' = 0 /\ Goto(t, "close")
  /\ UNCHANGED <<breaker, cooled, outages>>

\* Mutant of Closes: a success of the probe leaves the breaker half open.
ClosesNot == breaker
Closes == IF breaker = "HalfOpen" THEN "Closed" ELSE breaker

Close(t) ==
  /\ At(t, "close")
  /\ breaker' = Closes /\ Goto(t, "idle")
  /\ UNCHANGED <<failures, cooled, outages>>

\* record_failure: the counter first, then the state.
Count(t) ==
  /\ At(t, "failure")
  /\ failures' = IF failures < Threshold THEN failures + 1 ELSE failures
  /\ Goto(t, IF failures' = Threshold THEN "opens" ELSE "idle")
  /\ UNCHANGED <<breaker, cooled, outages>>

\* Only a closed breaker opens: the failure of a probe leaves it half open.
Open(t) ==
  /\ At(t, "opens")
  /\ IF breaker = "Closed" THEN breaker' = "Open" /\ cooled' = FALSE
     ELSE UNCHANGED <<breaker, cooled>>
  /\ Goto(t, "idle")
  /\ UNCHANGED <<failures, outages>>

CoolDown ==
  /\ breaker = "Open" /\ ~cooled
  /\ cooled' = TRUE
  /\ UNCHANGED <<breaker, failures, publisher, outages>>

Step(t) ==
  \/ Ask(t) \/ AskCooldown(t) \/ OpenHalf(t) \/ Attempt(t)
  \/ ResetCount(t) \/ Close(t) \/ Count(t) \/ Open(t)

Next == CoolDown \/ \E t \in Tasks : Step(t)

\* The tasks go on publishing, and time passes.
Fairness == WF_breakerVars(CoolDown) /\ \A t \in Tasks : WF_breakerVars(Step(t))
Spec == Init /\ [][Next]_breakerVars /\ Fairness
------------------------------------------------------------------------------
\* Properties.

BreakerTypeOK ==
  /\ breaker \in {"Closed", "Open", "HalfOpen"} /\ failures \in 0..Threshold
  /\ cooled \in BOOLEAN /\ outages \in 0..MaxOutages
  /\ publisher \in [Tasks -> [pc : {"idle", "open", "half", "attempt", "success", "close",
                                    "failure", "opens"}, tries : 0..(MaxRetries - 1)]]

\* Once publishing works again the breaker closes, and stays closed, whichever way
\* the tasks that ask, succeed and fail cross (messaging/mod.rs).
BreakerCloses == <>[](breaker = "Closed")

\* "HALF_OPEN --> OPEN : probe fails" (docs/DESIGN.md): the state is recorded as a
\* failure's end with the breaker half open, which must not stay half open.
ProbeReopens ==
  [][\A t \in Tasks : At(t, "opens") /\ ~At(t, "opens")' /\ breaker = "HalfOpen"
                        => breaker' = "Open"]_breakerVars
==============================================================================
