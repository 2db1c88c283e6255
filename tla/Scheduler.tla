------------------------------- MODULE Scheduler -------------------------------
(***************************************************************************)
(* A task of the scheduler worker, check_expired_freezes, and what it works   *)
(* off: a tick lists what is due, and one after the other is changed in the    *)
(* database and its owner told by a mail the task waits for.  A tick is cut by  *)
(* its timeout wherever it is, the task by the end of the process.  The stalled *)
(* games and runs are told by mail in the same loop; the cash-outs rejected are  *)
(* all changed before the first mail, which only leaves more mails to be lost.  *)
(***************************************************************************)
EXTENDS Naturals

CONSTANTS
  Items,       \* the freezes that end
  MaxFaults    \* bound: statements and mails that fail, processes that end

VARIABLES
  state,    \* item -> "waits", "due", or "done"
  mails,    \* item -> how many mails its owner got
  task,     \* its place in the tick, what is left of the list and the item in hand
  smtp,     \* whether the mail server answers; it may stop for good
  process,  \* "up"; "draining" for the five seconds after a signal; "down"
  faults, excused   \* the items whose mail failed, or was cut

schedVars == <<state, mails, task, smtp, process, faults, excused>>

Rest == [pc |-> "rest", left |-> {}, item |-> {}]

Init ==
  /\ state = [i \in Items |-> "waits"] /\ mails = [i \in Items |-> 0]
  /\ task = Rest /\ smtp = TRUE /\ process = "up"
  /\ faults = 0 /\ excused = {}

Fault == faults < MaxFaults /\ faults' = faults + 1

FallDue ==
  /\ \E i \in Items : state[i] = "waits" /\ state' = [state EXCEPT ![i] = "due"]
  /\ UNCHANGED <<mails, task, smtp, process, faults, excused>>

\* The tick comes and the task lists what is due; it takes no tick once the signal
\* to stop has come.
Tick ==
  /\ task.pc = "rest" /\ process = "up"
  /\ LET list == {i \in Items : state[i] = "due"}
     IN list # {} /\ task' = [pc |-> "next", left |-> list, item |-> {}]
  /\ UNCHANGED <<state, mails, smtp, process, faults, excused>>

\* What is done with an item: it is changed, and its mail comes next.
Order == <<"change", "mail">>
Then == IF task.pc = Order[1] THEN [task EXCEPT !.pc = Order[2]]
        ELSE [task EXCEPT !.pc = "next", !.item = {}]

TakeNext ==
  /\ task.pc = "next" /\ process # "down"
  /\ \/ task.left = {} /\ task' = Rest
     \/ \E i \in task.left :
          task' = [pc |-> Order[1], left |-> task.left \ {i}, item |-> {i}]
  /\ UNCHANGED <<state, mails, smtp, process, faults, excused>>

\* When the statement fails the loop goes on with the next item.
Changed(items) == [i \in Items |-> IF i \in items THEN "done" ELSE state[i]]
ChangeOne ==
  /\ task.pc = "change" /\ process # "down"
  /\ \/ state' = Changed(task.item) /\ task' = Then /\ UNCHANGED faults
     \/ Fault /\ task' = [task EXCEPT !.pc = "next", !.item = {}] /\ UNCHANGED state
  /\ UNCHANGED <<mails, smtp, process, excused>>

\* The mail is sent, or fails and is logged; while the server does not answer the
\* task waits.
MailOne ==
  /\ task.pc = "mail" /\ process # "down" /\ smtp
  /\ task' = Then
  /\ \/ /\ mails' = [i \in Items |-> IF i \in task.item THEN mails[i] + 1 ELSE mails[i]]
        /\ UNCHANGED <<faults, excused>>
     \/ Fault /\ excused' = excused \union task.item /\ UNCHANGED mails
  /\ UNCHANGED <<state, smtp, process>>

\* The fifteen or thirty seconds of the tick are over, with a mail or a statement under
\* way: the rest is for the next one.
\* Mutant of CutShort: the task is not entered again.
CutShortEnds == [Rest EXCEPT !.pc = "ended"]
CutShort == Rest
Timeout ==
  /\ process # "down" /\ task' = CutShort /\ excused' = excused \union task.item
  /\ \/ task.pc = "mail" /\ ~smtp /\ UNCHANGED <<state, faults>>
     \/ task.pc = "change" /\ Fault /\ state' \in {state, Changed(task.item)}
  /\ UNCHANGED <<mails, smtp, process>>

\* The process is told to stop, or another of its tasks panics and it exits; a task
\* that is still at work after five seconds is aborted.  Its container is started
\* again.
Signal ==
  /\ process = "up" /\ Fault /\ process' = "draining"
  /\ UNCHANGED <<state, mails, task, smtp, excused>>
Abort ==
  /\ \/ process = "draining" /\ UNCHANGED faults
     \/ process = "up" /\ Fault
  /\ process' = "down" /\ task' = Rest
  /\ excused' = IF task.pc = "mail" THEN excused \union task.item ELSE excused
  /\ UNCHANGED <<state, mails, smtp>>
Restart ==
  /\ process = "down" /\ process' = "up"
  /\ UNCHANGED <<state, mails, task, smtp, faults, excused>>

MailsHang ==
  /\ smtp /\ smtp' = FALSE
  /\ UNCHANGED <<state, mails, task, process, faults, excused>>

TaskStep == Tick \/ TakeNext \/ ChangeOne \/ MailOne \/ Timeout
ProcessStep == (process = "draining" /\ Abort) \/ Restart
Next == FallDue \/ TaskStep \/ MailsHang \/ Signal \/ Abort \/ Restart

\* The task is polled, its timeout fires, the process ends and is started again.
Fairness == WF_schedVars(TaskStep) /\ WF_schedVars(ProcessStep)
Spec == Init /\ [][Next]_schedVars /\ Fairness
------------------------------------------------------------------------------
\* Properties.

\* What is due is done, though the mail server never answers and the process is
\* stopped in the middle of the list.
DueHandled == \A i \in Items : state[i] = "due" ~> state[i] = "done"

\* Nobody is told twice, or before it is so; one whose item is done was told, is being
\* told, or is excused.
ToldOnce == \A i \in Items :
  /\ mails[i] <= 1
  /\ mails[i] = 1 => state[i] = "done"
  /\ state[i] = "done" => mails[i] = 1 \/ i \in excused \/ i \in task.item
==============================================================================
