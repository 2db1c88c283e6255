----------------------------- MODULE Idempotency -----------------------------
(***************************************************************************)
(* The guard that makes a retried play, evaluation or claim happen once:    *)
(* requests that carry one key, and the entry they share in Redis.  The     *)
(* entry is "pending" while a request works, then holds its outcome, and     *)
(* expires in either form.  A request may end without touching it again: a   *)
(* check of evaluate_round returns early, the client hangs up and the        *)
(* handler is dropped, or the process dies.                                  *)
(***************************************************************************)
EXTENDS Naturals, FiniteSets

CONSTANTS
  Calls,      \* bound: the requests of a client, the first and its retries
  MaxSlips    \* bound: errors of Redis or after a commit, and requests cut short

VARIABLES
  entry,      \* the key: "none", "pending" or "outcome"
  call,       \* request -> where it is
  holds,      \* the requests whose SET NX took the key
  effects,    \* how often the move was made
  loose,      \* whether the guard has let go: the entry expired or released too early, Redis failed
  slips

idemVars == <<entry, call, holds, effects, loose, slips>>

Init ==
  /\ entry = "none"
  /\ call = [c \in Calls |-> "new"]
  /\ holds = {} /\ effects = 0 /\ loose = FALSE /\ slips = 0

Goto(c, pc) == call' = [call EXCEPT ![c] = pc]
Slip == slips < MaxSlips /\ slips' = slips + 1
Ended == {"outcome", "refused", "gone"}

\* SET key "pending" NX EX; on an error the request goes on without the guard.
Acquire(c) ==
  /\ call[c] = "new"
  /\ \/ /\ entry = "none"
        /\ entry' = "pending" /\ holds' = holds \union {c} /\ Goto(c, "works")
        /\ UNCHANGED <<loose, slips>>
     \/ /\ entry # "none" /\ Goto(c, "reads")
        /\ UNCHANGED <<entry, holds, loose, slips>>
     \/ Slip /\ Goto(c, "works") /\ loose' = TRUE /\ UNCHANGED <<entry, holds>>
  /\ UNCHANGED effects

\* The GET is a call of its own: the entry may be gone or changed by then, and
\* whatever is not an outcome is a conflict.
Lookup(c) ==
  /\ call[c] = "reads"
  /\ \/ Goto(c, IF entry = "outcome" THEN "outcome" ELSE "conflict") /\ UNCHANGED slips
     \/ Slip /\ Goto(c, "conflict")
  /\ UNCHANGED <<entry, holds, effects, loose>>

\* The handler: it makes the move, or fails, or leaves by a check that comes
\* between acquire and the handler.  An error after the commit ends as a failure: the
\* key is released though the move is made.
Work(c) ==
  /\ call[c] = "works"
  /\ \/ Goto(c, "completes") /\ effects' = effects + 1 /\ UNCHANGED <<loose, slips>>
     \/ Slip /\ Goto(c, "releases") /\ effects' = effects + 1 /\ loose' = TRUE
     \/ (Goto(c, "releases") \/ Goto(c, "refused")) /\ UNCHANGED <<effects, loose, slips>>
  /\ UNCHANGED <<entry, holds>>

\* Mutant of Kept: the outcome is not kept for the retries.
KeptNot(c) == "none"
\* What complete writes, for the owner of the key.
Kept(c) == IF c \in holds THEN "outcome" ELSE entry

Complete(c) ==
  /\ call[c] = "completes" /\ Goto(c, "outcome")
  /\ \/ entry' = Kept(c) /\ UNCHANGED slips
     \/ Slip /\ UNCHANGED entry
  /\ UNCHANGED <<holds, effects, loose>>

\* The key is deleted whoever has it now.
Release(c) ==
  /\ call[c] = "releases" /\ Goto(c, "refused")
  /\ \/ entry' = (IF c \in holds THEN "none" ELSE entry) /\ UNCHANGED slips
     \/ Slip /\ UNCHANGED entry
  /\ UNCHANGED <<holds, effects, loose>>

\* The client hangs up or the server dies: the request ends where it is.
Cut(c) ==
  /\ call[c] \notin Ended \union {"new", "conflict"} /\ Slip
  /\ Goto(c, "gone")
  /\ UNCHANGED <<entry, holds, effects, loose>>

\* Mutant of Lapses: an entry without a time to live.
LapsesNever == FALSE
\* The time to live, five minutes.
Lapses == entry # "none"

Expire ==
  /\ Lapses
  /\ entry' = "none" /\ loose' = TRUE
  /\ UNCHANGED <<call, holds, effects, slips>>

\* A client whose retry was refused as a conflict asks again with the same key.
AskAgain(c) ==
  /\ call[c] = "conflict"
  /\ Goto(c, "new")
  /\ UNCHANGED <<entry, holds, effects, loose, slips>>

Step(c) == Acquire(c) \/ Lookup(c) \/ Work(c) \/ Complete(c) \/ Release(c)
Next == Expire \/ \E c \in Calls : Step(c) \/ Cut(c) \/ AskAgain(c)

Fairness == WF_idemVars(Expire) /\ \A c \in Calls : WF_idemVars(Step(c) \/ AskAgain(c))
Spec == Init /\ [][Next]_idemVars /\ Fairness
------------------------------------------------------------------------------
\* Properties.

IdemTypeOK ==
  /\ entry \in {"none", "pending", "outcome"}
  /\ call \in [Calls -> Ended \union {"new", "works", "reads", "completes", "releases",
                                     "conflict"}]
  /\ holds \subseteq Calls /\ effects \in 0..Cardinality(Calls)
  /\ loose \in BOOLEAN /\ slips \in 0..MaxSlips

\* Requests with one key make one move between them, in whatever order they come,
\* fail, hang up and are sent again, until the entry expires, Redis cannot be asked or
\* a move that was committed ends in an error (idempotency.rs).
OnceWhileKept == effects > 1 => loose

\* A client that goes on asking with its key is not refused for ever: a request
\* that leaves its entry pending blocks the key for its time to live only.
RetryAnswered == \A c \in Calls : call[c] # "new" ~> call[c] \in Ended
==============================================================================
