----------------------------- MODULE RateLimiter -----------------------------
(***************************************************************************)
(* The limiter of one endpoint for one address: a counter in Redis that      *)
(* lives for a window from the first request it counts, and, where Redis      *)
(* fails, the times of the recent requests in the memory of the server.       *)
(***************************************************************************)
EXTENDS Naturals, Sequences, FiniteSets

CONSTANTS
  Servers,      \* bound: the processes behind the endpoint; one started anew is another
  MaxRequests,
  Window,       \* seconds
  Horizon       \* bound: the last second

VARIABLES
  clock,
  counter,     \* the key in Redis: its count and the second it expires
  admitted,    \* server or "redis" -> seconds of the requests it let through
  recent       \* server -> those of them that it has in its memory

limiterVars == <<clock, counter, recent, admitted>>

Stores == Servers \union {"redis"}
NoCounter == [count |-> 0, until |-> 0]

Init ==
  /\ clock = 0 /\ counter = NoCounter
  /\ recent = [s \in Servers |-> {}]
  /\ admitted = [s \in Stores |-> <<>>]

Admit(s) == admitted' = [admitted EXCEPT ![s] = Append(@, clock)]

\* INCR and EXPIRE in one script: requests that are refused count, but the time
\* to live is set by the first only.
Counted ==
  IF counter.count > 0 THEN [counter EXCEPT !.count = IF @ > MaxRequests THEN @ ELSE @ + 1]
  ELSE [count |-> 1, until |-> clock + Window]

CheckRedis ==
  /\ clock < Horizon
  /\ counter' = Counted
  /\ IF counter'.count <= MaxRequests THEN Admit("redis") ELSE UNCHANGED admitted
  /\ UNCHANGED <<clock, recent>>

\* Mutant of Fresh: the second at the edge of the window is forgotten early.
FreshEarly(t) == clock - t < Window - 1
Fresh(t) == clock - t < Window

\* Redis fails or there is none: the store of the server forgets what is past, and
\* takes the request in when it is let through.
CheckMemory(s) ==
  /\ clock < Horizon
  /\ LET kept == {i \in recent[s] : Fresh(admitted[s][i])} IN
       IF Cardinality(kept) >= MaxRequests
         THEN recent' = [recent EXCEPT ![s] = kept] /\ UNCHANGED admitted
         ELSE /\ Admit(s)
              /\ recent' = [recent EXCEPT ![s] = kept \union {Len(admitted[s]) + 1}]
  /\ UNCHANGED <<clock, counter>>

Tick ==
  /\ clock < Horizon
  /\ clock' = clock + 1
  /\ counter' = IF counter.until <= clock' THEN NoCounter ELSE counter
  /\ UNCHANGED <<recent, admitted>>

Next == Tick \/ CheckRedis \/ \E s \in Servers : CheckMemory(s)
Spec == Init /\ [][Next]_limiterVars
------------------------------------------------------------------------------
\* Properties.

LimiterTypeOK ==
  /\ clock \in 0..Horizon /\ counter.count \in 0..(MaxRequests + 1)
  /\ \A s \in Servers : recent[s] \subseteq DOMAIN admitted[s]
  /\ \A s \in Stores : \A i \in DOMAIN admitted[s] : admitted[s][i] \in 0..clock

AdmittedFrom(s, t) ==
  Cardinality({i \in DOMAIN admitted[s] : admitted[s][i] \in t..(t + Window - 1)})

\* In no window does a server let through more than the limit from its memory, nor
\* Redis more than twice the limit, whichever of them are asked, refuse and expire
\* (rate_limiter.rs).
LimitHolds ==
  \A t \in 0..Horizon :
    /\ \A s \in Servers : AdmittedFrom(s, t) <= MaxRequests
    /\ AdmittedFrom("redis", t) <= 2 * MaxRequests

\* "Redis-backed sliding window per endpoint" (README.md): in no window does Redis
\* let through more than the limit.
WindowSlides == \A t \in 0..Horizon : AdmittedFrom("redis", t) <= MaxRequests
==============================================================================
