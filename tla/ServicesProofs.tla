---------------------------- MODULE ServicesProofs ----------------------------
(***************************************************************************)
(* Proofs about the services of Services.tla, each for itself: what the     *)
(* idempotency guard, the limiter, the accounts, the cached pages and the   *)
(* hands promise, for every value of the constants.                         *)
(***************************************************************************)
EXTENDS Services, SequencesExt, FiniteSetTheorems, TLAPS

------------------------------------------------------------------------------
\* The idempotency guard.

Works(c) == call[c] \in {"works", "completes", "releases"}

\* While the guard has not let go, the one request that works has the key and has not
\* made the move, unless it is to write the outcome; once the move is made the key is
\* there and nobody works.
GuardHolds ==
  /\ \A c \in Calls : Works(c) => c \in holds /\ entry = "pending"
  /\ \A c, d \in Calls : Works(c) /\ Works(d) => c = d
  /\ effects # 0 =>
       effects = 1 /\ entry # "none" /\ \A c \in Calls : call[c] \notin {"works", "releases"}

GuardInv ==
  /\ effects \in Nat /\ loose \in BOOLEAN
  /\ call \in [Calls -> {"new", "works", "reads", "completes", "releases", "conflict", "outcome",
                         "refused", "gone"}]
  /\ loose = FALSE => GuardHolds

LEMMA GuardStep ==
  ASSUME GuardInv, Guard!Next
  PROVE  GuardInv'
<1>1. CASE Guard!Expire
  BY <1>1 DEF Guard!Expire, GuardInv
<1>2. ASSUME NEW c \in Calls, Guard!Acquire(c)
      PROVE  GuardInv'
  BY <1>2 DEF Guard!Acquire, Guard!Goto, Guard!Slip, GuardInv, GuardHolds, Works
<1>3. ASSUME NEW c \in Calls, Guard!Lookup(c)
      PROVE  GuardInv'
  BY <1>3 DEF Guard!Lookup, Guard!Goto, Guard!Slip, GuardInv, GuardHolds, Works
<1>4. ASSUME NEW c \in Calls, Guard!Work(c)
      PROVE  GuardInv'
  <2>1. CASE Guard!Goto(c, "completes") /\ effects' = effects + 1 /\ UNCHANGED <<entry, holds, loose>>
    BY <1>4, <2>1 DEF Guard!Work, Guard!Goto, GuardInv, GuardHolds, Works
  <2>2. CASE Guard!Goto(c, "releases") /\ effects' = effects + 1 /\ loose' = TRUE
    BY <2>2 DEF Guard!Goto, GuardInv
  <2>3. CASE /\ Guard!Goto(c, "releases") \/ Guard!Goto(c, "refused")
             /\ UNCHANGED <<entry, holds, effects, loose>>
    BY <1>4, <2>3 DEF Guard!Work, Guard!Goto, GuardInv, GuardHolds, Works
  <2>4. QED
    BY <1>4, <2>1, <2>2, <2>3 DEF Guard!Work
<1>5. ASSUME NEW c \in Calls, Guard!Complete(c)
      PROVE  GuardInv'
  BY <1>5 DEF Guard!Complete, Guard!Goto, Guard!Kept, GuardInv, GuardHolds, Works
<1>6. ASSUME NEW c \in Calls, Guard!Release(c)
      PROVE  GuardInv'
  BY <1>6 DEF Guard!Release, Guard!Goto, GuardInv, GuardHolds, Works
<1>7. ASSUME NEW c \in Calls, Guard!Cut(c)
      PROVE  GuardInv'
  <2>1. call' = [call EXCEPT ![c] = "gone"] /\ UNCHANGED <<entry, holds, effects, loose>>
    BY <1>7 DEF Guard!Cut, Guard!Goto
  <2>2. QED
    BY <2>1 DEF GuardInv, GuardHolds, Works
<1>8. ASSUME NEW c \in Calls, Guard!AskAgain(c)
      PROVE  GuardInv'
  BY <1>8 DEF Guard!AskAgain, Guard!Goto, GuardInv, GuardHolds, Works
<1>9. QED
  BY <1>1, <1>2, <1>3, <1>4, <1>5, <1>6, <1>7, <1>8 DEF Guard!Next, Guard!Step

LEMMA GuardInit == Init => GuardInv
<1> SUFFICES ASSUME Guard!Init PROVE GuardInv
  BY DEF Init
<1>1. /\ effects = 0 /\ loose = FALSE /\ call = [c \in Calls |-> "new"]
  BY DEF Guard!Init
<1>2. \A c \in Calls : ~Works(c)
  BY <1>1 DEF Works
<1>3. QED
  BY <1>1, <1>2 DEF GuardInv, GuardHolds

LEMMA GuardNext == GuardInv /\ [Next]_vars => GuardInv'
<1> SUFFICES ASSUME GuardInv, [Next]_vars PROVE GuardInv'
  OBVIOUS
<1>1. CASE Guard!Next
  BY <1>1, GuardStep
<1>2. CASE UNCHANGED guard
  BY <1>2 DEF guard, GuardInv, GuardHolds, Works
<1>3. QED
  BY <1>1, <1>2 DEF Next, vars, inner

\* Requests with one key make one move between them, until the entry expires, Redis cannot
\* be asked or a committed move ends in an error (service/idempotency.rs).
THEOREM MovesOnce == Spec => []OnceWhileKept
<1>1. GuardInv => OnceWhileKept
  BY DEF GuardInv, GuardHolds, OnceWhileKept, Guard!OnceWhileKept
<1>2. QED
  BY <1>1, GuardInit, GuardNext, PTL DEF Spec
------------------------------------------------------------------------------
\* The rate limiter.

\* The requests let through from one second to another.
Within(q, from, upto) == {i \in DOMAIN q : from <= q[i] /\ q[i] <= upto}

LEMMA WithinFinite ==
  ASSUME NEW q \in Seq(Int), NEW from, NEW upto
  PROVE  IsFiniteSet(Within(q, from, upto)) /\ Cardinality(Within(q, from, upto)) \in Nat
<1>1. DOMAIN q = 1..Len(q) /\ Len(q) \in Int
  OBVIOUS
<1>2. IsFiniteSet(1..Len(q)) /\ Within(q, from, upto) \in SUBSET (1..Len(q))
  BY <1>1, FS_Interval DEF Within
<1>3. QED
  BY <1>2, FS_Subset, FS_CardinalityType

LEMMA WithinPart ==
  ASSUME NEW q \in Seq(Int), NEW from, NEW upto, NEW lo, NEW hi,
         Within(q, from, upto) \subseteq Within(q, lo, hi)
  PROVE  Cardinality(Within(q, from, upto)) <= Cardinality(Within(q, lo, hi))
BY WithinFinite, FS_Subset

LEMMA WithinSplit ==
  ASSUME NEW q \in Seq(Int), NEW from \in Int, NEW mid \in Int, NEW upto \in Int
  PROVE  Cardinality(Within(q, from, upto)) <=
           Cardinality(Within(q, from, mid - 1)) + Cardinality(Within(q, mid, upto))
<1> DEFINE S == Within(q, from, mid - 1)
           T == Within(q, mid, upto)
<1>1. Within(q, from, upto) \subseteq S \union T
  BY DEF Within
<1>2. IsFiniteSet(S) /\ IsFiniteSet(T) /\ Cardinality(S) \in Nat /\ Cardinality(T) \in Nat
  BY WithinFinite
<1>3. Within(q, from, upto) \in SUBSET (S \union T)
  BY <1>1
<1> HIDE DEF S, T
<1>4. IsFiniteSet(S \union T) /\ IsFiniteSet(S \cap T)
      /\ Cardinality(S \union T) = Cardinality(S) + Cardinality(T) - Cardinality(S \cap T)
  BY <1>2, FS_Union, FS_Intersection
<1>5. Cardinality(S \cap T) \in Nat /\ Cardinality(S \union T) \in Nat
  BY <1>4, FS_CardinalityType
<1>6. Cardinality(Within(q, from, upto)) <= Cardinality(S \union T)
  BY <1>3, <1>4, FS_Subset
<1>7. Cardinality(Within(q, from, upto)) <= Cardinality(S) + Cardinality(T)
  BY <1>2, <1>4, <1>5, <1>6, WithinFinite
<1>8. QED
  BY <1>7 DEF S, T

\* One request more.
LEMMA WithinAdmitted ==
  ASSUME NEW q \in Seq(Int), NEW n \in Int, NEW from \in Int, NEW upto \in Int
  PROVE  Cardinality(Within(Append(q, n), from, upto)) =
           IF from <= n /\ n <= upto THEN Cardinality(Within(q, from, upto)) + 1
           ELSE Cardinality(Within(q, from, upto))
<1> DEFINE r == Append(q, n)
<1>1. /\ DOMAIN r = DOMAIN q \union {Len(q) + 1} /\ Len(q) + 1 \notin DOMAIN q
      /\ r[Len(q) + 1] = n /\ \A i \in DOMAIN q : r[i] = q[i]
  OBVIOUS
<1> HIDE DEF r
<1>2. Within(r, from, upto) =
        IF from <= n /\ n <= upto THEN Within(q, from, upto) \union {Len(q) + 1}
        ELSE Within(q, from, upto)
  BY <1>1 DEF Within
<1>3. Len(q) + 1 \notin Within(q, from, upto)
  BY <1>1 DEF Within
<1>4. QED
  BY <1>2, <1>3, WithinFinite, FS_AddElement DEF r

\* No window of a server has more than the limit, and what counts against it now is in
\* its memory.
MemoryHolds(s) ==
  /\ recent[s] \subseteq DOMAIN admitted[s]
  /\ \A i \in DOMAIN admitted[s] : Limiting!Fresh(admitted[s][i]) => i \in recent[s]
  /\ \A t \in Int : Cardinality(Within(admitted[s], t, t + Window - 1)) <= MaxRequests

\* The counter lives from the first request it counts for a window, and has counted
\* what was let through since; the window before has no more than the limit.
RedisHolds ==
  LET q == admitted["redis"]
      since == counter.until - Window
  IN  /\ \A t \in Int : Cardinality(Within(q, t, t + Window - 1)) <= 2 * MaxRequests
      /\ counter.count = 0 =>
           /\ counter.until = 0
           /\ \A i \in DOMAIN q : q[i] < clock
           /\ Cardinality(Within(q, clock - Window + 1, clock)) <= MaxRequests
      /\ counter.count # 0 =>
           /\ since <= clock /\ clock < counter.until
           /\ Cardinality(Within(q, since, clock)) <= counter.count
           /\ Cardinality(Within(q, since, clock)) <= MaxRequests
           /\ Cardinality(Within(q, since - Window + 1, since - 1)) <= MaxRequests

LimiterTyped ==
  /\ clock \in Nat
  /\ counter = [count |-> counter.count, until |-> counter.until]
  /\ counter.count \in Nat /\ counter.until \in Nat
  /\ recent = [s \in Servers |-> recent[s]]
  /\ admitted = [s \in Limiting!Stores |-> admitted[s]]
  /\ \A s \in Limiting!Stores :
       admitted[s] \in Seq(Int) /\ \A i \in DOMAIN admitted[s] : admitted[s][i] <= clock

LimiterInv == LimiterTyped /\ RedisHolds /\ \A s \in Servers : MemoryHolds(s)

\* The limiter counts as its neighbours do.
LEMMA LimiterCounts == \A S : Limiting!Cardinality(S) = Cardinality(S)
BY DEF Limiting!Cardinality, Cardinality, Limiting!IsFiniteSet, IsFiniteSet

LEMMA LimiterTicks ==
  ASSUME LimiterInv, Limiting!Tick
  PROVE  LimiterInv'
<1>1. /\ clock' = clock + 1 /\ UNCHANGED <<recent, admitted>>
      /\ counter' = IF counter.until <= clock' THEN Limiting!NoCounter ELSE counter
  BY DEF Limiting!Tick
<1>2. clock \in Nat /\ Window \in Nat \ {0} /\ MaxRequests \in Nat
  BY LimitsAssumption DEF LimiterInv, LimiterTyped
<1>3. counter.count \in Nat /\ counter.until \in Nat
  BY DEF LimiterInv, LimiterTyped
<1>4. \A s \in Servers : MemoryHolds(s)'
  <2> SUFFICES ASSUME NEW s \in Servers PROVE MemoryHolds(s)'
    OBVIOUS
  <2>1. MemoryHolds(s) /\ s \in Limiting!Stores
    BY DEF LimiterInv, Limiting!Stores
  <2>2. admitted[s] \in Seq(Int)
    BY <2>1 DEF LimiterInv, LimiterTyped
  <2>3. \A i \in DOMAIN admitted[s] : admitted[s][i] \in Int
    BY <2>2
  <2>4. QED
    BY <1>1, <1>2, <2>1, <2>3 DEF MemoryHolds, Limiting!Fresh
<1>5. LimiterTyped'
  <2>1. \A s \in Limiting!Stores : \A i \in DOMAIN admitted[s] : admitted[s][i] \in Int
    BY DEF LimiterInv, LimiterTyped
  <2>2. counter' = [count |-> counter'.count, until |-> counter'.until]
        /\ counter'.count \in Nat /\ counter'.until \in Nat
    BY <1>1 DEF LimiterInv, LimiterTyped, Limiting!NoCounter
  <2>3. QED
    BY <1>1, <1>2, <2>1, <2>2 DEF LimiterInv, LimiterTyped
<1>6. RedisHolds'
  <2> DEFINE q == admitted["redis"]
             since == counter.until - Window
  <2>1. q \in Seq(Int) /\ \A i \in DOMAIN q : q[i] <= clock
    BY DEF LimiterInv, LimiterTyped, Limiting!Stores
  <2>2. \A i \in DOMAIN q : q[i] \in Int
    BY <2>1
  <2>3. q' = q
    BY <1>1
  <2>4. \A t \in Int : Cardinality(Within(q, t, t + Window - 1)) <= 2 * MaxRequests
    BY DEF LimiterInv, RedisHolds
  <2>5. CASE counter.count = 0
    <3>1. counter.until = 0 /\ Cardinality(Within(q, clock - Window + 1, clock)) <= MaxRequests
      BY <2>5 DEF LimiterInv, RedisHolds
    <3>2. counter'.count = 0 /\ counter'.until = 0
      BY <1>1, <1>2, <3>1 DEF Limiting!NoCounter
    <3>3. Within(q, clock + 1 - Window + 1, clock + 1) \subseteq
            Within(q, clock - Window + 1, clock)
      BY <1>2, <2>1, <2>2 DEF Within
    <3>4. Cardinality(Within(q, clock + 1 - Window + 1, clock + 1)) <= MaxRequests
      <4>1. Cardinality(Within(q, clock + 1 - Window + 1, clock + 1))
              <= Cardinality(Within(q, clock - Window + 1, clock))
        BY <2>1, <3>3, WithinPart
      <4>2. /\ Cardinality(Within(q, clock + 1 - Window + 1, clock + 1)) \in Nat
            /\ Cardinality(Within(q, clock - Window + 1, clock)) \in Nat
        BY <2>1, WithinFinite
      <4>3. QED
        BY <1>2, <3>1, <4>1, <4>2
    <3>5. \A i \in DOMAIN q : q[i] < clock + 1
      BY <1>2, <2>1, <2>2
    <3>6. QED
      BY <1>1, <1>2, <2>3, <2>4, <3>2, <3>4, <3>5 DEF RedisHolds
  <2>6. CASE counter.count # 0
    <3>1. /\ since <= clock /\ clock < counter.until
          /\ Cardinality(Within(q, since, clock)) <= counter.count
          /\ Cardinality(Within(q, since, clock)) <= MaxRequests
          /\ Cardinality(Within(q, since - Window + 1, since - 1)) <= MaxRequests
      BY <2>6 DEF LimiterInv, RedisHolds
    <3>2. CASE counter.until <= clock + 1
      <4>1. counter.until = clock + 1 /\ counter'.count = 0 /\ counter'.until = 0
        BY <1>1, <1>2, <1>3, <3>1, <3>2 DEF Limiting!NoCounter
      <4>2. Within(q, clock + 1 - Window + 1, clock + 1) \subseteq Within(q, since, clock)
        BY <1>2, <2>1, <2>2, <4>1 DEF Within
      <4>3. Cardinality(Within(q, clock + 1 - Window + 1, clock + 1)) <= MaxRequests
        <5>1. Cardinality(Within(q, clock + 1 - Window + 1, clock + 1))
                <= Cardinality(Within(q, since, clock))
          BY <2>1, <4>2, WithinPart
        <5>2. /\ Cardinality(Within(q, clock + 1 - Window + 1, clock + 1)) \in Nat
              /\ Cardinality(Within(q, since, clock)) \in Nat
          BY <2>1, WithinFinite
        <5>3. QED
          BY <1>2, <3>1, <5>1, <5>2
      <4>4. \A i \in DOMAIN q : q[i] < clock + 1
        BY <1>2, <2>1, <2>2
      <4>5. QED
        BY <1>1, <1>2, <2>3, <2>4, <4>1, <4>3, <4>4 DEF RedisHolds
    <3>3. CASE clock + 1 < counter.until
      <4>1. counter' = counter
        BY <1>1, <1>2, <1>3, <3>3
      <4>2. Within(q, since, clock + 1) = Within(q, since, clock)
        BY <1>2, <2>1, <2>2 DEF Within
      <4>3. since <= clock + 1
        BY <1>2, <1>3, <3>1
      <4>4. QED
        BY <1>1, <2>3, <2>4, <2>6, <3>1, <3>3, <4>1, <4>2, <4>3 DEF RedisHolds
    <3>4. QED
      BY <1>2, <1>3, <3>2, <3>3
  <2>7. QED
    BY <2>5, <2>6
<1>7. QED
  BY <1>4, <1>5, <1>6 DEF LimiterInv

\* One request more in Redis, let through when it counts for no more than the limit.
LEMMA RedisAsked ==
  ASSUME LimiterInv, Limiting!CheckRedis
  PROVE  LimiterInv'
<1> DEFINE q == admitted["redis"]
           now == Append(q, clock)
           since == counter'.until - Window
<1>1. clock \in Nat /\ Window \in Nat \ {0} /\ MaxRequests \in Nat
  BY LimitsAssumption DEF LimiterInv, LimiterTyped
<1>2. q \in Seq(Int) /\ (\A i \in DOMAIN q : q[i] \in Int) /\ (\A i \in DOMAIN q : q[i] <= clock)
  <2>1. q \in Seq(Int) /\ \A i \in DOMAIN q : q[i] <= clock
    BY DEF LimiterInv, LimiterTyped, Limiting!Stores
  <2>2. QED
    BY <2>1
<1>3. UNCHANGED <<clock, recent>> /\ counter' = Limiting!Counted
      /\ IF counter'.count <= MaxRequests THEN Limiting!Admit("redis") ELSE UNCHANGED admitted
  BY DEF Limiting!CheckRedis
<1>4. counter.count \in Nat /\ counter.until \in Nat
      /\ counter = [count |-> counter.count, until |-> counter.until]
  BY DEF LimiterInv, LimiterTyped
<1>5. /\ \A t \in Int : Cardinality(Within(q, t, t + Window - 1)) <= 2 * MaxRequests
      /\ \A lo, hi : Cardinality(Within(q, lo, hi)) \in Nat
  BY <1>2, WithinFinite DEF LimiterInv, RedisHolds
\* What the counter says after the request, of those let through before it.
<1>6. /\ counter' = [count |-> counter'.count, until |-> counter'.until]
      /\ counter'.count \in Nat /\ counter'.count # 0 /\ counter'.until \in Nat
      /\ since <= clock /\ clock < counter'.until
      /\ Cardinality(Within(q, since, clock)) <= MaxRequests
      /\ Cardinality(Within(q, since, clock)) <= counter'.count
      /\ counter'.count <= MaxRequests => Cardinality(Within(q, since, clock)) + 1 <= counter'.count
      /\ Cardinality(Within(q, since - Window + 1, since - 1)) <= MaxRequests
  <2>1. CASE counter.count = 0
    <3>1. (\A i \in DOMAIN q : q[i] < clock)
          /\ Cardinality(Within(q, clock - Window + 1, clock)) <= MaxRequests
      BY <2>1 DEF LimiterInv, RedisHolds
    <3>2. counter' = [count |-> 1, until |-> clock + Window]
      BY <1>3, <2>1 DEF Limiting!Counted
    <3>3. counter'.count = 1 /\ counter'.until = clock + Window /\ since = clock
      BY <1>1, <3>2
    <3>4. Within(q, clock, clock) = {}
      BY <1>1, <1>2, <3>1 DEF Within
    <3>5. Cardinality(Within(q, clock, clock)) = 0
      BY <3>4, FS_EmptySet
    <3>6. Within(q, clock - Window + 1, clock - 1) \subseteq Within(q, clock - Window + 1, clock)
      BY <1>1, <1>2 DEF Within
    <3>7. Cardinality(Within(q, clock - Window + 1, clock - 1)) <= MaxRequests
      <4>1. Cardinality(Within(q, clock - Window + 1, clock - 1)) <=
              Cardinality(Within(q, clock - Window + 1, clock))
        BY <1>2, <3>6, WithinPart
      <4>2. QED
        BY <1>1, <1>5, <3>1, <4>1
    <3>8. QED
      BY <1>1, <3>2, <3>3, <3>5, <3>7
  <2>2. CASE counter.count # 0
    <3>1. counter' = [count |-> IF counter.count > MaxRequests THEN counter.count
                                ELSE counter.count + 1, until |-> counter.until]
      BY <1>3, <1>4, <2>2 DEF Limiting!Counted
    <3>2. /\ counter'.until = counter.until
          /\ counter'.count = IF counter.count > MaxRequests THEN counter.count
                              ELSE counter.count + 1
      BY <3>1
    <3>3. LET before == counter.until - Window IN
          /\ before <= clock /\ clock < counter.until
          /\ Cardinality(Within(q, before, clock)) <= counter.count
          /\ Cardinality(Within(q, before, clock)) <= MaxRequests
          /\ Cardinality(Within(q, before - Window + 1, before - 1)) <= MaxRequests
      BY <2>2 DEF LimiterInv, RedisHolds
    <3>4. counter'.count \in Nat /\ counter'.count # 0 /\ counter.count <= counter'.count
          /\ counter'.count <= MaxRequests => counter'.count = counter.count + 1
      BY <1>1, <1>4, <3>2
    <3>5. QED
      BY <1>1, <1>4, <1>5, <3>1, <3>2, <3>3, <3>4
  <2>3. QED
    BY <2>1, <2>2
<1>7. \A s \in Servers : s # "redis" /\ s \in Limiting!Stores
  BY LimitsAssumption DEF Limiting!Stores
<1>8. \A s \in Servers : MemoryHolds(s)
  BY DEF LimiterInv
<1>9. CASE UNCHANGED admitted
  <2>1. LimiterTyped'
    BY <1>3, <1>6, <1>9 DEF LimiterInv, LimiterTyped
  <2>2. \A s \in Servers : MemoryHolds(s)'
    BY <1>3, <1>8, <1>9 DEF MemoryHolds, Limiting!Fresh
  <2>3. RedisHolds'
    BY <1>3, <1>5, <1>6, <1>9 DEF RedisHolds
  <2>4. QED
    BY <2>1, <2>2, <2>3 DEF LimiterInv
<1>10. CASE counter'.count <= MaxRequests /\ Limiting!Admit("redis")
  <2>1. admitted' = [s \in Limiting!Stores |-> IF s = "redis" THEN now ELSE admitted[s]]
    BY <1>10 DEF Limiting!Admit, LimiterInv, LimiterTyped
  <2>2. admitted'["redis"] = now /\ \A s \in Servers : admitted'[s] = admitted[s]
    BY <1>7, <2>1 DEF Limiting!Stores
  <2>3. now \in Seq(Int) /\ \A i \in DOMAIN now : now[i] <= clock
    BY <1>1, <1>2
  <2>4. LimiterTyped'
    BY <1>3, <1>6, <2>1, <2>3 DEF LimiterInv, LimiterTyped
  <2>5. \A s \in Servers : MemoryHolds(s)'
    BY <1>3, <1>8, <2>2 DEF MemoryHolds, Limiting!Fresh
  <2>6. since \in Int
    BY <1>1, <1>6
  <2>7. /\ Cardinality(Within(now, since, clock)) = Cardinality(Within(q, since, clock)) + 1
        /\ Cardinality(Within(now, since - Window + 1, since - 1)) =
             Cardinality(Within(q, since - Window + 1, since - 1))
    <3>1. /\ since - Window + 1 \in Int /\ since - 1 \in Int /\ clock \in Int
          /\ ~(since - Window + 1 <= clock /\ clock <= since - 1) /\ since <= clock
      BY <1>1, <1>6, <2>6
    <3> HIDE DEF now, q, since
    <3>2. Cardinality(Within(Append(q, clock), since, clock)) =
            Cardinality(Within(q, since, clock)) + 1
      BY <1>2, <2>6, <3>1, WithinAdmitted
    <3>3. Cardinality(Within(Append(q, clock), since - Window + 1, since - 1)) =
            Cardinality(Within(q, since - Window + 1, since - 1))
      BY <1>2, <3>1, WithinAdmitted
    <3>4. QED
      BY <3>2, <3>3 DEF now
  <2>8. \A lo, hi : Cardinality(Within(now, lo, hi)) \in Nat
    BY <2>3, WithinFinite
  <2>9. ASSUME NEW t \in Int
        PROVE  Cardinality(Within(now, t, t + Window - 1)) <= 2 * MaxRequests
    <3> DEFINE upto == t + Window - 1
    <3>1. upto \in Int
      BY <1>1
    <3>2. CASE t <= clock /\ clock <= upto
      <4>1. Within(now, t, upto) \subseteq Within(now, since - Window + 1, clock)
        <5>1. since - Window + 1 <= t
          BY <1>1, <1>6, <2>6, <3>2
        <5>2. \A i \in DOMAIN now : now[i] \in Int
          BY <2>3
        <5> HIDE DEF now, since, upto
        <5>3. ASSUME NEW i \in DOMAIN now, t <= now[i]
              PROVE  since - Window + 1 <= now[i] /\ now[i] <= clock
          <6>1. now[i] \in Int /\ now[i] <= clock
            BY <2>3, <5>2
          <6>2. since - Window + 1 \in Int
            BY <1>1, <2>6
          <6>3. QED
            BY <5>1, <5>3, <6>1, <6>2
        <5>4. QED
          BY <5>3 DEF Within
      <4>2. Cardinality(Within(now, t, upto)) <=
              Cardinality(Within(now, since - Window + 1, clock))
        BY <2>3, <4>1, WithinPart
      <4>3. Cardinality(Within(now, since - Window + 1, clock)) <=
              Cardinality(Within(now, since - Window + 1, since - 1))
                + Cardinality(Within(now, since, clock))
        <5>1. since - Window + 1 \in Int /\ clock \in Int
          BY <1>1, <2>6
        <5> HIDE DEF now, since
        <5>2. QED
          BY <2>3, <2>6, <5>1, WithinSplit
      <4>4. QED
        BY <1>1, <1>5, <1>6, <1>10, <2>7, <2>8, <4>2, <4>3
    <3>3. CASE ~(t <= clock /\ clock <= upto)
      <4>1. Cardinality(Within(now, t, upto)) = Cardinality(Within(q, t, upto))
        BY <1>1, <1>2, <3>1, <3>3, WithinAdmitted
      <4>2. QED
        BY <1>5, <4>1
    <3>4. QED
      BY <3>2, <3>3
  <2>10. RedisHolds'
    <3>1. Cardinality(Within(now, since, clock)) <= counter'.count
          /\ Cardinality(Within(now, since, clock)) <= MaxRequests
          /\ Cardinality(Within(now, since - Window + 1, since - 1)) <= MaxRequests
      BY <1>1, <1>5, <1>6, <1>10, <2>7
    <3> HIDE DEF now
    <3>2. QED
      BY <1>3, <1>6, <2>2, <2>9, <3>1 DEF RedisHolds
  <2>11. QED
    BY <2>4, <2>5, <2>10 DEF LimiterInv
<1>11. QED
  BY <1>3, <1>9, <1>10

\* One request more in the memory of a server.
LEMMA MemoryAsked ==
  ASSUME LimiterInv, NEW s \in Servers, Limiting!CheckMemory(s)
  PROVE  LimiterInv'
<1> DEFINE q == admitted[s]
           now == Append(q, clock)
           kept == {i \in recent[s] : Limiting!Fresh(admitted[s][i])}
<1>1. clock \in Nat /\ Window \in Nat \ {0} /\ MaxRequests \in Nat
  BY LimitsAssumption DEF LimiterInv, LimiterTyped
<1>2. s # "redis" /\ s \in Limiting!Stores /\ "redis" \in Limiting!Stores
      /\ \A r \in Servers : r \in Limiting!Stores
  BY LimitsAssumption DEF Limiting!Stores
<1>3. q \in Seq(Int) /\ (\A i \in DOMAIN q : q[i] \in Int) /\ (\A i \in DOMAIN q : q[i] <= clock)
  BY <1>2 DEF LimiterInv, LimiterTyped
<1>4. UNCHANGED <<clock, counter>>
  BY DEF Limiting!CheckMemory
<1>5. \A r \in Servers : MemoryHolds(r)
  BY DEF LimiterInv
<1>6. /\ kept \subseteq DOMAIN q
      /\ \A i \in DOMAIN q : Limiting!Fresh(q[i]) => i \in kept
  BY <1>5 DEF MemoryHolds
<1>7. CASE recent' = [recent EXCEPT ![s] = kept] /\ UNCHANGED admitted
  <2>1. recent' = [r \in Servers |-> IF r = s THEN kept ELSE recent[r]]
    BY <1>7 DEF LimiterInv, LimiterTyped
  <2> HIDE DEF kept
  <2>2. LimiterTyped'
    BY <1>4, <1>7, <2>1 DEF LimiterInv, LimiterTyped
  <2>3. ASSUME NEW r \in Servers
        PROVE  MemoryHolds(r)'
    <3>1. CASE r = s
      BY <1>4, <1>5, <1>6, <1>7, <2>1, <3>1 DEF MemoryHolds, Limiting!Fresh
    <3>2. CASE r # s
      BY <1>4, <1>5, <1>7, <2>1, <3>2 DEF MemoryHolds, Limiting!Fresh
    <3>3. QED
      BY <3>1, <3>2
  <2>4. RedisHolds'
    BY <1>4, <1>7 DEF LimiterInv, RedisHolds
  <2>5. QED
    BY <2>2, <2>3, <2>4 DEF LimiterInv
<1>8. CASE /\ ~(Cardinality(kept) >= MaxRequests)
           /\ Limiting!Admit(s) /\ recent' = [recent EXCEPT ![s] = kept \union {Len(q) + 1}]
  <2>1. admitted' = [r \in Limiting!Stores |-> IF r = s THEN now ELSE admitted[r]]
    BY <1>2, <1>8 DEF Limiting!Admit, LimiterInv, LimiterTyped
  <2>2. recent' = [r \in Servers |-> IF r = s THEN kept \union {Len(q) + 1} ELSE recent[r]]
    BY <1>8 DEF LimiterInv, LimiterTyped
  <2>3. /\ now \in Seq(Int) /\ DOMAIN now = DOMAIN q \union {Len(q) + 1}
        /\ now[Len(q) + 1] = clock /\ \A i \in DOMAIN q : now[i] = q[i]
    BY <1>1, <1>3
  <2>4. \A i \in DOMAIN now : now[i] <= clock
    BY <1>1, <1>3, <2>3
  <2>5. IsFiniteSet(kept) /\ Cardinality(kept) \in Nat
    <3>1. DOMAIN q = 1..Len(q) /\ Len(q) \in Int
      BY <1>3
    <3>2. IsFiniteSet(1..Len(q)) /\ kept \in SUBSET (1..Len(q))
      BY <1>6, <3>1, FS_Interval
    <3> HIDE DEF kept
    <3>3. QED
      BY <3>2, FS_Subset, FS_CardinalityType
  <2> HIDE DEF kept, now
  <2>6. LimiterTyped'
    BY <1>4, <2>1, <2>2, <2>3, <2>4 DEF LimiterInv, LimiterTyped
  <2>7. ASSUME NEW t \in Int
        PROVE  Cardinality(Within(now, t, t + Window - 1)) <= MaxRequests
    <3> DEFINE upto == t + Window - 1
    <3>1. upto \in Int
      BY <1>1
    <3>2. Cardinality(Within(q, t, upto)) \in Nat /\ Cardinality(Within(q, t, upto)) <= MaxRequests
      BY <1>3, <1>5, WithinFinite DEF MemoryHolds
    <3>3. Cardinality(Within(now, t, upto)) =
            IF t <= clock /\ clock <= upto THEN Cardinality(Within(q, t, upto)) + 1
            ELSE Cardinality(Within(q, t, upto))
      BY <1>1, <1>3, <3>1, WithinAdmitted DEF now
    <3>4. CASE t <= clock /\ clock <= upto
      <4>1. Within(q, t, upto) \in SUBSET kept
        BY <1>1, <1>3, <1>6, <3>1, <3>4 DEF Within, Limiting!Fresh
      <4>2. Cardinality(Within(q, t, upto)) <= Cardinality(kept)
        BY <2>5, <4>1, FS_Subset
      <4>3. QED
        BY <1>1, <1>8, <2>5, <3>2, <3>3, <3>4, <4>2
    <3>5. CASE ~(t <= clock /\ clock <= upto)
      BY <3>2, <3>3, <3>5
    <3>6. QED
      BY <3>4, <3>5
  <2>8. ASSUME NEW r \in Servers
        PROVE  MemoryHolds(r)'
    <3>1. CASE r = s
      <4>1. admitted'[r] = now /\ recent'[r] = kept \union {Len(q) + 1}
        BY <1>2, <2>1, <2>2, <3>1
      <4>2. recent'[r] \subseteq DOMAIN now
        BY <1>6, <2>3, <4>1
      <4>3. \A i \in DOMAIN now : clock - now[i] < Window => i \in recent'[r]
        BY <1>6, <2>3, <4>1 DEF Limiting!Fresh
      <4>4. QED
        BY <1>4, <2>7, <4>1, <4>2, <4>3 DEF MemoryHolds, Limiting!Fresh
    <3>2. CASE r # s
      <4>1. admitted'[r] = admitted[r] /\ recent'[r] = recent[r]
        BY <1>2, <2>1, <2>2, <3>2
      <4>2. QED
        BY <1>4, <1>5, <4>1 DEF MemoryHolds, Limiting!Fresh
    <3>3. QED
      BY <3>1, <3>2
  <2>9. admitted'["redis"] = admitted["redis"]
    BY <1>2, <2>1
  <2>10. RedisHolds'
    BY <1>4, <2>9 DEF LimiterInv, RedisHolds
  <2>11. QED
    BY <2>6, <2>8, <2>10 DEF LimiterInv
<1>9. IF Cardinality(kept) >= MaxRequests
        THEN recent' = [recent EXCEPT ![s] = kept] /\ UNCHANGED admitted
        ELSE Limiting!Admit(s) /\ recent' = [recent EXCEPT ![s] = kept \union {Len(q) + 1}]
  <2>1. IF Limiting!Cardinality(kept) >= MaxRequests
        THEN recent' = [recent EXCEPT ![s] = kept] /\ UNCHANGED admitted
        ELSE Limiting!Admit(s) /\ recent' = [recent EXCEPT ![s] = kept \union {Len(q) + 1}]
    BY DEF Limiting!CheckMemory
  <2> HIDE DEF kept
  <2>2. QED
    BY <2>1, LimiterCounts
<1> HIDE DEF kept
<1>10. QED
  BY <1>7, <1>8, <1>9

LEMMA LimiterInit == Init => LimiterInv
<1> SUFFICES ASSUME Limiting!Init PROVE LimiterInv
  BY DEF Init
<1>1. /\ clock = 0 /\ counter = Limiting!NoCounter /\ recent = [s \in Servers |-> {}]
      /\ admitted = [s \in Limiting!Stores |-> <<>>]
  BY DEF Limiting!Init
<1>2. Window \in Nat \ {0} /\ MaxRequests \in Nat
  BY LimitsAssumption
<1>3. \A lo, hi : Within(<<>>, lo, hi) = {}
  BY DEF Within
<1>4. \A lo, hi : Cardinality(Within(<<>>, lo, hi)) = 0
  BY <1>3, FS_EmptySet
<1>5. LimiterTyped
  BY <1>1 DEF LimiterTyped, Limiting!NoCounter
<1>6. RedisHolds
  BY <1>1, <1>2, <1>4 DEF RedisHolds, Limiting!NoCounter, Limiting!Stores
<1>7. \A s \in Servers : MemoryHolds(s)
  BY <1>1, <1>2, <1>4 DEF MemoryHolds, Limiting!Stores
<1>8. QED
  BY <1>5, <1>6, <1>7 DEF LimiterInv

LEMMA LimiterNext == LimiterInv /\ [Next]_vars => LimiterInv'
<1> SUFFICES ASSUME LimiterInv, [Next]_vars PROVE LimiterInv'
  OBVIOUS
<1>1. CASE Limiting!Next
  BY <1>1, LimiterTicks, RedisAsked, MemoryAsked DEF Limiting!Next
<1>2. CASE UNCHANGED limiting
  BY <1>2 DEF limiting, LimiterInv, LimiterTyped, RedisHolds, MemoryHolds, Limiting!Fresh
<1>3. QED
  BY <1>1, <1>2 DEF Next, vars, inner

LEMMA LimiterKeeps == LimiterInv => LimitHolds
<1> SUFFICES ASSUME LimiterInv, NEW t \in 0..Horizon
             PROVE  /\ \A s \in Servers : Limiting!AdmittedFrom(s, t) <= MaxRequests
                    /\ Limiting!AdmittedFrom("redis", t) <= 2 * MaxRequests
  BY DEF LimitHolds, Limiting!LimitHolds
<1>1. t \in Int /\ Window \in Nat
  BY LimitsAssumption
<1>2. ASSUME NEW s \in Limiting!Stores
      PROVE  Limiting!AdmittedFrom(s, t) = Cardinality(Within(admitted[s], t, t + Window - 1))
  <2>1. admitted[s] \in Seq(Int)
    BY DEF LimiterInv, LimiterTyped
  <2>2. \A i \in DOMAIN admitted[s] : admitted[s][i] \in Int
    BY <2>1
  <2>3. {i \in DOMAIN admitted[s] : admitted[s][i] \in t..(t + Window - 1)} =
          Within(admitted[s], t, t + Window - 1)
    BY <1>1, <2>2 DEF Within
  <2>4. Limiting!AdmittedFrom(s, t) =
          Cardinality({i \in DOMAIN admitted[s] : admitted[s][i] \in t..(t + Window - 1)})
    BY LimiterCounts DEF Limiting!AdmittedFrom
  <2>5. QED
    BY <2>3, <2>4, Zenon
<1>3. QED
  BY <1>1, <1>2 DEF LimiterInv, RedisHolds, MemoryHolds, Limiting!Stores

\* In no window does a server let through more than the limit from its memory, nor Redis
\* more than twice the limit, however requests, refusals and expiries fall
\* (rate_limiter.rs).
THEOREM LimitsHold == Spec => []LimitHolds
BY LimiterKeeps, LimiterInit, LimiterNext, PTL DEF Spec
------------------------------------------------------------------------------
\* Accounts.

\* A request on its way to an account, or no request; the address is a mailbox.
Registers(r) ==
  \/ r = Accounts!NoRequest
  \/ /\ r = [pc |-> r.pc, pseudo |-> r.pseudo, email |-> r.email]
     /\ r.email \in Addresses /\ Mailbox[r.email] = r.email

AccountsInv ==
  /\ request = [c \in Clients |-> request[c]]
  /\ \A c \in Clients : Registers(request[c])
  /\ \A u \in users : u.email \in Addresses /\ Mailbox[u.email] = u.email
  /\ \A u, v \in users : u.email = v.email \/ u.pseudo = v.pseudo => u = v

LEMMA RequestPut ==
  ASSUME AccountsInv, UNCHANGED users, NEW c \in Clients, NEW r, Accounts!Do(c, r), Registers(r)
  PROVE  AccountsInv'
<1>1. request' = [d \in Clients |-> IF d = c THEN r ELSE request[d]]
  BY DEF Accounts!Do, AccountsInv
<1>2. QED
  BY <1>1 DEF AccountsInv

LEMMA AccountsStep ==
  ASSUME AccountsInv, Accounts!Next
  PROVE  AccountsInv'
<1>1. ASSUME NEW c \in Clients, NEW p \in Pseudos, NEW a \in Addresses, Accounts!Register(c, p, a)
      PROVE  AccountsInv'
  <2> DEFINE r == [pc |-> "email", pseudo |-> p, email |-> Mailbox[a]]
  <2>1. Accounts!Do(c, r) /\ UNCHANGED users
    BY <1>1 DEF Accounts!Register, Accounts!Address
  <2>2. Registers(r)
    BY MailboxAssumption DEF Registers
  <2> HIDE DEF r
  <2>3. QED
    BY <2>1, <2>2, RequestPut
<1>2. Registers(Accounts!NoRequest)
  BY DEF Registers
<1>3. ASSUME NEW c \in Clients, NEW step, request[c].pc \in {"email", "pseudo"},
             Accounts!Do(c, [request[c] EXCEPT !.pc = step]), UNCHANGED users
      PROVE  AccountsInv'
  <2>1. request[c] # Accounts!NoRequest
    BY <1>3 DEF Accounts!NoRequest
  <2>2. Registers([request[c] EXCEPT !.pc = step])
    BY <2>1 DEF Registers, AccountsInv
  <2>3. QED
    BY <1>3, <2>2, RequestPut
<1>4. ASSUME NEW c \in Clients, Accounts!Do(c, Accounts!NoRequest), UNCHANGED users
      PROVE  AccountsInv'
  BY <1>2, <1>4, RequestPut
<1>5. ASSUME NEW c \in Clients, Accounts!CheckEmail(c)
      PROVE  AccountsInv'
  BY <1>3, <1>4, <1>5 DEF Accounts!CheckEmail
<1>6. ASSUME NEW c \in Clients, Accounts!CheckPseudo(c)
      PROVE  AccountsInv'
  BY <1>3, <1>4, <1>6 DEF Accounts!CheckPseudo
<1>7. ASSUME NEW c \in Clients, Accounts!CreateUser(c)
      PROVE  AccountsInv'
  <2> DEFINE r == request[c]
             new == [pseudo |-> r.pseudo, email |-> r.email]
  <2>1. r # Accounts!NoRequest /\ Registers(r)
    BY <1>7 DEF Accounts!CreateUser, Accounts!NoRequest, AccountsInv
  <2>2. new.email \in Addresses /\ Mailbox[new.email] = new.email
    BY <2>1 DEF Registers
  <2>3. request' = [d \in Clients |-> IF d = c THEN Accounts!NoRequest ELSE request[d]]
    BY <1>7 DEF Accounts!CreateUser, Accounts!Do, AccountsInv
  <2>4. /\ request' = [d \in Clients |-> request'[d]]
        /\ \A d \in Clients : Registers(request'[d])
    BY <1>2, <2>3 DEF AccountsInv
  <2>5. CASE users' = users
    BY <2>4, <2>5 DEF AccountsInv
  <2>6. CASE /\ ~Accounts!Taken(r.pseudo, r.email) /\ users' = users \union {new}
    <3>1. \A u \in users : u.pseudo # new.pseudo /\ u.email # new.email
      BY <2>6 DEF Accounts!Taken
    <3>2. QED
      BY <2>2, <2>4, <2>6, <3>1 DEF AccountsInv
  <2>7. QED
    BY <1>7, <2>5, <2>6 DEF Accounts!CreateUser
<1>8. ASSUME NEW c \in Clients, Accounts!Fail(c)
      PROVE  AccountsInv'
  BY <1>4, <1>8 DEF Accounts!Fail
<1>9. CASE UNCHANGED <<users, request>>
  BY <1>9 DEF AccountsInv
<1>10. QED
  BY <1>1, <1>5, <1>6, <1>7, <1>8, <1>9
     DEF Accounts!Next, Accounts!Step, Accounts!ForgotPassword, Accounts!TakeMail, Accounts!SendMail

LEMMA AccountsInit == Init => AccountsInv
<1> SUFFICES ASSUME Accounts!Init PROVE AccountsInv
  BY DEF Init
<1>1. users = {} /\ request = [c \in Clients |-> Accounts!NoRequest]
  BY DEF Accounts!Init
<1>2. QED
  BY <1>1 DEF AccountsInv, Registers

LEMMA AccountsNext == AccountsInv /\ [Next]_vars => AccountsInv'
<1> SUFFICES ASSUME AccountsInv, [Next]_vars PROVE AccountsInv'
  OBVIOUS
<1>1. CASE Accounts!Next
  BY <1>1, AccountsStep
<1>2. CASE UNCHANGED accounts
  BY <1>2 DEF accounts, AccountsInv
<1>3. QED
  BY <1>1, <1>2 DEF Next, vars, inner

\* Nobody has two accounts with one mailbox, and no two have one name, however the
\* requests that register them cross (auth_service.rs and the indexes of the table).
THEOREM AccountsAreSingle == Spec => []OneAccountEach
<1>1. AccountsInv => OneAccountEach
  BY DEF AccountsInv, OneAccountEach, Accounts!OneAccountEach
<1>2. QED
  BY <1>1, AccountsInit, AccountsNext, PTL DEF Spec
------------------------------------------------------------------------------
\* The hands.

Ranks == {-1, 0, 1, 2}

\* The highest rank r of the first n hands, and the seat a that alone has it.
Highest(ranks, n, r, a) ==
  /\ r \in Ranks
  /\ \A i \in 1..n : ranks[i] <= r
  /\ r # -1 => \E i \in 1..n : ranks[i] = r
  /\ r = -1 => a = Table!NoSeat
  /\ a = Table!NoSeat \/ a \in 1..n
  /\ a # Table!NoSeat => \A j \in 1..n : ranks[j] = r <=> j = a
  /\ a = Table!NoSeat /\ r # -1 =>
       \E i, j \in 1..n : i # j /\ ranks[i] = r /\ ranks[j] = r

RanksOf(h) == [i \in Nat |-> Table!BestRank(h[i])]

HandsInv ==
  /\ seen \in Nat /\ seen <= Len(hands)
  /\ Highest(RanksOf(hands), seen, best, askee)
  /\ Table!PickAllowed
  /\ hands = <<>> => choice = Table!NoCard

LEMMA RanksTyped == \A h : RanksOf(h) \in [Nat -> Ranks]
BY DEF RanksOf, Table!BestRank, Ranks

LEMMA HighestSoFar ==
  ASSUME NEW ranks \in [Nat -> Ranks], NEW n \in Nat, NEW r, NEW a, Highest(ranks, n, r, a),
         NEW s, NEW b,
         s = IF ranks[n + 1] > r THEN ranks[n + 1] ELSE r,
         b = IF ranks[n + 1] > r THEN n + 1
             ELSE IF ranks[n + 1] # -1 /\ ranks[n + 1] = r THEN Table!NoSeat ELSE a
  PROVE  Highest(ranks, n + 1, s, b)
<1>1. ranks[n + 1] \in Ranks /\ r \in Ranks /\ Table!NoSeat = -1
  BY DEF Highest, Table!NoSeat
<1>2. \A i : i \in 1..(n + 1) <=> i \in 1..n \/ i = n + 1
  OBVIOUS
<1>3. n + 1 \notin 1..n
  OBVIOUS
<1>4. \A i \in 1..n : ranks[i] \in Ranks
  OBVIOUS
<1>5. CASE ranks[n + 1] > r
  <2>1. s = ranks[n + 1] /\ b = n + 1 /\ s # -1 /\ b # Table!NoSeat /\ s \in Ranks
    <3>1. s = ranks[n + 1] /\ b = n + 1
      BY <1>5
    <3>2. ranks[n + 1] # -1
      BY <1>1, <1>5 DEF Ranks
    <3>3. n + 1 # -1
      OBVIOUS
    <3>4. QED
      BY <1>1, <3>1, <3>2, <3>3
  <2>2. \A i \in 1..n : ranks[i] < s
    BY <1>1, <1>4, <1>5, <2>1 DEF Highest, Ranks
  <2>3. \A i \in 1..(n + 1) : ranks[i] <= s
    BY <1>1, <1>2, <1>4, <2>1, <2>2 DEF Ranks
  <2>4. \A i \in 1..(n + 1) : ranks[i] = s <=> i = b
    BY <1>1, <1>2, <1>3, <1>4, <2>1, <2>2 DEF Ranks
  <2>5. b \in 1..(n + 1)
    BY <1>2, <2>1
  <2>6. QED
    BY <2>1, <2>3, <2>4, <2>5 DEF Highest
<1>6. CASE ranks[n + 1] = r /\ r # -1
  <2>1. s = r /\ b = Table!NoSeat
    BY <1>1, <1>6 DEF Ranks
  <2>2. PICK i \in 1..n : ranks[i] = r
    BY <1>6 DEF Highest
  <2>3. i \in 1..(n + 1) /\ n + 1 \in 1..(n + 1) /\ i # n + 1
    BY <1>2, <1>3
  <2>4. \A j \in 1..(n + 1) : ranks[j] <= r
    BY <1>1, <1>2, <1>6 DEF Highest, Ranks
  <2>5. QED
    BY <1>6, <2>1, <2>2, <2>3, <2>4 DEF Highest
<1>7. CASE ~(ranks[n + 1] > r) /\ ~(ranks[n + 1] = r /\ r # -1)
  <2>1. s = r /\ b = a
    BY <1>7
  <2>2. ranks[n + 1] <= r /\ (r # -1 => ranks[n + 1] # r)
    BY <1>1, <1>7 DEF Ranks
  <2>3. QED
    BY <1>1, <1>2, <1>3, <2>1, <2>2 DEF Highest
<1>8. QED
  BY <1>5, <1>6, <1>7

LEMMA HandsStep ==
  ASSUME HandsInv, Table!Next
  PROVE  HandsInv'
<1>1. CASE Table!Deal
  <2>1. hands = <<>> /\ seen = 0 /\ choice' = Table!NoCard
    BY <1>1 DEF Table!Deal, HandsInv
  <2>2. hands' \in [1..3 -> Dealt] /\ UNCHANGED <<seen, best, askee>>
    BY <1>1 DEF Table!Deal
  <2>3. Len(hands') = 3
    BY <2>2
  <2>4. Highest(RanksOf(hands'), 0, best, askee)
    BY <2>1 DEF HandsInv, Highest
  <2>5. hands' # <<>>
    BY <2>3
  <2>6. QED
    BY <2>1, <2>2, <2>3, <2>4, <2>5 DEF HandsInv, Table!PickAllowed
<1>2. CASE Table!Visit
  <2>1. /\ seen' = seen + 1 /\ seen < Len(hands)
        /\ UNCHANGED <<hands, lead, choice>>
        /\ best' = IF RanksOf(hands)[seen + 1] > best THEN RanksOf(hands)[seen + 1] ELSE best
        /\ askee' = IF RanksOf(hands)[seen + 1] > best THEN seen + 1
                    ELSE IF RanksOf(hands)[seen + 1] # -1 /\ RanksOf(hands)[seen + 1] = best
                         THEN Table!NoSeat ELSE askee
    BY <1>2 DEF Table!Visit, Table!Tied, RanksOf, HandsInv
  <2>2. Highest(RanksOf(hands), seen + 1, best', askee')
    BY <2>1, RanksTyped, HighestSoFar DEF HandsInv
  <2>3. Table!PickAllowed'
    BY <2>1 DEF HandsInv, Table!PickAllowed
  <2>4. QED
    BY <2>1, <2>2, <2>3 DEF HandsInv
<1>3. CASE Table!Pick
  <2>1. UNCHANGED <<hands, seen, best, askee, lead>> /\ hands # <<>>
    BY <1>3 DEF Table!Pick
  <2>2. CASE lead = Table!NoCard /\ choice' \in hands[1]
    BY <2>1, <2>2 DEF HandsInv, Table!PickAllowed, Table!FollowsSuit
  <2>3. ASSUME NEW order, choice' \in Table!Found(hands[1], order)
        PROVE  HandsInv'
    <3>1. choice' \in Table!PlayableCards(hands[1])
      BY <2>3 DEF Table!Found, Table!InZone
    <3>2. choice' \in hands[1] /\ Table!FollowsSuit(choice', lead, hands[1])
      BY <3>1 DEF Table!PlayableCards, Table!CanMatch, Table!FollowsSuit
    <3>3. QED
      BY <2>1, <3>2 DEF HandsInv, Table!PickAllowed
  <2>4. QED
    BY <1>3, <2>2, <2>3 DEF Table!Pick
<1>4. QED
  BY <1>1, <1>2, <1>3 DEF Table!Next

LEMMA HandsInit == Init => HandsInv
<1> SUFFICES ASSUME Table!Init PROVE HandsInv
  BY DEF Init
<1>1. /\ hands = <<>> /\ seen = 0 /\ best = -1 /\ askee = Table!NoSeat /\ choice = Table!NoCard
  BY DEF Table!Init
<1>2. QED
  BY <1>1 DEF HandsInv, Highest, Ranks, Table!PickAllowed

LEMMA HandsNext == HandsInv /\ [Next]_vars => HandsInv'
<1> SUFFICES ASSUME HandsInv, [Next]_vars PROVE HandsInv'
  OBVIOUS
<1>1. CASE Table!Next
  BY <1>1, HandsStep
<1>2. CASE UNCHANGED dealing
  BY <1>2 DEF dealing, HandsInv, Table!PickAllowed
<1>3. QED
  BY <1>1, <1>2 DEF Next, vars, outer

LEMMA HandsAgree == HandsInv => RulesAgree
<1> SUFFICES ASSUME HandsInv PROVE Table!AskeeStrongest
  BY DEF HandsInv, RulesAgree, Table!RulesAgree
<1> DEFINE ranks == RanksOf(hands)
<1>1. \A i \in 1..seen : ranks[i] \in Ranks /\ ranks[i] = Table!BestRank(hands[i])
  BY RanksTyped DEF HandsInv, RanksOf
<1>2. Highest(ranks, seen, best, askee)
  BY DEF HandsInv
<1> HIDE DEF ranks
<1>3. Table!Strongest = {i \in 1..seen : ranks[i] # -1 /\ \A j \in (1..seen) \ {i} : ranks[i] > ranks[j]}
  BY <1>1 DEF Table!Strongest, Table!Stronger
<1>4. CASE askee = Table!NoSeat
  <2>1. \A i \in 1..seen : ~(ranks[i] # -1 /\ \A j \in (1..seen) \ {i} : ranks[i] > ranks[j])
    BY <1>1, <1>2, <1>4 DEF Highest, Ranks
  <2>2. QED
    BY <1>3, <1>4, <2>1 DEF Table!AskeeStrongest
<1>5. CASE askee # Table!NoSeat
  <2>1. askee \in 1..seen /\ ranks[askee] = best /\ best # -1
    BY <1>2, <1>5 DEF Highest
  <2>2. \A i \in 1..seen : (ranks[i] # -1 /\ \A j \in (1..seen) \ {i} : ranks[i] > ranks[j]) <=> i = askee
    BY <1>1, <1>2, <1>5, <2>1 DEF Highest, Ranks
  <2>3. Table!Strongest = {askee}
    BY <1>3, <2>1, <2>2
  <2>4. QED
    BY <2>3 DEF Table!AskeeStrongest
<1>6. QED
  BY <1>4, <1>5

\* The player asked for the special claim is the only one with the best hand, and the
\* card a bot picks passes the validation (cards.rs, strategy.rs, validator.rs).
THEOREM HandsFollowRules == Spec => []RulesAgree
BY HandsAgree, HandsInit, HandsNext, PTL DEF Spec
------------------------------------------------------------------------------
\* The pages shown from Redis.

Profile == "profile"
Games == "games"

LEMMA RouteFacts ==
  /\ Cache!ToSet(<<"profile", "games">>) = {"profile", "games"}
  /\ Cache!ToSet(<<"games">>) = {"games"} /\ Cache!ToSet(<<"profile">>) = {"profile"}
  /\ Head(<<"profile", "games">>) = "profile" /\ Tail(<<"profile", "games">>) = <<"games">>
  /\ Head(<<"games">>) = "games" /\ Head(<<"profile">>) = "profile"
  /\ Tail(<<"games">>) = <<>> /\ Tail(<<"profile">>) = <<>>
  /\ <<"profile", "games">> # <<"games">> /\ <<"profile", "games">> # <<"profile">>
  /\ <<"games">> # <<"profile">> /\ <<>> # <<"games">> /\ <<>> # <<"profile">>
  /\ <<>> # <<"profile", "games">>
<1>1. Cache!ToSet(<<"profile", "games">>) = {"profile", "games"}
  BY DEF Cache!ToSet
<1>2. Cache!ToSet(<<"games">>) = {"games"} /\ Cache!ToSet(<<"profile">>) = {"profile"}
  BY DEF Cache!ToSet
<1>3. /\ Head(<<"profile", "games">>) = "profile"
      /\ Head(<<"games">>) = "games" /\ Head(<<"profile">>) = "profile"
  OBVIOUS
<1>4. Tail(<<"profile", "games">>) = <<"games">>
  OBVIOUS
<1>5. Tail(<<"games">>) = <<>> /\ Tail(<<"profile">>) = <<>>
  OBVIOUS
<1>6. /\ <<"profile", "games">> # <<"games">> /\ <<"profile", "games">> # <<"profile">>
      /\ <<"games">> # <<"profile">> /\ <<>> # <<"games">> /\ <<>> # <<"profile">>
      /\ <<>> # <<"profile", "games">>
  OBVIOUS
<1>7. QED
  BY <1>1, <1>2, <1>3, <1>4, <1>5, <1>6

LEMMA ValuesOfAppend ==
  ASSUME NEW s \in Seq(Int), NEW x \in Int
  PROVE  /\ Append(s, x) \in Seq(Int) /\ Append(s, x) # <<>>
         /\ Cache!ToSet(Append(s, x)) = Cache!ToSet(s) \union {x}
<1> DEFINE t == Append(s, x)
<1>1. t \in Seq(Int) /\ Len(t) = Len(s) + 1 /\ Len(s) \in Nat
  OBVIOUS
<1>2. t[Len(s) + 1] = x /\ \A i \in 1..Len(s) : t[i] = s[i]
  OBVIOUS
<1>3. DOMAIN t = 1..(Len(s) + 1) /\ DOMAIN s = 1..Len(s)
  BY <1>1
<1> HIDE DEF t
<1>4. {t[i] : i \in 1..(Len(s) + 1)} = {s[i] : i \in 1..Len(s)} \union {x}
  <2>1. \A i : i \in 1..(Len(s) + 1) <=> i \in 1..Len(s) \/ i = Len(s) + 1
    BY <1>1
  <2>2. QED
    BY <1>2, <2>1
<1>5. t # <<>>
  BY <1>1
<1>6. QED
  BY <1>1, <1>3, <1>4, <1>5 DEF Cache!ToSet, t

LEMMA ValuesOfSingle ==
  \A x \in Int : <<x>> \in Seq(Int) /\ <<x>> # <<>> /\ Cache!ToSet(<<x>>) = {x}
BY DEF Cache!ToSet

LEMMA ValuesExist ==
  ASSUME NEW s \in Seq(Int), s # <<>>
  PROVE  Cache!ToSet(s) # {}
<1>1. Len(s) \in Nat /\ Len(s) # 0 /\ DOMAIN s = 1..Len(s)
  OBVIOUS
<1>2. s[1] \in {s[i] : i \in DOMAIN s}
  BY <1>1
<1>3. QED
  BY <1>2 DEF Cache!ToSet

\* A change of the page has still to be dropped.
Covered(k) == \E route \in Cache!Routes : due[route] > 0 /\ k \in Cache!ToSet(route)

\* What a request has read of a page is what the database has, or doubtful, or covered.
Viewing(x) ==
  /\ x = [pc |-> x.pc, page |-> x.page, value |-> x.value, doubt |-> x.doubt]
  /\ x.page \in Cache!Pages /\ x.value \in Seq(Int)
  /\ x.pc = "keep" => x.value # <<>>
  /\ x.pc = "idle" => x.value = <<>> /\ x.doubt = FALSE
Known(x) == Cache!ToSet(x.value) \subseteq {data[x.page]} \/ x.doubt = TRUE \/ Covered(x.page)

\* And so is what is kept.
KeptSound(k, e) ==
  /\ e = [value |-> e.value, doubt |-> e.doubt]
  /\ e.value = {data[k]} \/ e.doubt = TRUE \/ Covered(k)

PagesTyped ==
  /\ data \in [Cache!Pages -> Int] /\ due \in [Cache!Routes -> Nat]
  /\ entryShown = [k \in Cache!Pages |-> entryShown[k]]
  /\ viewer = [v \in Viewers |-> viewer[v]]
ViewersSound == \A v \in Viewers : Viewing(viewer[v]) /\ Known(viewer[v])
EntriesSound == \A k \in Cache!Pages : \A e \in entryShown[k] : KeptSound(k, e)
CacheInv == PagesTyped /\ ViewersSound /\ EntriesSound

\* What a step may do to the pages it does not doubt.
Untouched(k) == data'[k] = data[k] /\ (Covered(k) => Covered(k)')

LEMMA ViewersDoubted ==
  ASSUME CacheInv, NEW shown, Cache!Doubtful(shown) \/ (shown = {} /\ UNCHANGED viewer),
         \A k \in Cache!Pages : k \in shown \/ Untouched(k) \/ Covered(k)'
  PROVE  viewer' = [v \in Viewers |-> viewer'[v]] /\ ViewersSound'
<1>1. /\ viewer' = [v \in Viewers |-> viewer'[v]]
      /\ \A v \in Viewers : viewer'[v] = IF viewer[v].value # <<>> /\ viewer[v].page \in shown
                                         THEN [viewer[v] EXCEPT !.doubt = TRUE] ELSE viewer[v]
  BY DEF Cache!Doubtful, CacheInv, PagesTyped
<1>2. ASSUME NEW v \in Viewers
      PROVE  Viewing(viewer'[v]) /\ Known(viewer[v]) /\ Known(viewer[v])'
  <2>1. Viewing(viewer[v]) /\ Known(viewer[v])
    BY DEF CacheInv, ViewersSound
  <2>2. viewer[v].page \in Cache!Pages
    BY <2>1 DEF Viewing
  <2>3. CASE viewer[v].value # <<>> /\ viewer[v].page \in shown
    <3>1. viewer'[v] = [viewer[v] EXCEPT !.doubt = TRUE]
      BY <1>1, <2>3
    <3>2. Viewing(viewer'[v]) /\ viewer'[v].doubt = TRUE
      BY <2>1, <2>3, <3>1 DEF Viewing
    <3>3. QED
      BY <2>1, <3>2 DEF Known
  <2>4. CASE viewer[v].value = <<>> \/ viewer[v].page \notin shown
    <3>1. viewer'[v] = viewer[v]
      BY <1>1, <2>4
    <3>2. CASE viewer[v].value = <<>>
      <4>1. Cache!ToSet(viewer[v].value) = {}
        BY <3>2 DEF Cache!ToSet
      <4>2. QED
        BY <2>1, <3>1, <4>1 DEF Known
    <3>3. CASE viewer[v].page \notin shown
      <4>1. PICK k \in Cache!Pages : k = viewer[v].page
        BY <2>2
      <4>2. Untouched(k) \/ Covered(k)'
        BY <3>3, <4>1
      <4>3. QED
        BY <2>1, <3>1, <4>1, <4>2 DEF Known, Untouched
    <3>4. QED
      BY <2>1, <2>4, <3>2, <3>3
  <2>5. QED
    BY <2>3, <2>4
<1>3. QED
  BY <1>1, <1>2 DEF ViewersSound

LEMMA EntriesDoubted ==
  ASSUME CacheInv, NEW shown,
         \/ entryShown' = Cache!Doubted(shown)
         \/ \E k \in Cache!Pages : entryShown' = Cache!Deleted(k) /\ shown \subseteq {k}
         \/ shown = {} /\ UNCHANGED entryShown,
         \A k \in Cache!Pages : k \in shown \/ Untouched(k) \/ Covered(k)'
  PROVE  entryShown' = [k \in Cache!Pages |-> entryShown'[k]] /\ EntriesSound'
<1>1. entryShown' = [k \in Cache!Pages |-> entryShown'[k]]
  BY DEF Cache!Doubted, Cache!Deleted, CacheInv, PagesTyped
<1>2. ASSUME NEW k \in Cache!Pages, NEW e \in entryShown'[k]
      PROVE  KeptSound(k, e)'
  <2>1. CASE e \in entryShown[k] /\ k \notin shown
    <3>1. KeptSound(k, e)
      BY <2>1 DEF CacheInv, EntriesSound
    <3>2. Untouched(k) \/ Covered(k)'
      BY <2>1
    <3>3. QED
      BY <3>1, <3>2 DEF KeptSound, Untouched
  <2>2. CASE k \in shown /\ entryShown' = Cache!Doubted(shown)
    <3>1. PICK d \in entryShown[k] : e = [d EXCEPT !.doubt = TRUE]
      BY <1>2, <2>2 DEF Cache!Doubted
    <3>2. KeptSound(k, d)
      BY DEF CacheInv, EntriesSound
    <3>3. d = [value |-> d.value, doubt |-> d.doubt]
      BY <3>2 DEF KeptSound
    <3>4. e = [value |-> d.value, doubt |-> TRUE]
      BY <3>1, <3>3
    <3>5. QED
      BY <3>4 DEF KeptSound
  <2>3. CASE entryShown' = Cache!Doubted(shown)
    <3>1. k \notin shown => entryShown'[k] = entryShown[k]
      BY <2>3 DEF Cache!Doubted
    <3>2. QED
      BY <1>2, <2>1, <2>2, <2>3, <3>1
  <2>4. ASSUME NEW i \in Cache!Pages, entryShown' = Cache!Deleted(i), shown \subseteq {i}
        PROVE  KeptSound(k, e)'
    <3>1. entryShown'[i] = {} /\ (k # i => entryShown'[k] = entryShown[k])
      BY <2>4 DEF Cache!Deleted, CacheInv, PagesTyped
    <3>2. QED
      BY <1>2, <2>1, <2>4, <3>1
  <2>5. CASE shown = {} /\ UNCHANGED entryShown
    BY <1>2, <2>1, <2>5
  <2>6. QED
    BY <2>3, <2>4, <2>5
<1>3. QED
  BY <1>1, <1>2 DEF EntriesSound

LEMMA PageSaved ==
  ASSUME CacheInv, Cache!Save
  PROVE  CacheInv'
<1>1. PICK route \in {<<"profile", "games">>, <<"profile">>} :
        Cache!Changed(Cache!ToSet(route)) /\ Cache!Commit(route)
  BY DEF Cache!Save
<1>2. route \in Cache!Routes
  BY <1>1 DEF Cache!Routes
<1>3. /\ due' = [r \in Cache!Routes |-> due'[r]]
      /\ \A r \in Cache!Routes : due'[r] = IF r = route THEN due[r] + 1 ELSE due[r]
  BY <1>1, <1>2 DEF Cache!Commit, CacheInv, PagesTyped
<1>4. due' \in [Cache!Routes -> Nat] /\ due'[route] > 0 /\ \A r \in Cache!Routes : due'[r] >= due[r]
  BY <1>2, <1>3 DEF CacheInv, PagesTyped
<1>5. data' \in [Cache!Pages -> Int]
      /\ \A k \in Cache!Pages : k \notin Cache!ToSet(route) => data'[k] = data[k]
  BY <1>1 DEF Cache!Changed, CacheInv, PagesTyped
<1>6. ASSUME NEW k \in Cache!Pages
      PROVE  Untouched(k) \/ Covered(k)'
  <2>1. Covered(k) => Covered(k)'
    BY <1>3, <1>4 DEF Covered, CacheInv, PagesTyped
  <2>2. k \in Cache!ToSet(route) => Covered(k)'
    BY <1>2, <1>4 DEF Covered
  <2>3. QED
    BY <1>5, <2>1, <2>2 DEF Untouched
<1>7. UNCHANGED <<entryShown, viewer>>
  BY DEF Cache!Save
<1>8. viewer' = [v \in Viewers |-> viewer'[v]] /\ ViewersSound'
  BY <1>6, <1>7, ViewersDoubted
<1>9. entryShown' = [k \in Cache!Pages |-> entryShown'[k]] /\ EntriesSound'
  BY <1>6, <1>7, EntriesDoubted
<1>10. QED
  BY <1>4, <1>5, <1>8, <1>9 DEF CacheInv, PagesTyped

LEMMA PageSavedSilently ==
  ASSUME CacheInv, Cache!SaveSilently
  PROVE  CacheInv'
<1>1. PICK shown \in {{"profile"}, Cache!Pages} :
        Cache!Changed(shown) /\ Cache!Doubtful(shown) /\ entryShown' = Cache!Doubted(shown)
  BY DEF Cache!SaveSilently
<1>2. UNCHANGED due
  BY DEF Cache!SaveSilently
<1>3. data' \in [Cache!Pages -> Int] /\ \A k \in Cache!Pages : k \notin shown => data'[k] = data[k]
  BY <1>1 DEF Cache!Changed, CacheInv, PagesTyped
<1>4. \A k \in Cache!Pages : k \in shown \/ Untouched(k) \/ Covered(k)'
  BY <1>2, <1>3 DEF Untouched, Covered
<1>5. viewer' = [v \in Viewers |-> viewer'[v]] /\ ViewersSound'
  BY <1>1, <1>4, ViewersDoubted
<1>6. entryShown' = [k \in Cache!Pages |-> entryShown'[k]] /\ EntriesSound'
  BY <1>1, <1>4, EntriesDoubted
<1>7. QED
  BY <1>2, <1>3, <1>5, <1>6 DEF CacheInv, PagesTyped

LEMMA PageDropped ==
  ASSUME CacheInv, Cache!Drop
  PROVE  CacheInv'
<1>1. PICK route \in Cache!Routes :
        /\ due[route] > 0
        /\ due' = [r \in Cache!Routes |-> due[r] + (IF r = Tail(route) THEN 1
                                                    ELSE IF r = route THEN -1 ELSE 0)]
        /\ Cache!Doubtful({Head(route)})
        /\ entryShown' = Cache!Deleted(Head(route)) \/ entryShown' = Cache!Doubted({Head(route)})
  BY DEF Cache!Drop
<1>2. UNCHANGED data
  BY DEF Cache!Drop
<1>3. /\ Head(route) \in Cache!Pages
      /\ Cache!ToSet(route) \subseteq {Head(route)} \/ Tail(route) \in Cache!Routes
      /\ Tail(route) \in Cache!Routes => Cache!ToSet(route) \subseteq
                                          {Head(route)} \union Cache!ToSet(Tail(route))
      /\ Tail(route) # route
  BY RouteFacts DEF Cache!Routes, Cache!Pages
<1>4. due' \in [Cache!Routes -> Nat]
  BY <1>1 DEF CacheInv, PagesTyped
<1>5. ASSUME NEW k \in Cache!Pages, k # Head(route)
      PROVE  Untouched(k)
  <2>1. SUFFICES ASSUME Covered(k) PROVE Covered(k)'
    BY <1>2 DEF Untouched
  <2>2. PICK r \in Cache!Routes : due[r] > 0 /\ k \in Cache!ToSet(r)
    BY <2>1 DEF Covered
  <2>3. CASE r # route
    <3>1. due'[r] > 0
      BY <1>1, <2>2, <2>3 DEF CacheInv, PagesTyped
    <3>2. QED
      BY <2>2, <3>1 DEF Covered
  <2>4. CASE r = route
    <3>1. Tail(route) \in Cache!Routes /\ k \in Cache!ToSet(Tail(route))
      BY <1>3, <1>5, <2>2, <2>4
    <3>2. PICK t \in Cache!Routes : t = Tail(route)
      BY <3>1
    <3>3. due[t] \in Nat /\ due'[t] = due[t] + 1
      BY <1>1, <3>2 DEF CacheInv, PagesTyped
    <3>4. due'[t] > 0
      BY <3>3
    <3>5. QED
      BY <3>1, <3>2, <3>4 DEF Covered
  <2>5. QED
    BY <2>3, <2>4
<1>6. \A k \in Cache!Pages : k \in {Head(route)} \/ Untouched(k) \/ Covered(k)'
  BY <1>5
<1>7. viewer' = [v \in Viewers |-> viewer'[v]] /\ ViewersSound'
  BY <1>1, <1>6, ViewersDoubted
<1>8. entryShown' = [k \in Cache!Pages |-> entryShown'[k]] /\ EntriesSound'
  BY <1>1, <1>3, <1>6, EntriesDoubted
<1>9. QED
  BY <1>2, <1>4, <1>7, <1>8 DEF CacheInv, PagesTyped

\* A request that goes on with what it reads.
LEMMA ViewerGoesOn ==
  ASSUME CacheInv, UNCHANGED <<data, due, entryShown>>, NEW v \in Viewers, NEW x,
         viewer' = [viewer EXCEPT ![v] = x], Viewing(x), Known(x)
  PROVE  CacheInv'
<1>1. viewer' = [w \in Viewers |-> IF w = v THEN x ELSE viewer[w]]
  BY DEF CacheInv, PagesTyped
<1>2. ASSUME NEW w \in Viewers
      PROVE  Viewing(viewer'[w]) /\ Known(viewer[w])'
  <2>1. \A y : Known(y) => /\ Cache!ToSet(y.value) \subseteq {data'[y.page]} \/ y.doubt = TRUE
                              \/ \E r \in Cache!Routes : due'[r] > 0 /\ y.page \in Cache!ToSet(r)
    BY DEF Known, Covered
  <2>2. Viewing(viewer[w]) /\ Known(viewer[w])
    BY DEF CacheInv, ViewersSound
  <2>3. viewer'[w] = IF w = v THEN x ELSE viewer[w]
    BY <1>1
  <2>4. QED
    BY <2>1, <2>2, <2>3 DEF Known, Covered
<1>3. viewer' = [w \in Viewers |-> viewer'[w]] /\ ViewersSound'
  BY <1>1, <1>2 DEF ViewersSound
<1>4. EntriesSound'
  BY DEF EntriesSound, KeptSound, Covered, CacheInv
<1>5. QED
  BY <1>3, <1>4 DEF CacheInv, PagesTyped

LEMMA PageViewed ==
  ASSUME CacheInv, NEW v \in Viewers, Cache!View(v)
  PROVE  CacheInv'
<1>1. Viewing(viewer[v]) /\ Known(viewer[v])
  BY DEF CacheInv, ViewersSound
<1>2. viewer[v] = [pc |-> viewer[v].pc, page |-> viewer[v].page, value |-> viewer[v].value,
                   doubt |-> viewer[v].doubt]
      /\ viewer[v].page \in Cache!Pages /\ viewer[v].value \in Seq(Int)
  BY <1>1 DEF Viewing
<1>3. data[viewer[v].page] \in Int /\ data["profile"] \in Int /\ data["games"] \in Int
  BY <1>2 DEF CacheInv, PagesTyped, Cache!Pages
<1>4. CASE Cache!Look(v)
  <2>1. PICK k \in Cache!Pages : Cache!Goto(v, "read", k, <<>>)
    BY <1>4 DEF Cache!Look
  <2> DEFINE x == [pc |-> "read", page |-> k, value |-> <<>>, doubt |-> viewer[v].doubt]
  <2>2. viewer' = [viewer EXCEPT ![v] = x]
    BY <2>1 DEF Cache!Goto
  <2>3. viewer[v].doubt = FALSE
    BY <1>1, <1>4 DEF Cache!Look, Viewing
  <2>4. Cache!ToSet(<<>>) = {}
    BY DEF Cache!ToSet
  <2>5. Viewing(x) /\ Known(x)
    BY <2>3, <2>4 DEF Viewing, Known
  <2> HIDE DEF x
  <2>6. UNCHANGED <<data, due, entryShown>>
    BY <1>4 DEF Cache!Look
  <2>7. QED
    BY <2>2, <2>5, <2>6, ViewerGoesOn
<1>5. CASE Cache!ReadProfile(v)
  <2> DEFINE x == [pc |-> "keep", page |-> "profile", value |-> <<data["profile"]>>,
                   doubt |-> viewer[v].doubt]
  <2>1. viewer' = [viewer EXCEPT ![v] = x]
    BY <1>5 DEF Cache!ReadProfile, Cache!Goto
  <2>2. /\ x.pc = "keep" /\ x.page = "profile" /\ x.value \in Seq(Int) /\ x.value # <<>>
        /\ Cache!ToSet(x.value) = {data["profile"]}
    BY <1>3, ValuesOfSingle
  <2>3. Viewing(x) /\ Known(x)
    BY <2>2 DEF Viewing, Known, Cache!Pages
  <2>4. UNCHANGED <<data, due, entryShown>>
    BY <1>5 DEF Cache!ReadProfile
  <2> HIDE DEF x
  <2>5. QED
    BY <2>1, <2>3, <2>4, ViewerGoesOn
<1>6. CASE Cache!ListGames(v)
  <2> DEFINE w == Append(viewer[v].value, data["games"])
             x == [pc |-> IF Len(w) = 2 THEN "keep" ELSE "read", page |-> "games",
                   value |-> w, doubt |-> viewer[v].doubt]
  <2>1. viewer' = [viewer EXCEPT ![v] = x]
    BY <1>6 DEF Cache!ListGames, Cache!Listed, Cache!Goto
  <2>2. /\ w \in Seq(Int) /\ w # <<>>
        /\ Cache!ToSet(w) = Cache!ToSet(viewer[v].value) \union {data["games"]}
    BY <1>2, <1>3, ValuesOfAppend
  <2>3. viewer[v].page = "games"
    BY <1>6 DEF Cache!ListGames
  <2> HIDE DEF w
  <2>4. Viewing(x)
    BY <2>2 DEF Viewing, Cache!Pages
  <2>5. Known(x)
    BY <1>1, <2>2, <2>3 DEF Known
  <2>6. UNCHANGED <<data, due, entryShown>>
    BY <1>6 DEF Cache!ListGames
  <2> HIDE DEF x
  <2>7. QED
    BY <2>1, <2>4, <2>5, <2>6, ViewerGoesOn
<1>7. CASE Cache!Keep(v)
  <2>1. UNCHANGED <<data, due>> /\ viewer' = [viewer EXCEPT ![v] = Cache!Idle]
    BY <1>7 DEF Cache!Keep
  <2>2. Viewing(Cache!Idle) /\ Known(Cache!Idle)
    <3>1. Cache!ToSet(<<>>) = {}
      BY DEF Cache!ToSet
    <3>2. QED
      BY <3>1 DEF Viewing, Known, Cache!Idle, Cache!Pages
  <2>3. CASE UNCHANGED entryShown
    BY <2>1, <2>2, <2>3, ViewerGoesOn
  <2> DEFINE e == [value |-> Cache!ToSet(viewer[v].value), doubt |-> viewer[v].doubt]
  <2>4. CASE entryShown' = [entryShown EXCEPT ![viewer[v].page] = {e}]
    <3>1. PICK k \in Cache!Pages : k = viewer[v].page
      BY <1>2
    <3> PICK d : d = e
      OBVIOUS
    <3>2. viewer[v].value # <<>>
      BY <1>1, <1>7 DEF Cache!Keep, Viewing
    <3>3. Cache!ToSet(viewer[v].value) # {}
      BY <1>2, <3>2, ValuesExist
    <3>4. d = [value |-> d.value, doubt |-> d.doubt] /\ d.value # {}
          /\ (d.value \subseteq {data[k]} \/ d.doubt = TRUE \/ Covered(k))
      BY <1>1, <3>1, <3>3 DEF Known
    <3>5. KeptSound(k, d)
      BY <3>4 DEF KeptSound
    <3>6. entryShown' = [i \in Cache!Pages |-> IF i = k THEN {d} ELSE entryShown[i]]
      BY <2>4, <3>1 DEF CacheInv, PagesTyped
    <3>7. \A i \in Cache!Pages : \A f : KeptSound(i, f) => KeptSound(i, f)'
      BY <2>1 DEF KeptSound, Covered
    <3>8. EntriesSound'
      BY <3>5, <3>6, <3>7 DEF EntriesSound, CacheInv
    <3>9. entryShown' = [i \in Cache!Pages |-> entryShown'[i]]
      BY <3>6
    <3>10. viewer' = [i \in Viewers |-> viewer'[i]]
      BY <2>1 DEF CacheInv, PagesTyped
    <3>11. ASSUME NEW i \in Viewers
           PROVE  Viewing(viewer'[i]) /\ Known(viewer[i])'
      <4>1. viewer'[i] = IF i = v THEN Cache!Idle ELSE viewer[i]
        BY <2>1 DEF CacheInv, PagesTyped
      <4>2. Viewing(viewer[i]) /\ Known(viewer[i])
        BY DEF CacheInv, ViewersSound
      <4>3. CASE viewer'[i] = viewer[i]
        BY <2>1, <4>2, <4>3 DEF Known, Covered
      <4>4. CASE viewer'[i] = Cache!Idle
        BY <2>1, <2>2, <4>4 DEF Known, Covered
      <4>5. QED
        BY <4>1, <4>3, <4>4
    <3>12. QED
      BY <2>1, <3>8, <3>9, <3>10, <3>11 DEF CacheInv, PagesTyped, ViewersSound
  <2>5. QED
    BY <1>7, <2>3, <2>4 DEF Cache!Keep
<1>8. QED
  BY <1>4, <1>5, <1>6, <1>7 DEF Cache!View

LEMMA CacheStep ==
  ASSUME CacheInv, Cache!ProfileNext
  PROVE  CacheInv'
<1>1. CASE Cache!Expire
  <2>1. PICK k \in Cache!Pages : entryShown' = Cache!Deleted(k)
    BY <1>1 DEF Cache!Expire
  <2>2. UNCHANGED <<data, due, viewer>>
    BY <1>1 DEF Cache!Expire
  <2>3. \A i \in Cache!Pages : i \in {} \/ Untouched(i) \/ Covered(i)'
    BY <2>2 DEF Untouched, Covered
  <2>4. viewer' = [v \in Viewers |-> viewer'[v]] /\ ViewersSound'
    BY <2>2, <2>3, ViewersDoubted
  <2>5. entryShown' = [i \in Cache!Pages |-> entryShown'[i]] /\ EntriesSound'
    BY <2>1, <2>3, EntriesDoubted
  <2>6. QED
    BY <2>2, <2>4, <2>5 DEF CacheInv, PagesTyped
<1>2. QED
  BY <1>1, PageSaved, PageSavedSilently, PageDropped, PageViewed DEF Cache!ProfileNext

LEMMA CacheInit == Init => CacheInv
<1> SUFFICES ASSUME Cache!Init PROVE CacheInv
  BY DEF Init
<1>1. /\ data = [k \in Cache!Pages |-> 0] /\ due = [r \in Cache!Routes |-> 0]
      /\ entryShown = [k \in Cache!Pages |-> {}]
      /\ viewer = [v \in Viewers |-> Cache!Idle]
  BY DEF Cache!Init
<1>2. Viewing(Cache!Idle) /\ Cache!ToSet(<<>>) = {}
  BY DEF Viewing, Cache!Idle, Cache!Pages, Cache!ToSet
<1>3. PagesTyped /\ EntriesSound
  BY <1>1 DEF PagesTyped, EntriesSound
<1>4. Known(Cache!Idle)
  BY <1>2 DEF Known, Cache!Idle
<1>5. ViewersSound
  BY <1>1, <1>2, <1>4 DEF ViewersSound
<1>6. QED
  BY <1>3, <1>5 DEF CacheInv

LEMMA CacheNext == CacheInv /\ [Next]_vars => CacheInv'
<1> SUFFICES ASSUME CacheInv, [Next]_vars PROVE CacheInv'
  OBVIOUS
<1>1. CASE Cache!ProfileNext
  BY <1>1, CacheStep
<1>2. CASE UNCHANGED <<data, due, entryShown, viewer>>
  BY <1>2 DEF CacheInv, PagesTyped, ViewersSound, EntriesSound, Viewing, Known, KeptSound, Covered
<1>3. CASE Cache!BoardNext
  <2>1. UNCHANGED <<data, due, entryShown, viewer>>
    BY <1>3 DEF Cache!BoardNext, Cache!Refresh, Cache!ReadScores, Cache!ClearBoard, Cache!Clear,
       Cache!AddOne, Cache!PutNames, Cache!NamesExpire, Cache!Win, Cache!Cut, Cache!profileVars
  <2>2. QED
    BY <1>2, <2>1
<1>4. QED
  BY <1>1, <1>2, <1>3 DEF Next, vars, outer, caches

LEMMA CacheSound == CacheInv => StaleOnlyInRaces
BY DEF CacheInv, EntriesSound, KeptSound, Covered, StaleOnlyInRaces, Cache!StaleOnlyInRaces

\* A page shown from Redis is the one in the database but for the races and the silent
\* changes that Caches names (game/service/caching.rs, dashboard_service.rs).
THEOREM StaleOnlyWhereNamed == Spec => []StaleOnlyInRaces
BY CacheSound, CacheInit, CacheNext, PTL DEF Spec
===============================================================================
