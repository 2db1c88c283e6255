---------------------------- MODULE EventBuffer ------------------------------
(***************************************************************************)
(* Publishing an event to Redis: attempts with a delay between them, then a  *)
(* bounded buffer in memory, which a task drains into its hand at intervals  *)
(* and publishes from there; what it cannot publish goes back to the end of  *)
(* the buffer, behind the events that came meanwhile.                        *)
(***************************************************************************)
EXTENDS Naturals, Sequences, FiniteSets

CONSTANTS
  Events,        \* bound: the events published, each by a task of its own
  PublishTries,  \* attempts, 3 in the code
  BufferMax,     \* redis_event_buffer_max_size
  FlushMax,      \* the 1000 of the flush task
  MaxCuts        \* bound: how often Redis goes away, a publisher is dropped and the
                 \* process dies

VARIABLES
  redis,      \* whether Redis answers
  sending,    \* event -> "new", "sends" or "ended", and the attempts made
  buffer,
  flush,      \* the flush task: where it is, its hand, the attempts at its head
  arrived,    \* the events published
  lost,       \* the events dropped from the full buffer, with the publisher that was
              \* still trying, or with the process
  cuts

bufferVars == <<redis, sending, buffer, flush, arrived, lost, cuts>>

Rest == [pc |-> "rest", hand |-> <<>>, tries |-> 0]
Elements(s) == {s[i] : i \in DOMAIN s}
NotStarted == [pc |-> "none", hand |-> <<>>, tries |-> 0]

Init ==
  /\ redis = TRUE /\ cuts = 0
  /\ sending = [e \in Events |-> [pc |-> "new", tries |-> 0]]
  /\ buffer = <<>> /\ flush = NotStarted
  /\ arrived = {} /\ lost = {}

\* Appends e, and drops the front of a buffer that is full.
Push(q, e, cap) == IF Len(q) >= cap THEN Append(Tail(q), e) ELSE Append(q, e)
\* All of s pushed back, one by one.
PushAll(q, s) ==
  LET push[i \in 0..Len(s)] == IF i = 0 THEN q ELSE Push(push[i - 1], s[i], FlushMax)
  IN push[Len(s)]
Dropped(q, s, r) == (Elements(q) \union Elements(s)) \ Elements(r)

Ended == [pc |-> "ended", tries |-> 0]
Open(e) == sending[e] # Ended
LastTry(e) == sending[e].tries + 1 >= PublishTries

\* One attempt of publish_with_retry.  The last that fails enqueues the event and
\* starts the flush task, once in the life of the process.
PublishNow(e) ==
  /\ Open(e) /\ redis
  /\ arrived' = arrived \union {e}
  /\ sending' = [sending EXCEPT ![e] = Ended]
  /\ UNCHANGED <<redis, buffer, flush, lost, cuts>>

PublishFails(e) ==
  /\ Open(e) /\ ~redis /\ ~LastTry(e)
  /\ sending' = [sending EXCEPT ![e] = [pc |-> "sends", tries |-> @.tries + 1]]
  /\ UNCHANGED <<redis, buffer, flush, arrived, lost, cuts>>

EnqueueEvent(e) ==
  /\ Open(e) /\ ~redis /\ LastTry(e)
  /\ sending' = [sending EXCEPT ![e] = Ended]
  /\ buffer' = Push(buffer, e, BufferMax)
  /\ lost' = lost \union Dropped(buffer, <<e>>, buffer')
  /\ flush' = IF flush = NotStarted THEN Rest ELSE flush
  /\ UNCHANGED <<redis, arrived, cuts>>

\* The publisher is dropped in an attempt or in the delay after it, by the timeout of
\* the scheduler's tick or with the request it runs in: the event is in no buffer yet.
PublisherDropped(e) ==
  /\ Open(e) /\ cuts < MaxCuts
  /\ sending' = [sending EXCEPT ![e] = Ended]
  /\ lost' = lost \union {e} /\ cuts' = cuts + 1
  /\ UNCHANGED <<redis, buffer, flush, arrived>>

\* A tick of the flush task.
Drain ==
  /\ flush.pc = "rest" /\ buffer # <<>>
  /\ flush' = [Rest EXCEPT !.pc = "connects", !.hand = buffer]
  /\ buffer' = <<>>
  /\ UNCHANGED <<redis, sending, arrived, lost, cuts>>

\* Mutant of BackAfterConnect: the hand is dropped when there is no connection.
BackAfterConnectNot(q, s) == q
\* What the buffer becomes when the connection fails.
BackAfterConnect(q, s) == PushAll(q, s)

Connect ==
  /\ flush.pc = "connects"
  /\ IF redis
       THEN flush' = [flush EXCEPT !.pc = "sends"] /\ UNCHANGED <<buffer, lost>>
       ELSE /\ flush' = Rest
            /\ buffer' = BackAfterConnect(buffer, flush.hand)
            /\ lost' = lost \union Dropped(buffer, flush.hand, PushAll(buffer, flush.hand))
  /\ UNCHANGED <<redis, sending, arrived, cuts>>

Rested(f) == IF f.hand = <<>> THEN Rest ELSE f

\* One attempt at the head of the hand.
FlushHead ==
  /\ flush.pc = "sends"
  /\ LET e == Head(flush.hand)
         next == Rested([flush EXCEPT !.hand = Tail(@), !.tries = 0])
     IN \/ /\ redis
           /\ arrived' = arrived \union {e} /\ flush' = next
           /\ UNCHANGED <<buffer, lost>>
        \/ /\ ~redis /\ flush.tries + 1 < PublishTries
           /\ flush' = [flush EXCEPT !.tries = @ + 1]
           /\ UNCHANGED <<buffer, lost, arrived>>
        \/ /\ ~redis /\ flush.tries + 1 >= PublishTries
           /\ flush' = next
           /\ buffer' = Push(buffer, e, FlushMax)
           /\ lost' = lost \union Dropped(buffer, <<e>>, buffer')
           /\ UNCHANGED arrived
  /\ UNCHANGED <<redis, sending, cuts>>

RedisGoes ==
  /\ redis /\ cuts < MaxCuts
  /\ redis' = FALSE /\ cuts' = cuts + 1
  /\ UNCHANGED <<sending, buffer, flush, arrived, lost>>
RedisReturns ==
  /\ ~redis /\ redis' = TRUE
  /\ UNCHANGED <<sending, buffer, flush, arrived, lost, cuts>>

\* The process dies: what it was publishing, and what it kept, is gone.
Restart ==
  /\ cuts < MaxCuts /\ cuts' = cuts + 1
  /\ LET open == {e \in Events : sending[e].pc = "sends"}
     IN /\ lost' = lost \union open \union Elements(buffer) \union Elements(flush.hand)
        /\ sending' = [e \in Events |-> IF e \in open THEN Ended ELSE sending[e]]
  /\ buffer' = <<>> /\ flush' = NotStarted
  /\ UNCHANGED <<redis, arrived>>

EventStep(e) == PublishNow(e) \/ PublishFails(e) \/ EnqueueEvent(e)
FlushStep == Drain \/ Connect \/ FlushHead

Next ==
  \/ \E e \in Events : EventStep(e) \/ PublisherDropped(e)
  \/ FlushStep \/ RedisGoes \/ RedisReturns \/ Restart

\* Redis comes back, and the tasks of the process run.
Fairness ==
  /\ WF_bufferVars(FlushStep) /\ WF_bufferVars(RedisReturns)
  /\ \A e \in Events : WF_bufferVars(EventStep(e))
Spec == Init /\ [][Next]_bufferVars /\ Fairness
------------------------------------------------------------------------------
\* Properties.

BufferTypeOK ==
  /\ redis \in BOOLEAN /\ sending \in [Events -> [pc : {"new", "sends", "ended"}, tries : 0..PublishTries]]
  /\ Elements(buffer) \union Elements(flush.hand) \union arrived \union lost \subseteq Events
  /\ Len(buffer) <= FlushMax \/ Len(buffer) <= BufferMax
  /\ flush.pc \in {"none", "rest", "connects", "sends"} /\ cuts \in 0..MaxCuts

\* An event whose publishing began reaches Redis, unless its publisher is dropped
\* before the last attempt has put it into the buffer, the buffer overflows or the
\* process dies: no failed connection, failed flush or event that arrives in between
\* makes the flush task lose one without a trace (messaging/redis.rs).
EventArrives == \A e \in Events : sending[e].pc # "new" ~> e \in arrived \union lost
==============================================================================
