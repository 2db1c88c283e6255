------------------------------- MODULE Services -------------------------------
(***************************************************************************)
(* The services around the games, each under the faults it is there for: the *)
(* idempotency guard, publishing behind the circuit breaker, the buffer of    *)
(* events, the rate limiter, accounts with their mails, the sockets of games,  *)
(* rooms, users and spectators, what is shown from Redis, a task of the        *)
(* scheduler and what is read off the hands.  They share no state, so that     *)
(* one of them moves in a behaviour and the others rest.                       *)
(***************************************************************************)
EXTENDS Integers, FiniteSets

CONSTANTS
  Parts,                                             \* the services
  Calls, MaxSlips,                                   \* Idempotency
  Servers, MaxRequests, Window, Horizon,             \* RateLimiter
  Clients, Pseudos, Addresses, Mailbox, MailQueue, MaxLinks,  \* Accounts
  Viewers, BoardUsers, MaxChanges, MaxFaults,        \* Caches
  Dealt, Leads                                       \* Hands

VARIABLES
  part,                                                   \* the one that moves
  entry, call, holds, effects, loose, slips,              \* Idempotency
  breaker, failures, cooled, publisher, outages,          \* Breaker
  redis, sending, buffer, flush, arrived, lost, cuts,     \* EventBuffer
  clock, counter, recent, admitted,                       \* RateLimiter
  users, request, mails, sender, asked, left,             \* Accounts
  socket, holder, kicked, faults, events,                 \* Sockets
  link, wireCuts,                                         \* Channels
  started, news, server, join, follows, at, raced, slow, watchFaults, missed,  \* Watching
  data, due, entryShown, viewer,                          \* Caches: the pages
  scores, board, names, refresh,                          \* and the leaderboard
  changes, redisFaults,
  state, told, task, smtp, process, taskFaults, excused,  \* Scheduler
  hands, seen, best, askee, lead, choice                  \* Hands

guard == <<entry, call, holds, effects, loose, slips>>
breaking == <<breaker, failures, cooled, publisher, outages>>
buffering == <<redis, sending, buffer, flush, arrived, lost, cuts>>
limiting == <<clock, counter, recent, admitted>>
accounts == <<users, request, mails, sender, asked, left>>
sockets == <<socket, holder, kicked, faults, events>>
pages == <<link, wireCuts>>
watching == <<started, news, server, join, follows, at, raced, slow, watchFaults, missed>>
caches == <<data, due, entryShown, viewer, scores, board, names, refresh, changes,
            redisFaults>>
ticking == <<state, told, task, smtp, process, taskFaults, excused>>
dealing == <<hands, seen, best, askee, lead, choice>>
inner == <<guard, breaking, buffering, limiting, accounts, sockets>>
outer == <<pages, watching, caches, ticking, dealing>>
vars == <<part, inner, outer>>

\* The limits are numbers of requests and of seconds; an address in lower case is its
\* own mailbox.
ASSUME LimitsAssumption ==
  /\ MaxRequests \in Nat /\ Window \in Nat \ {0} /\ Horizon \in Nat
  /\ "redis" \notin Servers
ASSUME MailboxAssumption ==
  /\ Mailbox \in [Addresses -> Addresses]
  /\ \A a \in Addresses : Mailbox[Mailbox[a]] = Mailbox[a]

\* An address with a capital and without.
LowerCase == [a \in {"Ana@x", "ana@x"} |-> "ana@x"]

Guard == INSTANCE Idempotency
Tasks == 1..3
Breaking == INSTANCE Breaker WITH Threshold <- 2, MaxRetries <- 2, MaxOutages <- 6
Events == 1..4
Buffering == INSTANCE EventBuffer WITH
  PublishTries <- 2, BufferMax <- 2, FlushMax <- 3, MaxCuts <- 2
Limiting == INSTANCE RateLimiter
Accounts == INSTANCE Accounts WITH Typed <- Addresses, QueueMax <- MailQueue
Players == {"p"}
MaxAlive == 2
Sockets == INSTANCE Sockets WITH QueueMax <- 1, MaxFaults <- 2, MaxEvents <- 1
Pages == {"room", "user"}
Paging == INSTANCE Channels WITH
  Pings <- {"user"}, QueueMax <- 1, Heartbeat <- 2, MaxIdle <- 3, MaxCuts <- 1,
  cuts <- wireCuts
Spectators == {"s1", "s2"}
Watch == INSTANCE Watching WITH
  Games <- 2, MaxFaults <- 2, faults <- watchFaults, lost <- missed
Cache == INSTANCE Caches WITH
  Users <- BoardUsers,
  entry <- entryShown, faults <- redisFaults
Ticking == INSTANCE Scheduler WITH
  Items <- {"i1", "i2"}, MaxFaults <- 2, mails <- told, faults <- taskFaults
Table == INSTANCE Hands

Init ==
  /\ part \in Parts
  /\ Guard!Init /\ Breaking!Init /\ Buffering!Init /\ Limiting!Init /\ Accounts!Init
  /\ Sockets!Init /\ Paging!Init /\ Watch!Init /\ Cache!Init /\ Ticking!Init
  /\ Table!Init

Next ==
  \/ /\ part = "guard" /\ Guard!Next
     /\ UNCHANGED <<part, outer, breaking, buffering, limiting, accounts, sockets>>
  \/ /\ part = "breaker" /\ Breaking!Next
     /\ UNCHANGED <<part, outer, guard, buffering, limiting, accounts, sockets>>
  \/ /\ part = "buffer" /\ Buffering!Next
     /\ UNCHANGED <<part, outer, guard, breaking, limiting, accounts, sockets>>
  \/ /\ part = "limiter" /\ Limiting!Next
     /\ UNCHANGED <<part, outer, guard, breaking, buffering, accounts, sockets>>
  \/ /\ part = "accounts" /\ Accounts!Next
     /\ UNCHANGED <<part, outer, guard, breaking, buffering, limiting, sockets>>
  \/ /\ part = "sockets" /\ Sockets!Next
     /\ UNCHANGED <<part, outer, guard, breaking, buffering, limiting, accounts>>
  \/ /\ part = "pages" /\ Paging!Next
     /\ UNCHANGED <<part, inner, watching, caches, ticking, dealing>>
  \/ /\ part = "watching" /\ Watch!Next
     /\ UNCHANGED <<part, inner, pages, caches, ticking, dealing>>
  \/ /\ part = "profiles" /\ Cache!ProfileNext
     /\ UNCHANGED <<part, inner, pages, watching, ticking, dealing>>
  \/ /\ part = "boards" /\ Cache!BoardNext
     /\ UNCHANGED <<part, inner, pages, watching, ticking, dealing>>
  \/ /\ part = "scheduler" /\ Ticking!Next
     /\ UNCHANGED <<part, inner, pages, watching, caches, dealing>>
  \/ /\ part = "hands" /\ Table!Next
     /\ UNCHANGED <<part, inner, pages, watching, caches, ticking>>

\* The fairness of each module, for the one that moves.
GuardFairness ==
  /\ WF_guard(part = "guard" /\ Guard!Expire)
  /\ \A c \in Calls : WF_guard(part = "guard" /\ (Guard!Step(c) \/ Guard!AskAgain(c)))
BreakerFairness ==
  /\ WF_breaking(part = "breaker" /\ Breaking!CoolDown)
  /\ \A t \in Tasks : WF_breaking(part = "breaker" /\ Breaking!Step(t))
BufferFairness ==
  /\ WF_buffering(part = "buffer" /\ Buffering!FlushStep)
  /\ WF_buffering(part = "buffer" /\ Buffering!RedisReturns)
  /\ \A e \in Events : WF_buffering(part = "buffer" /\ Buffering!EventStep(e))
MailFairness ==
  /\ WF_accounts(part = "accounts" /\ Accounts!TakeMail)
  /\ WF_accounts(part = "accounts" /\ Accounts!SendMail)
SocketFairness ==
  /\ \A c \in 1..MaxAlive :
       /\ WF_sockets(part = "sockets" /\ Sockets!ReadStep(c))
       /\ WF_sockets(part = "sockets" /\ Sockets!ForwardStep(c))
       /\ WF_sockets(part = "sockets" /\ Sockets!ForceDisconnect(c))
       /\ WF_sockets(part = "sockets" /\ Sockets!Sweep(c))
  /\ \A p \in Players : WF_sockets(part = "sockets" /\ Sockets!ClientStep(p))
PageFairness ==
  \A k \in Pages :
    /\ WF_pages(part = "pages" /\ Paging!ClientStep(k))
    /\ WF_pages(part = "pages" /\ Paging!ServerStep(k))
    /\ WF_pages(part = "pages" /\ Paging!Tick(k))
    /\ WF_pages(part = "pages" /\ Paging!Sweep(k))
WatchFairness ==
  /\ WF_watching(part = "watching" /\ Watch!Route)
  /\ \A s \in Spectators :
       /\ WF_watching(part = "watching" /\ Watch!JoinStep(s))
       /\ WF_watching(part = "watching" /\ Watch!LeaveStep(s))
TaskFairness ==
  /\ WF_caches(part = "boards" /\ Cache!Refresh)
  /\ WF_ticking(part = "scheduler" /\ Ticking!TaskStep)
  /\ WF_ticking(part = "scheduler" /\ Ticking!ProcessStep)

Spec ==
  /\ Init /\ [][Next]_vars
  /\ GuardFairness /\ BreakerFairness /\ BufferFairness /\ MailFairness
  /\ SocketFairness /\ PageFairness /\ WatchFairness /\ TaskFairness
------------------------------------------------------------------------------
\* Properties: those of the modules.

\* Requests with one key make one move between them, in whatever order they come,
\* fail, hang up and are sent again, until the entry expires or Redis cannot be
\* asked (service/idempotency.rs).
OnceWhileKept == Guard!OnceWhileKept

\* A client that goes on asking with its key is not refused for ever
\* (service/idempotency.rs).
RetryAnswered == Guard!RetryAnswered

\* Once publishing works again the breaker closes, and stays closed, whichever way
\* the tasks that ask, succeed and fail cross (messaging/mod.rs).
BreakerCloses == Breaking!BreakerCloses

\* An event whose publishing began reaches Redis, unless the buffer overflows, its
\* publisher is dropped between two attempts or the process dies (messaging/redis.rs).
EventArrives == Buffering!EventArrives

\* In no window does a server let through more than the limit from its memory, nor
\* Redis more than twice the limit (rate_limiter.rs).
LimitHolds == Limiting!LimitHolds

\* Nobody has two accounts with one mailbox, and no two have one name
\* (auth_service.rs, and the indexes of the users table).
OneAccountEach == Accounts!OneAccountEach

\* Every mail is sent or counted as an error (mailer/queue.rs).
MailLeaves == Accounts!MailLeaves

\* Whatever removes its sockets, a client ends up with one that receives the events
\* of its player (websocket/).
ClientServed == \A p \in Players : <>[](part = "sockets" => Sockets!Served(p))

\* A page of a room or of a user whose socket was closed or cut off is reached by its
\* events again, whatever the queue, the sweep and the two tasks did to the one before
\* (websocket/room.rs, user.rs).
PageServed == \A k \in Pages :
  part = "pages" /\ link[k].wire # "open" ~> Paging!Receives(link[k])

\* A spectator of a run is taken along from game to game, unless it registers while a
\* change is made and no later one takes it along, its queue was full, or the event of
\* the last game is lost (manager/run_spectators.rs, manager/mod.rs).
FollowsRun == \A s \in Spectators :
  <>[](part = "watching" => Watch!Watches(s) \/ s \in raced \union slow \/ missed)

\* A profile shown from Redis is the one in the database but for the races and the
\* silent changes that Caches names (game/service/caching.rs, dashboard_service.rs).
StaleOnlyInRaces == Cache!StaleOnlyInRaces

\* The tasks of the scheduler get done what they are for, wherever a tick is cut and
\* whether mails leave or not: what is due is handled, and the boards end up as the
\* database has them (scheduler/tasks.rs, cache/leaderboard.rs).
DueHandled ==
  /\ Ticking!DueHandled
  /\ <>[](part = "boards" /\ refresh.pc = "rest" => Cache!Complete)

\* The player asked for the special claim is the only one with the best hand, and the
\* card a bot picks passes the validation (cards.rs, strategy.rs, validator.rs).
RulesAgree == Table!RulesAgree
==============================================================================
