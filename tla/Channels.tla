------------------------------- MODULE Channels -------------------------------
(***************************************************************************)
(* The sockets that carry the events of a room and of a user to their pages. *)
(* They differ from those of a game: a page of a room never pings, the ping   *)
(* of a user's page refreshes last_pong and not last_activity, and nobody      *)
(* closes the socket whose entry the manager drops.  A page stays on for the   *)
(* whole behaviour; a socket it has left is not followed any further, its      *)
(* tasks touch no entry but their own.                                         *)
(***************************************************************************)
EXTENDS Naturals

CONSTANTS
  Pages,        \* the pages, each with its own room or user
  Pings,        \* those that ping: the users' pages
  QueueMax,     \* WS_SEND_QUEUE_CAPACITY, 256 in the code
  Heartbeat,    \* ticks without a pong a socket outlives: 90 s in the code
  MaxIdle,      \* ticks without activity a socket outlives: 10 min in the code
  MaxCuts       \* bound: networks cut

VARIABLES
  link,     \* page -> its socket
  cuts

channelVars == <<link, cuts>>

\* at: where the server is with the socket; wire: "open", or "cut" with nobody told;
\* reg: in the registry; fwd: the task that forwards the queue runs; pong, idle: the
\* ages of last_pong and last_activity.
Closed ==
  [at |-> "none", wire |-> "closed", reg |-> FALSE, fwd |-> FALSE, queue |-> 0,
   pong |-> 0, idle |-> 0]

Init == link = [k \in Pages |-> Closed] /\ cuts = 0

Put(k, s) == link' = [link EXCEPT ![k] = s] /\ UNCHANGED cuts

\* The page opens its socket, and another five seconds after one closed.
Connect(k) ==
  /\ link[k].wire = "closed"
  /\ Put(k, [Closed EXCEPT !.at = "welcome", !.wire = "open"])

\* The welcome is sent first: on a dead socket nothing is registered.
Welcome(k) ==
  LET s == link[k] IN
  /\ s.at = "welcome"
  /\ Put(k, [s EXCEPT !.at = IF s.wire = "open" THEN "add" ELSE "over"])

\* add_room_connection, add_user_connection; then the two tasks are spawned.
Register(k) ==
  LET s == link[k] IN
  /\ s.at = "add"
  /\ Put(k, [s EXCEPT !.at = "reads", !.reg = TRUE, !.fwd = TRUE])

\* An event for the page: a queue that is full costs the socket its entry.
Deliver(k) ==
  LET s == link[k] IN
  /\ s.reg
  /\ IF s.fwd /\ s.queue < QueueMax
     THEN Put(k, [s EXCEPT !.queue = @ + 1])
     ELSE Put(k, [s EXCEPT !.reg = FALSE])

\* The forwarding task sends what is queued, or finds the socket dead and takes the
\* entry out; it ends without a word when the entry is gone and the queue empty.
Forward(k) ==
  LET s == link[k] IN
  /\ s.fwd
  /\ \/ /\ s.queue > 0 /\ s.wire = "open"
        /\ Put(k, [s EXCEPT !.queue = @ - 1])
     \/ /\ s.queue > 0 /\ s.wire = "cut"
        /\ Put(k, [s EXCEPT !.reg = FALSE, !.fwd = FALSE, !.queue = 0])
     \/ /\ s.queue = 0 /\ ~s.reg
        /\ Put(k, [s EXCEPT !.fwd = FALSE])

\* The reading task sees the stream fail: the entry is taken out, both halves go.
ReadFails(k) ==
  LET s == link[k] IN
  /\ s.at = "reads" /\ s.wire = "cut"
  /\ Put(k, [s EXCEPT !.at = "over", !.reg = FALSE])

\* Thirty seconds pass.  A page that pings has its ping answered within them.
Tick(k) ==
  LET s == link[k]
      answered == k \in Pings /\ s.at = "reads" /\ s.wire = "open" IN
  /\ s.reg /\ (s.pong <= Heartbeat \/ s.idle <= MaxIdle)
  /\ Put(k, [s EXCEPT
       !.pong = IF answered THEN 0 ELSE IF s.pong <= Heartbeat THEN s.pong + 1 ELSE s.pong,
       !.idle = IF s.idle <= MaxIdle THEN s.idle + 1 ELSE s.idle])

\* The sweep drops the entries that are idle or silent, and tells nobody.
Late(s) == s.idle > MaxIdle \/ s.pong > Heartbeat
Sweep(k) ==
  LET s == link[k] IN
  /\ s.reg /\ Late(s)
  /\ Put(k, [s EXCEPT !.reg = FALSE])

\* The network goes.  The browser notices in the end and the page reconnects.
Cut(k) ==
  /\ link[k].wire = "open" /\ cuts < MaxCuts
  /\ link' = [link EXCEPT ![k].wire = "cut"] /\ cuts' = cuts + 1
\* Mutant of Notices: the page waits for a close that the network does not bring.
NoticesClose(s) == s.wire = "closed"
Notices(s) == s.wire = "cut"
ClientNotices(k) == Notices(link[k]) /\ Put(k, Closed)

ServerStep(k) == Welcome(k) \/ Register(k) \/ Forward(k) \/ ReadFails(k)
ClientStep(k) == Connect(k) \/ ClientNotices(k)
Next ==
  \E k \in Pages :
    ClientStep(k) \/ ServerStep(k) \/ Deliver(k) \/ Tick(k) \/ Sweep(k) \/ Cut(k)

Fairness ==
  \A k \in Pages :
    /\ WF_channelVars(ClientStep(k)) /\ WF_channelVars(ServerStep(k))
    /\ WF_channelVars(Tick(k)) /\ WF_channelVars(Sweep(k))
Spec == Init /\ [][Next]_channelVars /\ Fairness
------------------------------------------------------------------------------
\* Properties.

Receives(s) == s.wire = "open" /\ s.reg /\ s.fwd

\* "The sink is explicitly closed so the client is notified and can reconnect instead
\* of being left in a zombie state" (forwarding.rs).  Of these sockets it is not so:
\* a page whose entry was swept waits for events for ever.
NeverZombie == \A k \in Pages : <>[]Receives(link[k])
==============================================================================
