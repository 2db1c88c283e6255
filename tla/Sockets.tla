------------------------------- MODULE Sockets -------------------------------
(***************************************************************************)
(* The registry of the sockets of one game.  Every socket has a bounded       *)
(* queue and two tasks of its own, one that forwards the queue to the client  *)
(* and one that reads the client, and its entry may be removed by either, by  *)
(* the sweep of silent sockets, by the delivery that finds its queue full, by *)
(* a kick, or by a newer socket of the same player.  A client opens a socket, *)
(* sends one join_game, and opens another whenever its socket is closed.      *)
(***************************************************************************)
EXTENDS Naturals

CONSTANTS
  Players,
  MaxAlive,     \* bound: sockets alive at once
  QueueMax,     \* WS_SEND_QUEUE_CAPACITY, 256 in the code
  MaxFaults,    \* bound: networks cut, pages reloaded, lookups that fail, kicks
  MaxEvents     \* bound: events of the game

VARIABLES
  socket,       \* slot -> the socket there
  holder,       \* player -> the socket its client has, or NoSocket
  kicked,
  faults, events

socketVars == <<socket, holder, kicked, faults, events>>

Slots == 1..MaxAlive
NoSocket == 0

\* reg: in the registry; ident: player_id is set; disc: the flag disconnected;
\* wire: "open", "cut" with nobody told, or "closed" for both ends; fwd: the task
\* that forwards; inc: the task that reads; drop: a force_disconnect is under way.
NewSocket(p) ==
  [of |-> p, reg |-> TRUE, ident |-> FALSE, refused |-> FALSE, disc |-> FALSE,
   wire |-> "open", fwd |-> TRUE, inc |-> "unread", queue |-> 0, drop |-> FALSE]
Free ==
  [of |-> CHOOSE p \in Players : TRUE, reg |-> FALSE, ident |-> FALSE, refused |-> FALSE,
   disc |-> FALSE, wire |-> "closed", fwd |-> FALSE, inc |-> "ended", queue |-> 0, drop |-> FALSE]

Init ==
  /\ socket = [c \in Slots |-> Free] /\ holder = [p \in Players |-> NoSocket]
  /\ kicked = {} /\ faults = 0 /\ events = 0

Fault == faults < MaxFaults /\ faults' = faults + 1

\* A socket that neither the server nor the client will touch again leaves its slot.
Dead(s) == ~s.reg /\ ~s.fwd /\ ~s.drop /\ (s.inc = "ended" \/ (s.wire = "cut" /\ s.inc = "reads"))
Put(ss, hold) ==
  /\ socket' = [c \in Slots |->
                  IF Dead(ss[c]) /\ \A p \in Players : hold[p] # c THEN Free ELSE ss[c]]
  /\ holder' = hold
Set(ss) == Put(ss, holder)

\* A Control message to every socket of the registry: one whose queue is full is
\* force-disconnected, unless somebody is at it already.
Sent(s) ==
  CASE ~s.reg \/ ~s.fwd -> s
    [] s.queue < QueueMax -> [s EXCEPT !.queue = @ + 1]
    [] s.disc -> s
    [] OTHER -> [s EXCEPT !.disc = TRUE, !.drop = TRUE]
Broadcast(ss) == [c \in Slots |-> Sent(ss[c])]
BroadcastIf(told, ss) == IF told THEN Broadcast(ss) ELSE ss
Unregister(ss, gone) ==
  [c \in Slots |-> IF c \in gone THEN [ss[c] EXCEPT !.reg = FALSE] ELSE ss[c]]

\* ws_handler: the entry comes first.  One whose welcome fails is removed again
\* before it has a task.
OpenSocket(p) ==
  /\ holder[p] = NoSocket
  /\ \E c \in Slots :
       /\ socket[c] = Free /\ \A d \in 1..(c - 1) : socket[d] # Free
       /\ Put([socket EXCEPT ![c] = NewSocket(p)], [holder EXCEPT ![p] = c])
  /\ UNCHANGED <<kicked, faults, events>>

\* join_game has the player of the user looked up.
ReadJoin(c) ==
  /\ socket[c].inc = "unread"
  /\ Set([socket EXCEPT ![c].inc = "looks"])
  /\ UNCHANGED <<kicked, faults, events>>

\* The lookup fails: the client is answered game_joined all the same.
JoinRefused(c) ==
  /\ socket[c].inc = "looks" /\ Fault
  /\ Set([socket EXCEPT ![c].inc = "reads", ![c].refused = TRUE])
  /\ UNCHANGED <<kicked, events>>

\* Mutant of Evicted: the socket that joins is not spared.
EvictedAll(c) == {d \in Slots : socket[d].reg /\ socket[d].of = socket[c].of}
\* Others of the player, and of its user when the entry of c is there to say who
\* that is: it may have been removed during the lookup.
Evicted(c) ==
  {d \in Slots \ {c} : /\ socket[d].reg /\ socket[d].of = socket[c].of
                         /\ (socket[d].ident \/ socket[c].reg)}

SetPlayer(c) ==
  /\ socket[c].inc = "looks"
  /\ LET again == \E d \in Slots \ {c} :
                     socket[d].reg /\ socket[d].ident /\ socket[d].of = socket[c].of
         named == [socket EXCEPT ![c].inc = "reads", ![c].ident = socket[c].reg]
     IN Set(BroadcastIf(again, Unregister(named, Evicted(c))))
  /\ UNCHANGED <<kicked, faults, events>>

\* remove_connection.
Remove(c, ss, told) == Set(BroadcastIf(told, Unregister(ss, {c})))

\* The task that reads ends with its stream.
ReadEnds(c) ==
  /\ socket[c].inc \in {"unread", "reads"} /\ socket[c].wire = "closed"
  /\ Remove(c, [socket EXCEPT ![c].inc = "ended"],
            socket[c].reg /\ ~socket[c].disc /\ socket[c].ident)
  /\ UNCHANGED <<kicked, faults, events>>

\* force_disconnect, once the flag is set.
ForceDisconnect(c) ==
  /\ socket[c].drop
  /\ Remove(c, [socket EXCEPT ![c].drop = FALSE], socket[c].ident)
  /\ UNCHANGED <<kicked, faults, events>>

Forward(c) ==
  /\ socket[c].fwd /\ socket[c].queue > 0
  /\ LET mine == socket[c].reg /\ ~socket[c].disc IN
       IF socket[c].wire = "open" THEN Set([socket EXCEPT ![c].queue = @ - 1])
       ELSE Set([socket EXCEPT ![c].fwd = FALSE, ![c].disc = @ \/ mine, ![c].drop = @ \/ mine])
  /\ UNCHANGED <<kicked, faults, events>>

\* Mutant of WireAfter: a socket that is removed is not closed.
WireAfterOpen(c) == socket[c].wire
WireAfter(c) == "closed"

\* The registry has dropped the sender and the queue is empty: the session closes.
ForwardEnds(c) ==
  /\ socket[c].fwd /\ ~socket[c].reg /\ socket[c].queue = 0
  /\ Set([socket EXCEPT ![c].fwd = FALSE, ![c].wire = WireAfter(c)])
  /\ UNCHANGED <<kicked, faults, events>>

\* cleanup_stale_connections: a socket not heard of.  A live client pings.
Sweep(c) ==
  /\ socket[c].reg /\ socket[c].wire = "cut"
  /\ Set(BroadcastIf(socket[c].ident, Unregister(socket, {c})))
  /\ UNCHANGED <<kicked, faults, events>>

GameEvent ==
  /\ events < MaxEvents /\ events' = events + 1
  /\ Set(Broadcast(socket))
  /\ UNCHANGED <<kicked, faults>>

\* PlayerKicked: everybody is told, then the sockets of the player go.
Kick(p) ==
  /\ p \notin kicked /\ Fault
  /\ LET gone == {c \in Slots : socket[c].reg /\ socket[c].ident /\ socket[c].of = p}
     IN Set(Unregister(Broadcast(socket), gone))
  /\ kicked' = kicked \union {p}
  /\ UNCHANGED <<events>>

Cut(c) ==
  /\ socket[c].wire = "open" /\ Fault
  /\ Set([socket EXCEPT ![c].wire = "cut"])
  /\ UNCHANGED <<kicked, events>>

\* The page is reloaded, or the token changes.
Reload(p) ==
  /\ holder[p] # NoSocket /\ socket[holder[p]].wire = "open" /\ Fault
  /\ Put([socket EXCEPT ![holder[p]].wire = "closed"], [holder EXCEPT ![p] = NoSocket])
  /\ UNCHANGED <<kicked, events>>

\* onclose: five seconds later the client connects again.
ClientClosed(p) ==
  /\ holder[p] # NoSocket /\ socket[holder[p]].wire # "open"
  /\ Put(socket, [holder EXCEPT ![p] = NoSocket])
  /\ UNCHANGED <<kicked, faults, events>>

ReadStep(c) == ReadJoin(c) \/ SetPlayer(c) \/ ReadEnds(c)
ForwardStep(c) == Forward(c) \/ ForwardEnds(c)
SocketStep(c) == ReadStep(c) \/ ForwardStep(c) \/ ForceDisconnect(c) \/ Sweep(c)
ClientStep(p) == OpenSocket(p) \/ ClientClosed(p)

Next ==
  \/ \E c \in Slots : SocketStep(c) \/ JoinRefused(c) \/ Cut(c)
  \/ \E p \in Players : ClientStep(p) \/ Reload(p) \/ Kick(p)
  \/ GameEvent

\* The tasks of the server and the clients run.
Fairness ==
  /\ \A c \in Slots :
       /\ WF_socketVars(ReadStep(c)) /\ WF_socketVars(ForwardStep(c))
       /\ WF_socketVars(ForceDisconnect(c)) /\ WF_socketVars(Sweep(c))
  /\ \A p \in Players : WF_socketVars(ClientStep(p))
Spec == Init /\ [][Next]_socketVars /\ Fairness
------------------------------------------------------------------------------
\* Properties.

SocketsTypeOK ==
  /\ holder \in [Players -> Slots \union {NoSocket}]
  /\ \A c \in Slots : socket[c].queue \in 0..QueueMax
  /\ kicked \subseteq Players

\* The client of p has a socket that is registered as the player's, or whose join
\* the server could not look up.
Served(p) ==
  /\ holder[p] # NoSocket
  /\ LET s == socket[holder[p]] IN s.wire = "open" /\ s.reg /\ (s.ident \/ s.refused)

\* Whatever removes its sockets, and however a late join, an eviction, a sweep and
\* a full queue cross, a client ends up with a socket that receives the events of
\* its player: none is left with one that the server has forgotten (websocket/).
ClientServed == \A p \in Players : <>[]Served(p)
==============================================================================
