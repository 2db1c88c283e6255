------------------------------- MODULE Watching -------------------------------
(***************************************************************************)
(* The spectators of a run: each holds one socket, registered twice, with the *)
(* run and with the game the run is at, and taken to the next game when the   *)
(* event that starts it arrives.  A spectator joins in four steps and the      *)
(* taking along has three, none under a lock that covers the others.           *)
(***************************************************************************)
EXTENDS Naturals, Sequences

CONSTANTS
  Spectators,
  Games,        \* the games of the run: 1..Games
  MaxFaults     \* bound: networks cut, pages closed, queues filled, events lost

VARIABLES
  started,   \* current_game_index: how many games have been started
  news,      \* the events that start games, on their way
  server,    \* the task that routes them
  join,      \* spectator -> where its request stands and the game it read
  follows,   \* spectator -> its entry in the run's registry: a game, Unset or Gone
  at,        \* spectator -> the game whose connections hold it, or Gone
  raced,     \* the spectators whose registration met a change of game
  slow,      \* the slow consumers: taken out of the map of a game by a full queue
  faults,
  lost       \* whether the event of the last game to start was lost

watchVars == <<started, news, server, join, follows, at, raced, slow, faults, lost>>

Unset == 0     \* None: the run has not started a game
Gone == Games + 1
Rest == [pc |-> "rest", game |-> 0, list |-> {}]

Init ==
  /\ started = 0 /\ news = <<>> /\ server = Rest
  /\ join = [s \in Spectators |-> [pc |-> "off", game |-> Unset]]
  /\ follows = [s \in Spectators |-> Gone] /\ at = [s \in Spectators |-> Gone]
  /\ raced = {} /\ slow = {} /\ faults = 0 /\ lost = FALSE

Fault == faults < MaxFaults /\ faults' = faults + 1

\* The next game of the run is committed and its event published; Redis keeps no
\* event for a subscriber that is reconnecting.  The event of a later game makes up for it.
StartGame ==
  /\ started < Games
  /\ started' = started + 1
  /\ \/ news' = Append(news, started') /\ lost' = FALSE /\ UNCHANGED faults
     \/ Fault /\ lost' = TRUE /\ UNCHANGED news
  /\ UNCHANGED <<server, join, follows, at, raced, slow>>

\* resolve_current_game_id.  A page comes back when its last connection has been
\* taken out and no re-pointing holds it.
Resolve(s) ==
  /\ join[s].pc = "off" /\ at[s] = Gone /\ \A e \in server.list : e.of # s
  /\ join' = [join EXCEPT ![s] = [pc |-> "add", game |-> started]]
  /\ raced' = raced \ {s} /\ slow' = slow \ {s}
  /\ UNCHANGED <<started, news, server, follows, at, faults, lost>>

\* The connection goes into the game's map, if there is a game, as a spectator's.
AddConnection(s) ==
  /\ join[s].pc = "add"
  /\ join' = [join EXCEPT ![s].pc = "register"]
  /\ at' = [at EXCEPT ![s] = IF join[s].game = Unset THEN Gone ELSE join[s].game]
  /\ UNCHANGED <<started, news, server, follows, raced, slow, faults, lost>>

\* register_run_spectator.  raced remembers that the change to another game than the
\* one it read is being routed, or the one to the game after it was.
Taken(g) ==
  \/ server.pc # "rest" /\ server.game # g
  \/ server.pc = "rest" /\ g < started /\ \A i \in 1..Len(news) : news[i] # g + 1
Register(s) ==
  /\ join[s].pc = "register"
  /\ join' = [join EXCEPT ![s].pc = "watches"]
  /\ follows' = [follows EXCEPT ![s] = join[s].game]
  /\ raced' = IF Taken(join[s].game) THEN raced \union {s} ELSE raced
  /\ UNCHANGED <<started, news, server, at, slow, faults, lost>>

\* re_point_run_spectators: the entries that are not at the new game are listed.
Stale(s, g) == follows[s] \notin {g, Gone}
ReadEntries ==
  /\ server.pc = "rest" /\ news # <<>>
  /\ LET g == Head(news)
         list == {s \in Spectators : Stale(s, g)} IN
     server' = IF list = {} THEN Rest
               ELSE [pc |-> "move", game |-> g,
                     list |-> {[of |-> s, old |-> follows[s]] : s \in list}]
  /\ news' = Tail(news)
  /\ UNCHANGED <<started, join, follows, at, raced, slow, faults, lost>>

\* One of them after the other: moved from the map of the game its entry named, if it
\* is still there, or added to the new one when its entry named none.
MoveOne ==
  /\ server.pc = "move"
  /\ \E e \in server.list :
       /\ IF e.old = Unset \/ at[e.of] = e.old
            THEN at' = [at EXCEPT ![e.of] = server.game] /\ raced' = raced \ {e.of}
            ELSE UNCHANGED <<at, raced>>
       /\ server' = [server EXCEPT !.list = @ \ {e},
                                   !.pc = IF server.list = {e} THEN "write" ELSE "move"]
  /\ UNCHANGED <<started, news, join, follows, slow, faults, lost>>

\* Then every entry of the run is set to the new game, the ones listed and the ones
\* that came since; the snapshot goes to whoever is in the map of the game.
\* Mutant of Updated: the entries are left as they were.
UpdatedNot(f, g) == f
Updated(f, g) == [s \in Spectators |-> IF f[s] = Gone THEN Gone ELSE g]
WriteEntries ==
  /\ server.pc = "write"
  /\ follows' = Updated(follows, server.game)
  /\ server' = Rest
  /\ UNCHANGED <<started, news, join, at, raced, slow, faults, lost>>

\* The page closes or its network goes: the tasks of the socket take its entry out of
\* the run, then its connection out of the map of the game the entry named.
Leave(s) ==
  /\ join[s].pc = "watches" /\ Fault
  /\ join' = [join EXCEPT ![s] = [pc |-> "leaves", game |-> follows[s]]]
  /\ follows' = [follows EXCEPT ![s] = Gone]
  /\ UNCHANGED <<started, news, server, at, raced, slow, lost>>
RemoveConnection(s) ==
  /\ join[s].pc = "leaves"
  /\ join' = [join EXCEPT ![s] = [pc |-> "off", game |-> Unset]]
  /\ at' = IF at[s] = join[s].game THEN [at EXCEPT ![s] = Gone] ELSE at
  /\ UNCHANGED <<started, news, server, follows, raced, slow, faults, lost>>

\* The sweep: a ping touches the connection in the map of the game the entry names,
\* so that one in another map falls silent.  An event is routed long before the
\* 90 seconds of silence are over.
Sweep(s) ==
  /\ server.pc = "rest" /\ news = <<>> /\ at[s] # Gone /\ follows[s] # at[s]
  /\ join[s].pc \in {"watches", "off"}
  /\ at' = [at EXCEPT ![s] = Gone]
  /\ UNCHANGED <<started, news, server, join, follows, raced, slow, faults, lost>>

\* A public event finds the 256 places of its queue taken: force_disconnect takes the
\* connection out of the map of the game, and nothing else.  The entry of the run keeps
\* the queue open, so that the socket stays.
Overflow(s) ==
  /\ join[s].pc \in {"register", "watches"} /\ at[s] # Gone /\ Fault
  /\ at' = [at EXCEPT ![s] = Gone] /\ slow' = slow \union {s}
  /\ UNCHANGED <<started, news, server, join, follows, raced, lost>>

JoinStep(s) == Resolve(s) \/ AddConnection(s) \/ Register(s)
LeaveStep(s) == RemoveConnection(s) \/ Sweep(s)
Route == ReadEntries \/ MoveOne \/ WriteEntries
Next ==
  \/ StartGame \/ Route
  \/ \E s \in Spectators : JoinStep(s) \/ LeaveStep(s) \/ Leave(s) \/ Overflow(s)

\* The page reconnects, the server routes and sweeps; the games start as they will.
Fairness ==
  /\ WF_watchVars(Route)
  /\ \A s \in Spectators : WF_watchVars(JoinStep(s)) /\ WF_watchVars(LeaveStep(s))
Spec == Init /\ [][Next]_watchVars /\ Fairness
------------------------------------------------------------------------------
\* Properties.

Watches(s) == at[s] = IF started = Unset THEN Gone ELSE started

\* A spectator ends up at the game the run is at, through every change of game,
\* unless it registered while a change was made that has not taken it along since, its
\* queue was full once on this socket, or the event of the last game was lost.
FollowsRun ==
  \A s \in Spectators : <>[](Watches(s) \/ s \in raced \union slow \/ lost)

\* "Is re-pointed to each new game_id when the run advances" (run_spectators.rs): one
\* that registers meanwhile is not.
AlwaysFollows == \A s \in Spectators : <>[](Watches(s) \/ lost)
==============================================================================
