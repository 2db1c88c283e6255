-------------------------------- MODULE Caches --------------------------------
(***************************************************************************)
(* What pages are shown from Redis.  A profile, or a page of a list of games, *)
(* is kept when it was read from the database, for a while, and dropped by     *)
(* most of the requests that change it.  The leaderboard is never dropped: a   *)
(* task of the scheduler builds it anew every five minutes, one call to Redis  *)
(* after the other, with readers looking on.                                   *)
(***************************************************************************)
EXTENDS Integers, TLC, SequencesExt

CONSTANTS
  Viewers,      \* requests that show the profile or a list of games
  Users,        \* players of the leaderboard
  MaxChanges,   \* bound: changes of the profile, and of the scores
  MaxFaults     \* bound: calls to Redis that fail, refreshes that are cut

VARIABLES
  data,      \* page -> what the database has for it; a change gives it a new value
  due,       \* route -> how many requests have still to drop the entries along it
  entry,     \* dashboard:<page>:<user>: {[value, doubt]}, or {}
  viewer,    \* viewer -> its place in get_profile or list_games and what it read
  scores,    \* user -> wins in the database
  board,     \* the two sorted sets: user -> score, for the users in them
  names,     \* the users whose names are kept (user:uuid, user:pseudo)
  refresh,   \* refresh_leaderboard_inner: its place and the profiles it read
  changes, faults

profileVars == <<data, due, entry, viewer>>
boardVars == <<scores, board, names, refresh>>
cacheVars == <<profileVars, boardVars, changes, faults>>

Pages == {"profile", "games"}
\* What a request that changed something still has to drop, in its order.
Routes == {<<"profile", "games">>, <<"games">>, <<"profile">>}

Empty == [u \in {} |-> 0]
Rest == [pc |-> "rest", read |-> Empty, left |-> {}]
Idle == [pc |-> "idle", page |-> "profile", value |-> <<>>, doubt |-> FALSE]

Init ==
  /\ data = [k \in Pages |-> 0] /\ due = [r \in Routes |-> 0]
  /\ entry = [k \in Pages |-> {}]
  /\ viewer = [v \in Viewers |-> Idle]
  /\ scores = [u \in Users |-> 0]
  /\ board = [wins |-> Empty, streak |-> Empty]
  /\ names = {} /\ refresh = Rest /\ changes = 0 /\ faults = 0

Fault == faults < MaxFaults /\ faults' = faults + 1
Change == changes < MaxChanges /\ changes' = changes + 1
------------------------------------------------------------------------------
\* The profile and the lists of games.

Changed(pages) == data' = [k \in Pages |-> data[k] + (IF k \in pages THEN 1 ELSE 0)]

\* Whoever read the page before this may keep it: its doubt goes with it.
Doubtful(pages) ==
  viewer' = [v \in Viewers |->
    IF viewer[v].value # <<>> /\ viewer[v].page \in pages
    THEN [viewer[v] EXCEPT !.doubt = TRUE] ELSE viewer[v]]
Doubted(pages) ==
  [k \in Pages |-> IF k \in pages THEN {[e EXCEPT !.doubt = TRUE] : e \in entry[k]} ELSE entry[k]]

\* Mutant of Commit: the request forgets to drop the entries.
CommitForgets(route) == due' = due
Commit(route) == due' = [due EXCEPT ![route] = @ + 1]

\* The end of a game, a cancellation, a claim or an accepted invitation is committed,
\* and drops the entries next; a top-up does so for the profile.
Save ==
  /\ Change
  /\ \E route \in {<<"profile", "games">>, <<"profile">>} : Changed(ToSet(route)) /\ Commit(route)
  /\ UNCHANGED <<entry, viewer, boardVars, faults>>

\* An unfreezing, the end of a freeze, a cash-out and the refunds of a run change the
\* profile, a quick game the games too, and drop nothing.
SaveSilently ==
  /\ Change
  /\ \E pages \in {{"profile"}, Pages} :
       Changed(pages) /\ Doubtful(pages) /\ entry' = Doubted(pages)
  /\ UNCHANGED <<due, boardVars, faults>>

\* DEL of the profile, SCAN and DEL of the lists.
Deleted(k) == [entry EXCEPT ![k] = {}]

\* invalidate_dashboard_caches: one after the other; an error is logged and counted.
Drop ==
  /\ \E route \in Routes :
       /\ due[route] > 0
       /\ due' = [r \in Routes |-> due[r] + (IF r = Tail(route) THEN 1 ELSE IF r = route THEN -1 ELSE 0)]
       /\ Doubtful({Head(route)})
       /\ \/ entry' = Deleted(Head(route)) /\ UNCHANGED faults
          \/ Fault /\ entry' = Doubted({Head(route)})
  /\ UNCHANGED <<data, boardVars, changes>>

Goto(v, pc, k, value) ==
  viewer' = [viewer EXCEPT ![v] =
               [pc |-> pc, page |-> k, value |-> value, doubt |-> viewer[v].doubt]]

\* get_profile and list_games: what is kept is the answer; otherwise the database is
\* read,
Look(v) ==
  /\ viewer[v].pc = "idle"
  /\ \E k \in Pages : entry[k] = {} /\ Goto(v, "read", k, <<>>)
  /\ UNCHANGED <<data, due, entry, boardVars, changes, faults>>
ReadProfile(v) ==
  /\ viewer[v].pc = "read" /\ viewer[v].page = "profile"
  /\ Goto(v, "keep", "profile", <<data["profile"]>>)
  /\ UNCHANGED <<data, due, entry, boardVars, changes, faults>>
\* the number of games before the games,
Listed(v) == Append(viewer[v].value, data["games"])
ListGames(v) ==
  /\ viewer[v].pc = "read" /\ viewer[v].page = "games"
  /\ Goto(v, IF Len(Listed(v)) = 2 THEN "keep" ELSE "read", "games", Listed(v))
  /\ UNCHANGED <<data, due, entry, boardVars, changes, faults>>
\* and what was read is kept, unless Redis cannot be asked.
Keep(v) ==
  /\ viewer[v].pc = "keep"
  /\ viewer' = [viewer EXCEPT ![v] = Idle]
  /\ \/ /\ entry' = [entry EXCEPT ![viewer[v].page] =
                         {[value |-> ToSet(viewer[v].value), doubt |-> viewer[v].doubt]}]
        /\ UNCHANGED faults
     \/ Fault /\ UNCHANGED entry
  /\ UNCHANGED <<data, due, boardVars, changes>>

\* Five minutes, or thirty seconds for a list.
Expire ==
  /\ \E k \in Pages : entry[k] # {} /\ entry' = Deleted(k)
  /\ UNCHANGED <<data, due, viewer, boardVars, changes, faults>>
------------------------------------------------------------------------------
\* The leaderboard.

Win(u) ==
  /\ Change /\ scores' = [scores EXCEPT ![u] = @ + 1]
  /\ UNCHANGED <<profileVars, board, names, refresh, faults>>

\* list_all, then refresh_leaderboard: both sets are deleted, the refresh given up
\* when one cannot be,
ReadScores ==
  /\ refresh.pc = "rest"
  /\ refresh' = [pc |-> "wins", read |-> scores, left |-> Users]
  /\ UNCHANGED <<profileVars, scores, board, names, changes, faults>>
Clear(pc, key, next) ==
  /\ refresh.pc = pc
  /\ \/ /\ refresh' = [refresh EXCEPT !.pc = next]
        /\ board' = [board EXCEPT ![key] = Empty] /\ UNCHANGED faults
     \/ Fault /\ refresh' = [refresh EXCEPT !.pc = "names"] /\ UNCHANGED board
  /\ UNCHANGED <<profileVars, scores, names, changes>>
ClearBoard == Clear("wins", "wins", "streak") \/ Clear("streak", "streak", "add")
\* and the users added one by one, to one set and then to the other; a call that
\* fails is passed over.
AddOne ==
  /\ refresh.pc = "add"
  /\ \E u \in refresh.left :
       /\ refresh' = IF refresh.left = {u} THEN [refresh EXCEPT !.pc = "names", !.left = Users]
                     ELSE [refresh EXCEPT !.left = @ \ {u}]
       /\ \/ board' = [k \in DOMAIN board |-> u :> refresh.read[u] @@ board[k]]
             /\ UNCHANGED faults
          \/ \E k \in DOMAIN board :
               Fault /\ board' = [board EXCEPT ![k] = u :> refresh.read[u] @@ @]
  /\ UNCHANGED <<profileVars, scores, names, changes>>
\* Then their names are kept, for fifteen minutes each.
PutNames ==
  /\ refresh.pc = "names"
  /\ names' = Users /\ refresh' = Rest
  /\ UNCHANGED <<profileVars, scores, board, changes, faults>>
NamesExpire ==
  /\ Fault /\ \E u \in names : names' = names \ {u}
  /\ UNCHANGED <<profileVars, scores, board, refresh, changes>>

\* Sixty seconds are over, or the worker stops and starts again: the refresh is cut
\* where it is, and the next tick begins a new one.
Resumed == Rest
Cut ==
  /\ Fault /\ refresh.pc # "rest" /\ refresh' = Resumed
  /\ UNCHANGED <<profileVars, scores, board, names, changes>>

\* get_leaderboard asks for one set, for the other and for the names, at any moment.
Named == names = Users
Complete == Named /\ \A k \in DOMAIN board : board[k] = scores

View(v) == Look(v) \/ ReadProfile(v) \/ ListGames(v) \/ Keep(v)
ProfileNext == Save \/ SaveSilently \/ Drop \/ Expire \/ \E v \in Viewers : View(v)
Refresh == ReadScores \/ ClearBoard \/ AddOne \/ PutNames
BoardNext == Refresh \/ Cut \/ NamesExpire \/ \E u \in Users : Win(u)
Next == ProfileNext \/ BoardNext

\* The task ticks every five minutes.
Fairness == WF_cacheVars(Refresh)
Spec == Init /\ [][Next]_cacheVars /\ Fairness
------------------------------------------------------------------------------
\* Properties.

\* An entry differs from the database only until the request that changed it has
\* dropped it, or when it is doubtful: read before a drop and kept after it, kept
\* through a drop that failed, or passed over by a change that drops nothing.
StaleOnlyInRaces ==
  \A k \in Pages : \A e \in entry[k] :
    e.value = {data[k]} \/ e.doubt \/ \E route \in Routes : due[route] > 0 /\ k \in ToSet(route)

\* Whatever refreshes are cut and calls fail, the boards end up as the database has
\* them, between two refreshes.
BoardSettles == <>[](refresh.pc = "rest" => Complete)
==============================================================================
