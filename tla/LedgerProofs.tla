----------------------------- MODULE LedgerProofs -----------------------------
(***************************************************************************)
(* Theorems about Ledger for every number of games, orders and requests.    *)
(***************************************************************************)
EXTENDS Ledger, FiniteSetTheorems, TLAPS

USE CreditsAssumption, CutsAssumption, StakeAssumption, OrdersAssumption, AmountAssumption,
    GamesAssumption, RequestsAssumption
------------------------------------------------------------------------------
\* The invariant: one conjunct for each part of the ledger.

Profiles == [credit : Int, frozen : Freezes, locked : BOOLEAN]

Stages == {"absent", "none", "joining", "staked", "settling", "over", "cancelling",
           "cancelled"}
GamesInv == game \in [Games -> [st : Stages, seen : Profiles, delta : Deltas]]

\* A top-up that is about to be finalized has been captured; its row and its credit
\* come together.
TopUpsSound ==
  \A o \in TopUps :
    /\ order[o].rows <= 1 /\ order[o].credited = order[o].rows
    /\ order[o].rows = 1 => order[o].paypal = "captured"
    /\ \A w \in Ways : way[o][w] = "finalize" => order[o].paypal = "captured"

OrderRows ==
  [paypal : {"absent", "none", "open", "approved", "captured"},
   mapped : BOOLEAN, mark : {"none", "processing", "completed"},
   rows : 0..MaxRows, credited : 0..MaxRows]
Places == {"idle", "capture", "finalize", "mark"}
OrdersInv ==
  /\ order \in [AllOrders -> OrderRows] /\ way \in [AllOrders -> [Ways -> Places]]
  /\ TopUpsSound

\* While no decisions have crossed, the request is open to whoever is at work on it,
\* who pays has read it as approved, and its credits have left it at most one way.
Way(r, ds) ==
  /\ ds # {} => r.status \in {"requested", "approved"}
  /\ "pay" \in ds => r.status = "approved"
  /\ r.refunds > 0 => r.refunds = 1 /\ r.status = "rejected" /\ r.batches = {}
  /\ r.batches # {} => r.status \in {"approved", "paid"}

\* Who is about to mark a request paid has had it paid.
RowSound(r, ds) ==
  /\ r.status = "paid" \/ "confirm" \in ds \/ "paid" \in ds => r.batches # {}
  /\ r.status = "rejected" => r.refunds > 0
  /\ r.crossed \/ Way(r, ds)
RowsSound == \A c \in Requests : RowSound(request[c], deciding[c])

Cashouts ==
  [status : {"absent", "none", "asked", "requested", "approved", "rejected", "paid"},
   old : BOOLEAN, refunds : Nat, batches : {{}, {0}}, crossed : BOOLEAN]
RequestsInv ==
  /\ request \in [Requests -> Cashouts]
  /\ deciding \in [Requests -> SUBSET Decisions]
  /\ RowsSound

Inv == ProfileTypeOK /\ GamesInv /\ OrdersInv /\ RequestsInv
------------------------------------------------------------------------------
\* Each part keeps its own invariant and the type of the profile.

LEMMA InitInv == Init => Inv
<1> SUFFICES ASSUME Init PROVE Inv
  OBVIOUS
<1>1. PICK busy \in Loads : GamesInit(busy) /\ OrdersInit(busy) /\ RequestsInit(busy)
  BY DEF Init
<1>2. ProfileTypeOK
  <2>1. PICK c \in StartCredits :
          profile = [credit |-> c, frozen |-> "no", locked |-> FALSE]
    BY DEF Init, AccountInit
  <2>2. profile \in Profiles
    BY <2>1 DEF Profiles, Freezes
  <2>3. granted \in Int /\ scan \in {"rest", "listed"} /\ cuts \in 0..MaxCuts
    BY DEF Init, AccountInit
  <2>4. overwritten \in BOOLEAN
    BY DEF Init, AccountInit
  <2>5. QED
    BY <2>2, <2>3, <2>4, Zenon DEF ProfileTypeOK, Profiles
<1>3. GamesInv
  <2>1. Unread \in Profiles /\ 0 \in Deltas
    BY DEF Unread, Profiles, Freezes, Deltas
  <2>2. QED
    BY <1>1, <2>1 DEF GamesInit, GamesInv, Stages
<1>4. OrdersInv
  <2>1. \A o \in AllOrders : \E p \in {"none", "absent"} :
          order[o] = [paypal |-> p, mapped |-> FALSE, mark |-> "none", rows |-> 0,
                      credited |-> 0]
    BY <1>1 DEF OrdersInit, NoOrder
  <2>2. \A o \in AllOrders : order[o] \in OrderRows
    <3>1. 0 \in 0..MaxRows
      OBVIOUS
    <3>2. ASSUME NEW p \in {"none", "absent"}
          PROVE  [paypal |-> p, mapped |-> FALSE, mark |-> "none", rows |-> 0, credited |-> 0]
                   \in OrderRows
      BY <3>1 DEF OrderRows
    <3>3. QED
      BY <2>1, <3>2, Zenon
  <2>3. order \in [AllOrders -> OrderRows]
    <3>1. order = [o \in AllOrders |-> order[o]]
      BY <1>1 DEF OrdersInit
    <3>2. QED
      BY <2>2, <3>1, Zenon
  <2>6. way \in [AllOrders -> [Ways -> Places]]
    BY <1>1 DEF OrdersInit, Places
  <2>4. TopUpsSound
    <3>1. ASSUME NEW o \in TopUps
          PROVE  /\ order[o].rows = 0 /\ order[o].credited = 0
                 /\ \A w \in Ways : way[o][w] = "idle"
      <4>1. o \in AllOrders
        BY DEF AllOrders
      <4>2. PICK p \in {"none", "absent"} :
              order[o] = [paypal |-> p, mapped |-> FALSE, mark |-> "none", rows |-> 0,
                          credited |-> 0]
        BY <2>1, <4>1
      <4>3. \A w \in Ways : way[o][w] = "idle"
        BY <1>1, <4>1 DEF OrdersInit
      <4>4. QED
        BY <4>2, <4>3
    <3>2. QED
      BY <3>1 DEF TopUpsSound
  <2>5. QED
    BY <2>3, <2>4, <2>6 DEF OrdersInv
<1>5. RequestsInv
  <2>1. RowsSound
    <3>1. \A c \in Requests : /\ request[c].batches = {} /\ request[c].refunds = 0
                             /\ request[c].status \in {"none", "absent"}
      BY <1>1 DEF RequestsInit
    <3>2. \A c \in Requests : deciding[c] = {}
      BY <1>1 DEF RequestsInit
    <3>3. QED
      BY <3>1, <3>2 DEF RowsSound, RowSound, Way
  <2>2. deciding \in [Requests -> SUBSET Decisions]
    BY <1>1 DEF RequestsInit
  <2>3. request \in [Requests -> Cashouts]
    BY <1>1 DEF RequestsInit, Cashouts
  <2>4. QED
    BY <2>1, <2>2, <2>3 DEF RequestsInv
<1>6. QED
  BY <1>2, <1>3, <1>4, <1>5 DEF Inv

\* A step that leaves the account, or some of it, alone.
LEMMA ProfileUnchanged ==
  ASSUME ProfileTypeOK, UNCHANGED <<account, scan, cuts>>
  PROVE  ProfileTypeOK'
BY DEF ProfileTypeOK, account

LEMMA AccountUnchanged ==
  ASSUME ProfileTypeOK, UNCHANGED <<account, scan>>, CutShort \/ UNCHANGED cuts
  PROVE  ProfileTypeOK'
<1>1. cuts' \in 0..MaxCuts
  BY DEF ProfileTypeOK, CutShort
<1>2. QED
  BY <1>1, Zenon DEF ProfileTypeOK, account

LEMMA ProfileWritten ==
  ASSUME ProfileTypeOK, UNCHANGED cuts, profile' \in Profiles, granted' \in Int,
         overwritten' \in BOOLEAN, scan' \in {"rest", "listed"}
  PROVE  ProfileTypeOK'
BY Zenon DEF ProfileTypeOK, Profiles

LEMMA ProfileParts ==
  ASSUME ProfileTypeOK
  PROVE  /\ profile \in Profiles /\ granted \in Int /\ overwritten \in BOOLEAN
         /\ scan \in {"rest", "listed"}
BY Zenon DEF ProfileTypeOK, Profiles

\* The scan for ended freezes.
LEMMA TaskKeepsProfile ==
  ASSUME ProfileTypeOK, TaskStep
  PROVE  ProfileTypeOK'
<1>1. CASE Lapse
  <2>1. profile' \in Profiles
    BY <1>1, ProfileParts DEF Lapse, Profiles, Freezes
  <2>2. QED
    BY <1>1, <2>1, ProfileParts, ProfileWritten, Zenon DEF Lapse
<1>2. CASE ListExpired
  BY <1>2, ProfileParts, ProfileWritten, Zenon DEF ListExpired, account
<1>3. CASE EndFreeze
  <2>1. profile' = [profile EXCEPT !.credit = FreeCredit, !.frozen = "no"]
    BY <1>3 DEF EndFreeze
  <2>2. granted' = granted + FreeCredit - profile.credit
    BY <1>3 DEF EndFreeze
  <2>3. profile \in Profiles /\ granted \in Int
    BY ProfileParts
  <2>6. profile' = [credit |-> FreeCredit, frozen |-> "no", locked |-> profile.locked]
    BY <2>1, <2>3 DEF Profiles
  <2>7. profile' \in Profiles
    BY <2>6, <2>3 DEF Profiles, Freezes
  <2>8. granted' \in Int
    BY <2>2, <2>3 DEF Profiles
  <2>4. overwritten' \in BOOLEAN
    BY <1>3, Zenon DEF EndFreeze
  <2>5. QED
    BY <1>3, <2>4, <2>7, <2>8, ProfileWritten, Zenon DEF EndFreeze
<1>4. CASE ScanCut
  <2>1. cuts' \in 0..MaxCuts
    BY <1>4 DEF ProfileTypeOK, CutShort, ScanCut
  <2>2. QED
    BY <1>4, <2>1, Zenon DEF ScanCut, ProfileTypeOK, account
<1>5. QED
  BY <1>1, <1>2, <1>3, <1>4 DEF TaskStep, ScanStep

\* The games.
LEMMA MoveKeepsGames ==
  ASSUME GamesInv, NEW g \in Games, NEW st \in Stages, Move(g, st)
  PROVE  GamesInv'
<1>1. Unread \in Profiles
  BY DEF Unread, Profiles, Freezes
<1>2. QED
  BY <1>1 DEF GamesInv, Move

LEMMA ReadsKeepsGames ==
  ASSUME ProfileTypeOK, GamesInv, NEW g \in Games, NEW st \in Stages, Reads(g, st)
  PROVE  GamesInv'
<1>1. profile \in Profiles
  BY ProfileParts
<1>2. QED
  BY <1>1 DEF GamesInv, Reads

LEMMA GamesKeep ==
  ASSUME ProfileTypeOK, GamesInv, NEW g \in Games, GameStep(g)
  PROVE  ProfileTypeOK' /\ GamesInv'
<1>s. game[g].seen \in Profiles /\ game[g].delta \in Deltas
  BY DEF GamesInv
<1>1. CASE JoinRead(g)
  BY <1>1, ReadsKeepsGames, ProfileUnchanged DEF JoinRead, Stages
<1>2. CASE JoinRefused(g)
  BY <1>2, MoveKeepsGames, ProfileUnchanged DEF JoinRefused, Stages
<1>3. CASE JoinWrite(g)
  <2> DEFINE new == Joined(game[g].seen)
  <2>1. new.credit \in Int /\ new.frozen \in Freezes /\ game[g].seen.credit \in Int
    BY <1>s DEF Joined, Freezes, Profiles
  <2>2. profile' = [profile EXCEPT !.credit = new.credit, !.frozen = new.frozen]
    BY <1>3 DEF JoinWrite
  <2>3. granted' = granted + new.credit + Stake - game[g].seen.credit
    BY <1>3 DEF JoinWrite
  <2>4. overwritten' \in BOOLEAN
    BY <1>3, Zenon DEF JoinWrite
  <2> HIDE DEF new
  <2>p. profile \in Profiles /\ granted \in Int
    BY ProfileParts
  <2>q. profile' = [credit |-> new.credit, frozen |-> new.frozen, locked |-> profile.locked]
    BY <2>2, <2>p DEF Profiles
  <2>r. profile' \in Profiles
    BY <2>1, <2>p, <2>q DEF Profiles
  <2>5. profile' \in Profiles /\ granted' \in Int
    BY <2>1, <2>3, <2>p, <2>r
  <2>6. ProfileTypeOK'
    BY <1>3, <2>4, <2>5, ProfileParts, ProfileWritten, Zenon DEF JoinWrite
  <2>7. GamesInv'
    BY <1>3, MoveKeepsGames DEF JoinWrite, Stages
  <2>8. QED
    BY <2>6, <2>7
<1>4. CASE SettleRead(g)
  <2>1. profile \in Profiles
    BY ProfileParts
  <2>2. GamesInv'
    BY <1>4, <2>1 DEF SettleRead, GamesInv, Stages
  <2>3. QED
    BY <1>4, <2>2, ProfileUnchanged DEF SettleRead
<1>5. CASE SettleWrite(g)
  <2>1. game[g].delta \in Int
    BY <1>s DEF Deltas
  <2>p. profile \in Profiles
    BY ProfileParts
  <2>q. PICK f \in Freezes :
          profile' = [profile EXCEPT !.credit = @ + game[g].delta, !.frozen = f]
    BY <1>5 DEF SettleWrite, Settled, Freezes
  <2>r. profile' = [credit |-> profile.credit + game[g].delta, frozen |-> f,
                    locked |-> profile.locked]
    BY <2>p, <2>q DEF Profiles
  <2>2. profile' \in Profiles
    BY <2>1, <2>p, <2>r DEF Profiles
  <2>3. ProfileTypeOK'
    BY <1>5, <2>2, ProfileParts, ProfileWritten, Zenon DEF SettleWrite
  <2>4. GamesInv'
    BY <1>5, MoveKeepsGames DEF SettleWrite, Stages
  <2>5. QED
    BY <2>3, <2>4
<1>6. CASE CancelRead(g)
  BY <1>6, ReadsKeepsGames, ProfileUnchanged DEF CancelRead, Stages
<1>7. CASE CancelWrite(g)
  <2>1. profile' = [profile EXCEPT !.credit = game[g].seen.credit + Stake]
    BY <1>7 DEF CancelWrite
  <2>2. profile' \in Profiles
    BY <2>1, <1>s, ProfileParts DEF Profiles
  <2>3. overwritten' \in BOOLEAN
    BY <1>7, Zenon DEF CancelWrite
  <2>4. ProfileTypeOK'
    BY <1>7, <2>2, <2>3, ProfileParts, ProfileWritten, Zenon DEF CancelWrite
  <2>5. GamesInv'
    BY <1>7, MoveKeepsGames DEF CancelWrite, Stages
  <2>6. QED
    BY <2>4, <2>5
<1>8. QED
  BY <1>1, <1>2, <1>3, <1>4, <1>5, <1>6, <1>7 DEF GameStep

\* The orders.
LEMMA RowChanged ==
  ASSUME order \in [AllOrders -> OrderRows], NEW o \in AllOrders, NEW x \in OrderRows,
         order' = [order EXCEPT ![o] = x]
  PROVE  order' \in [AllOrders -> OrderRows]
OBVIOUS

LEMMA OrdersKeep ==
  ASSUME ProfileTypeOK, OrdersInv, NEW o \in AllOrders, OrderStep(o)
  PROVE  ProfileTypeOK' /\ OrdersInv'
<1>o. order \in [AllOrders -> OrderRows] /\ way \in [AllOrders -> [Ways -> Places]] /\ TopUpsSound
  BY DEF OrdersInv
<1>a. o \in AllOrders /\ TopUps \subseteq AllOrders
  BY DEF AllOrders
<1>1. CASE CreateTopUpOrder(o) \/ CreateUnfreezeOrder(o)
  <2>1. Opens(o)
    BY <1>1 DEF CreateTopUpOrder, CreateUnfreezeOrder
  <2>2. PICK mapped \in BOOLEAN :
          order' = [order EXCEPT ![o].paypal = "open", ![o].mapped = mapped]
    BY <2>1 DEF Opens
  <2>3. order[o].paypal = "none" /\ way' = way
    BY <2>1 DEF Opens
  <2>4. order' \in [AllOrders -> OrderRows]
    <3>1. [order[o] EXCEPT !.paypal = "open", !.mapped = mapped] \in OrderRows
      BY <1>o, <1>a DEF OrderRows
    <3>2. QED
      BY <1>o, <1>a, <2>2, <3>1, RowChanged
  <2>5. TopUpsSound'
    BY <1>o, <1>a, <2>2, <2>3 DEF TopUpsSound, OrderRows
  <2>6. ProfileTypeOK'
    BY <2>1, ProfileUnchanged DEF Opens
  <2>7. QED
    BY <1>o, <2>3, <2>4, <2>5, <2>6 DEF OrdersInv
<1>2. CASE Approve(o)
  <2>1. order' \in [AllOrders -> OrderRows]
    <3>1. order' = [order EXCEPT ![o].paypal = "approved"]
      BY <1>2 DEF Approve
    <3>2. [order[o] EXCEPT !.paypal = "approved"] \in OrderRows
      BY <1>o, <1>a DEF OrderRows
    <3>3. QED
      BY <1>o, <1>a, <3>1, <3>2, RowChanged
  <2>2. TopUpsSound'
    BY <1>o, <1>a, <1>2 DEF Approve, TopUpsSound, OrderRows
  <2>3. QED
    BY <1>o, <1>2, <2>1, <2>2, ProfileUnchanged DEF Approve, OrdersInv
<1>3. CASE Forget(o)
  <2>1. order' \in [AllOrders -> OrderRows]
    <3>1. order' = [order EXCEPT ![o].mapped = FALSE, ![o].mark = "none"]
      BY <1>3 DEF Forget
    <3>2. [order[o] EXCEPT !.mapped = FALSE, !.mark = "none"] \in OrderRows
      BY <1>o, <1>a DEF OrderRows
    <3>3. QED
      BY <1>o, <1>a, <3>1, <3>2, RowChanged
  <2>2. TopUpsSound'
    BY <1>o, <1>a, <1>3 DEF Forget, TopUpsSound, OrderRows
  <2>3. QED
    BY <1>o, <1>3, <2>1, <2>2, ProfileUnchanged DEF Forget, OrdersInv
<1>4. ASSUME NEW w \in Ways, Handles(o, w) \/ CaptureFails(o, w) \/ RequestCut(o, w)
      PROVE  ProfileTypeOK' /\ OrdersInv'
  <2>1. CASE TopUpBegin(o) \/ TopUpReturn(o)
    <3>1. PICK v \in Ways : Unrecorded(o, v)
      BY <2>1 DEF TopUpBegin, TopUpReturn, Ways
    <3>2. OrdersInv'
      BY <1>o, <1>a, <3>1 DEF Unrecorded, Goes, OrdersInv, TopUpsSound, Places
    <3>3. QED
      BY <3>1, <3>2, ProfileUnchanged DEF Unrecorded
  <2>2. CASE UnfreezeBegin(o)
    <3>1. PICK pc \in {"finalize", "capture"} : Goes(o, "client", pc)
      BY <2>2 DEF UnfreezeBegin
    <3>2. o \notin TopUps /\ order' = order
      BY <2>2 DEF UnfreezeBegin
    <3>3. way' \in [AllOrders -> [Ways -> Places]]
      BY <1>o, <3>1 DEF Goes, Places
    <3>4. TopUpsSound'
      BY <1>o, <1>a, <3>1, <3>2 DEF Goes, TopUpsSound
    <3>5. QED
      BY <1>o, <2>2, <3>2, <3>3, <3>4, ProfileUnchanged DEF UnfreezeBegin, OrdersInv
  <2>3. CASE UnfreezeReturn(o)
    <3>1. o \notin TopUps /\ order' = [order EXCEPT ![o].mark = "processing"]
      BY <2>3 DEF UnfreezeReturn
    <3>2. way' = [way EXCEPT ![o]["page"] = "capture"]
      BY <2>3 DEF UnfreezeReturn, Goes
    <3>3. order' \in [AllOrders -> OrderRows]
      <4>1. [order[o] EXCEPT !.mark = "processing"] \in OrderRows
        BY <1>o, <1>a DEF OrderRows
      <4>2. QED
        BY <1>o, <1>a, <3>1, <4>1, RowChanged
    <3>w. way' \in [AllOrders -> [Ways -> Places]]
      BY <1>o, <3>2 DEF Places
    <3>4. TopUpsSound'
      BY <1>o, <1>a, <3>1, <3>2 DEF TopUpsSound
    <3>5. QED
      BY <2>3, <3>3, <3>w, <3>4, ProfileUnchanged DEF UnfreezeReturn, OrdersInv
  <2>4. CASE Capture(o, w)
    <3>1. PICK m \in {"none", "processing", "completed"} :
            order' = [order EXCEPT ![o].paypal = "captured", ![o].mark = m]
      <4>1. order[o].mark \in {"none", "processing", "completed"}
        BY <1>o DEF OrderRows
      <4>2. QED
        BY <2>4, <4>1 DEF Capture
    <3>2. way' = [way EXCEPT ![o][w] = "finalize"]
      BY <2>4 DEF Capture, Goes
    <3>3. order' \in [AllOrders -> OrderRows]
      <4>1. [order[o] EXCEPT !.paypal = "captured", !.mark = m] \in OrderRows
        BY <1>o, <1>a DEF OrderRows
      <4>2. QED
        BY <1>o, <1>a, <3>1, <4>1, RowChanged
    <3>w. way' \in [AllOrders -> [Ways -> Places]]
      BY <1>o, <3>2 DEF Places
    <3>4. TopUpsSound'
      BY <1>o, <1>a, <3>1, <3>2 DEF TopUpsSound, OrderRows
    <3>5. QED
      BY <2>4, <3>3, <3>w, <3>4, ProfileUnchanged DEF Capture, OrdersInv
  <2>5. CASE CaptureFails(o, w)
    <3>1. PICK p \in {"absent", "none", "open", "approved", "captured"},
               m \in {"none", "processing", "completed"} :
            /\ order' = [order EXCEPT ![o].paypal = p, ![o].mark = m]
            /\ order[o].paypal = "captured" => p = "captured"
      <4>1. order[o].mark \in {"none", "processing", "completed"}
        BY <1>o DEF OrderRows
      <4>2. order[o].paypal \in {"absent", "none", "open", "approved", "captured"}
        BY <1>o DEF OrderRows
      <4>3. QED
        BY <2>5, <4>1, <4>2 DEF CaptureFails
    <3>2. way' = [way EXCEPT ![o][w] = "idle"]
      BY <2>5 DEF CaptureFails, Goes
    <3>3. order' \in [AllOrders -> OrderRows] /\ way' \in [AllOrders -> [Ways -> Places]]
      <4>1. order[o] \in OrderRows
        BY <1>o
      <4>2. [[order[o] EXCEPT !.paypal = p] EXCEPT !.mark = m] \in OrderRows
        BY <4>1 DEF OrderRows
      <4>3. order' = [order EXCEPT ![o] = [[order[o] EXCEPT !.paypal = p] EXCEPT !.mark = m]]
        BY <1>o, <3>1
      <4>4. order' \in [AllOrders -> OrderRows]
        BY <1>o, <4>2, <4>3
      <4>5. QED
        BY <1>o, <3>2, <4>4 DEF Places
    <3>4. TopUpsSound'
      BY <1>o, <1>a, <3>1, <3>2 DEF TopUpsSound, OrderRows
    <3>5. CutShort \/ UNCHANGED cuts
      BY <2>5 DEF CaptureFails
    <3>6. QED
      BY <2>5, <3>3, <3>4, <3>5, AccountUnchanged DEF CaptureFails, OrdersInv, account
  <2>6. CASE FinalizeTopUp(o, w)
    <3>1. o \in TopUps /\ way[o][w] = "finalize"
      BY <2>6 DEF FinalizeTopUp
    <3>2. order[o].paypal = "captured" /\ order[o].credited = order[o].rows
      BY <1>o, <3>1 DEF TopUpsSound
    <3>3. way' = [way EXCEPT ![o][w] = "idle"]
      BY <2>6 DEF FinalizeTopUp, Goes
    <3>4. CASE Absent(o)
      <4>1. order' = [order EXCEPT ![o].rows = order[o].rows + 1, ![o].credited = order[o].credited + 1]
        BY <2>6, <3>4 DEF FinalizeTopUp
      <4>2. order[o].rows = 0 /\ order[o].credited = 0
        BY <3>2, <3>4 DEF Absent
      <4>3. order' \in [AllOrders -> OrderRows]
        BY <1>o, <4>1, <4>2 DEF OrderRows
      <4>4. TopUpsSound'
        BY <1>o, <1>a, <3>2, <3>3, <4>1, <4>2 DEF TopUpsSound, OrderRows
      <4>5. way' \in [AllOrders -> [Ways -> Places]]
        BY <1>o, <3>3 DEF Places
      <4>6. profile \in Profiles
        BY ProfileParts
      <4>7. profile' = [profile EXCEPT !.credit = profile.credit + TopUpCredit]
        BY <2>6, <3>4 DEF FinalizeTopUp, AddCredit
      <4>8. profile' \in Profiles
        <5>1. profile' = [credit |-> profile.credit + TopUpCredit, frozen |-> profile.frozen,
                          locked |-> profile.locked]
          BY <4>6, <4>7 DEF Profiles
        <5>2. QED
          BY <4>6, <5>1 DEF Profiles
      <4>9. ProfileTypeOK'
        BY <2>6, <4>8, ProfileParts, ProfileWritten, Zenon DEF FinalizeTopUp
      <4>10. QED
        BY <4>3, <4>4, <4>5, <4>9 DEF OrdersInv
    <3>5. CASE ~Absent(o)
      <4>1. order' = order /\ UNCHANGED <<account, scan, cuts>>
        BY <2>6, <3>5 DEF FinalizeTopUp, account
      <4>2. OrdersInv'
        BY <1>o, <1>a, <3>3, <4>1 DEF OrdersInv, TopUpsSound, Places
      <4>3. QED
        BY <4>1, <4>2, ProfileUnchanged
    <3>6. QED
      BY <3>4, <3>5
  <2>7. CASE FinalizeUnfreeze(o, w)
    <3>1. o \notin TopUps /\ order[o].rows < MaxRows
      BY <2>7 DEF FinalizeUnfreeze
    <3>2. order' = [order EXCEPT ![o].rows = order[o].rows + 1]
      BY <2>7 DEF FinalizeUnfreeze
    <3>3. way' = [way EXCEPT ![o][w] = "mark"]
      BY <2>7 DEF FinalizeUnfreeze, Goes
    <3>4. order' \in [AllOrders -> OrderRows] /\ way' \in [AllOrders -> [Ways -> Places]]
      BY <1>o, <3>1, <3>2, <3>3 DEF OrderRows, Places
    <3>5. TopUpsSound'
      BY <1>o, <1>a, <3>1, <3>2, <3>3 DEF TopUpsSound
    <3>6. profile \in Profiles /\ granted \in Int
      BY ProfileParts
    <3>7. /\ profile' = [profile EXCEPT !.credit = PaidCredit, !.frozen = "no"]
          /\ granted' = granted + PaidCredit - profile.credit
      BY <2>7 DEF FinalizeUnfreeze
    <3>8. profile' = [credit |-> PaidCredit, frozen |-> "no", locked |-> profile.locked]
      BY <3>6, <3>7 DEF Profiles
    <3>9. profile' \in Profiles
      BY <3>6, <3>8 DEF Profiles, Freezes
    <3>10. granted' \in Int
      BY <3>6, <3>7 DEF Profiles
    <3>11. ProfileTypeOK'
      BY <2>7, <3>9, <3>10, ProfileParts, ProfileWritten, Zenon DEF FinalizeUnfreeze
    <3>12. QED
      BY <3>4, <3>5, <3>11 DEF OrdersInv
  <2>8. CASE MarkCompleted(o, w)
    <3>1. order' = [order EXCEPT ![o].mark = "completed"] /\ way' = [way EXCEPT ![o][w] = "idle"]
      BY <2>8 DEF MarkCompleted, Goes
    <3>2. order' \in [AllOrders -> OrderRows] /\ way' \in [AllOrders -> [Ways -> Places]]
      BY <1>o, <3>1 DEF OrderRows, Places
    <3>3. TopUpsSound'
      BY <1>o, <1>a, <3>1 DEF TopUpsSound, OrderRows
    <3>4. QED
      BY <2>8, <3>2, <3>3, ProfileUnchanged DEF MarkCompleted, OrdersInv
  <2>9. CASE RequestCut(o, w)
    <3>1. way' = [way EXCEPT ![o][w] = "idle"] /\ order' = order
      BY <2>9 DEF RequestCut, Goes
    <3>2. OrdersInv'
      BY <1>o, <1>a, <3>1 DEF OrdersInv, TopUpsSound, Places
    <3>3. QED
      BY <2>9, <3>2, AccountUnchanged DEF RequestCut
  <2>10. QED
    BY <1>4, <2>1, <2>2, <2>3, <2>4, <2>5, <2>6, <2>7, <2>8, <2>9 DEF Handles
<1>5. QED
  BY <1>1, <1>2, <1>3, <1>4 DEF OrderStep

\* The cash-outs.  A step of one request leaves the others alone.
LEMMA OtherRequests ==
  ASSUME RequestsInv, NEW c \in Requests, NEW r \in Cashouts, NEW ds \in SUBSET Decisions,
         request' = [request EXCEPT ![c] = r], deciding' = [deciding EXCEPT ![c] = ds],
         RowSound(r, ds)
  PROVE  RequestsInv'
<1>1. request' \in [Requests -> Cashouts] /\ deciding' \in [Requests -> SUBSET Decisions]
  BY DEF RequestsInv
<1>2. /\ request'[c] = r /\ deciding'[c] = ds
      /\ \A e \in Requests \ {c} : request'[e] = request[e] /\ deciding'[e] = deciding[e]
  BY DEF RequestsInv
<1>3. \A e \in Requests : RowSound(request'[e], deciding'[e])
  BY <1>2, Zenon DEF RequestsInv, RowsSound
<1>4. QED
  BY <1>1, <1>3 DEF RequestsInv, RowsSound

\* A request as it is written field by field.
LEMMA RequestRow ==
  ASSUME RequestsInv, NEW c \in Requests
  PROVE  /\ request[c] \in Cashouts /\ deciding[c] \in SUBSET Decisions
         /\ request = [request EXCEPT ![c] = request[c]]
         /\ deciding = [deciding EXCEPT ![c] = deciding[c]]
         /\ RowSound(request[c], deciding[c])
BY DEF RequestsInv, RowsSound

LEMMA RequestsKeep ==
  ASSUME ProfileTypeOK, RequestsInv, NEW c \in Requests, RequestStep(c)
  PROVE  ProfileTypeOK' /\ RequestsInv'
<1> DEFINE r == request[c]
           ds == deciding[c]
<1>r. /\ r \in Cashouts /\ ds \in SUBSET Decisions
      /\ request = [request EXCEPT ![c] = r] /\ deciding = [deciding EXCEPT ![c] = ds]
      /\ RowSound(r, ds)
  BY RequestRow
<1>f. request \in [Requests -> Cashouts] /\ deciding \in [Requests -> SUBSET Decisions]
  BY DEF RequestsInv
<1>1. CASE AskCashout(c)
  <2> DEFINE q == [r EXCEPT !.status = "asked"]
  <2>1. request' = [request EXCEPT ![c] = q] /\ deciding' = [deciding EXCEPT ![c] = ds]
    BY <1>1, <1>r, <1>f DEF AskCashout, Becomes
  <2>2. q \in Cashouts /\ RowSound(q, ds)
    BY <1>1, <1>r DEF AskCashout, Cashouts, RowSound, Way
  <2>3. RequestsInv'
    BY <1>r, <2>1, <2>2, OtherRequests
  <2>4. QED
    BY <1>1, <2>3, ProfileUnchanged DEF AskCashout
<1>2. CASE MakeRequest(c)
  <2>1. PICK st \in {"requested", "none"} : Becomes(c, st)
    BY <1>2 DEF MakeRequest
  <2> DEFINE q == [r EXCEPT !.status = st]
  <2>2. RequestsInv'
    <3>1. request' = [request EXCEPT ![c] = q] /\ deciding' = [deciding EXCEPT ![c] = ds]
      BY <1>2, <1>r, <1>f, <2>1 DEF MakeRequest, Becomes
    <3>2. q \in Cashouts /\ RowSound(q, ds)
      BY <1>2, <1>r DEF Cashouts, MakeRequest, RowSound, Way
    <3>3. QED
      BY <1>r, <3>1, <3>2, OtherRequests
  <2>3. profile \in Profiles
    BY ProfileParts
  <2>4. profile' \in Profiles
    <3>1. CASE profile.credit >= Amount
      <4>1. profile' = [profile EXCEPT !.credit = profile.credit - Amount, !.locked = TRUE]
        BY <1>2, <3>1 DEF MakeRequest
      <4>2. profile' = [credit |-> profile.credit - Amount, frozen |-> profile.frozen,
                        locked |-> TRUE]
        BY <2>3, <4>1 DEF Profiles
      <4>3. QED
        BY <2>3, <4>2 DEF Profiles
    <3>2. CASE ~(profile.credit >= Amount)
      BY <1>2, <2>3, <3>2 DEF MakeRequest
    <3>3. QED
      BY <3>1, <3>2
  <2>5. ProfileTypeOK'
    BY <1>2, <2>4, ProfileParts, ProfileWritten, Zenon DEF MakeRequest
  <2>6. QED
    BY <2>2, <2>5
<1>3. CASE GrowOld(c)
  <2> DEFINE q == [r EXCEPT !.old = TRUE]
  <2>1. request' = [request EXCEPT ![c] = q] /\ deciding' = [deciding EXCEPT ![c] = ds]
    BY <1>3, <1>r, <1>f DEF GrowOld
  <2>2. q \in Cashouts /\ RowSound(q, ds)
    BY <1>r DEF Cashouts, RowSound, Way
  <2>3. RequestsInv'
    BY <1>r, <2>1, <2>2, OtherRequests
  <2>4. QED
    BY <1>3, <2>3, ProfileUnchanged DEF GrowOld
<1>4. ASSUME NEW d \in Decisions, Consider(c, d)
      PROVE  ProfileTypeOK' /\ RequestsInv'
  <2>1. /\ d \notin {"confirm", "paid"} /\ r.status \in {"requested", "approved"}
        /\ d = "pay" => r.status = "approved"
    BY <1>4 DEF Consider, Allows, Decisions
  <2>2. /\ request' = [request EXCEPT ![c] = r]
        /\ deciding' = [deciding EXCEPT ![c] = ds \union {d}]
    BY <1>4, <1>r DEF Consider
  <2>3. RowSound(r, ds \union {d})
    <3> HIDE DEF r, ds
    <3>1. r.crossed \/ Way(r, ds \union {d})
      BY <1>r, <2>1 DEF RowSound, Way
    <3>2. QED
      BY <1>r, <2>1, <3>1 DEF RowSound
  <2>4. RequestsInv'
    <3>1. ds \union {d} \in SUBSET Decisions
      BY <1>r
    <3> HIDE DEF r, ds
    <3>2. QED
      BY <1>r, <2>2, <2>3, <3>1, OtherRequests
  <2>5. QED
    BY <1>4, <2>4, ProfileUnchanged DEF Consider
<1>5. CASE ApproveRequest(c)
  <2>1. RequestsInv'
    <3> DEFINE q == [r EXCEPT !.status = Final(c, "approved")]
    <3>1. /\ request' = [request EXCEPT ![c] = q]
          /\ deciding' = [deciding EXCEPT ![c] = ds \ {"approve"}]
      BY <1>5, <1>f DEF ApproveRequest, Becomes, Decided
    <3>2. /\ q \in Cashouts /\ q.status = Final(c, "approved") /\ q.crossed = r.crossed
          /\ q.refunds = r.refunds /\ q.batches = r.batches
      BY <1>r DEF Cashouts, Final
    <3>3. \/ q.status = r.status /\ r.status \notin {"requested", "approved"}
          \/ q.status = "approved" /\ r.status \in {"requested", "approved"}
      BY <3>2 DEF Final
    <3> HIDE DEF q
    <3>4. RowSound(q, ds \ {"approve"})
      BY <1>r, <3>2, <3>3 DEF RowSound, Way
    <3>5. QED
      BY <1>r, <3>1, <3>2, <3>4, OtherRequests
  <2>2. profile \in Profiles
    BY ProfileParts
  <2>3. profile' = [profile EXCEPT !.locked = FALSE]
    BY <1>5 DEF ApproveRequest
  <2>4. profile' \in Profiles
    BY <2>2, <2>3 DEF Profiles
  <2>5. ProfileTypeOK'
    BY <1>5, <2>4, ProfileParts, ProfileWritten, Zenon DEF ApproveRequest
  <2>6. QED
    BY <2>1, <2>5
<1>6. ASSUME NEW d \in Decisions, RejectRequest(c, d)
      PROVE  ProfileTypeOK' /\ RequestsInv'
  <2>1. RequestsInv'
    <3> DEFINE q == [r EXCEPT !.status = Final(c, "rejected"), !.refunds = r.refunds + 1,
                              !.crossed = Crossing(c, d)]
    <3>1. /\ request' = [request EXCEPT ![c] = q]
          /\ deciding' = [deciding EXCEPT ![c] = ds \ {d}]
      BY <1>6, <1>f DEF RejectRequest, Decided
    <3>2. /\ Final(c, "rejected") \in {"rejected", r.status} /\ Crossing(c, d) \in BOOLEAN
          /\ r.status \in {"requested", "approved"} => Final(c, "rejected") = "rejected"
      BY <1>r DEF Cashouts, Final, Crossing
    <3>3. /\ q \in Cashouts /\ q.status = Final(c, "rejected") /\ q.crossed = Crossing(c, d)
          /\ q.refunds = r.refunds + 1 /\ r.refunds \in Nat /\ q.batches = r.batches
      <4> DEFINE st == Final(c, "rejected")
                 x == Crossing(c, d)
      <4>1. r \in Cashouts /\ st \in {"rejected", r.status} /\ x \in BOOLEAN
            /\ q = [r EXCEPT !.status = st, !.refunds = r.refunds + 1, !.crossed = x]
        BY <1>r, <3>2
      <4> HIDE DEF r, st, x, q
      <4>2. q = [status |-> st, old |-> r.old, refunds |-> r.refunds + 1,
                 batches |-> r.batches, crossed |-> x]
        BY <4>1 DEF Cashouts
      <4>3. /\ st \in {"absent", "none", "asked", "requested", "approved", "rejected", "paid"}
            /\ r.old \in BOOLEAN /\ r.refunds \in Nat /\ r.batches \in {{}, {0}}
        BY <4>1 DEF Cashouts
      <4>4. q \in Cashouts
        BY <4>1, <4>2, <4>3 DEF Cashouts
      <4>5. QED
        BY <4>2, <4>3, <4>4 DEF st, x
    <3>4. d \in ds /\ d \in {"reject", "auto"}
      BY <1>6 DEF RejectRequest
    <3> HIDE DEF q
    <3>5. ASSUME ~q.crossed PROVE Way(q, ds \ {d})
      <4>1. /\ ds \ {d} = {} /\ Way(r, ds)
            /\ ~(r.status = "approved" /\ r.batches # {})
        BY <1>r, <3>3, <3>4, <3>5 DEF Crossing, RowSound
      <4>2. r.status \in {"requested", "approved"} /\ ~(r.refunds > 0)
        BY <3>4, <4>1 DEF Way
      <4>3. QED
        BY <3>2, <3>3, <4>1, <4>2 DEF Way
    <3>6. RowSound(q, ds \ {d})
      BY <1>r, <3>2, <3>3, <3>5 DEF RowSound
    <3>7. QED
      BY <1>r, <3>1, <3>3, <3>6, OtherRequests
  <2>2. profile \in Profiles
    BY ProfileParts
  <2>3. profile' = [[profile EXCEPT !.credit = profile.credit + Amount] EXCEPT !.locked = FALSE]
    BY <1>6 DEF RejectRequest, Unlocked
  <2>4. profile' = [credit |-> profile.credit + Amount, frozen |-> profile.frozen,
                    locked |-> FALSE]
    BY <2>2, <2>3 DEF Profiles
  <2>5. profile' \in Profiles
    BY <2>2, <2>4 DEF Profiles
  <2>6. ProfileTypeOK'
    BY <1>6, <2>5, ProfileParts, ProfileWritten, Zenon DEF RejectRequest
  <2>7. QED
    BY <2>1, <2>6
<1>7. CASE PayOut(c)
  <2> DEFINE q == [r EXCEPT !.batches = r.batches \union {0}, !.crossed = Crossing(c, "pay")]
  <2>1. request' = [request EXCEPT ![c] = q]
    BY <1>7, <1>f DEF PayOut, SenderBatchId
  <2>2. PICK es \in {(ds \ {"pay"}) \union {"confirm"}, ds \ {"pay"}} :
          deciding' = [deciding EXCEPT ![c] = es]
    BY <1>7 DEF PayOut, Proceed, Decided
  <2>3. /\ q \in Cashouts /\ q.batches # {} /\ q.status = r.status /\ q.refunds = r.refunds
        /\ q.crossed = Crossing(c, "pay")
    BY <1>r DEF Cashouts, Crossing
  <2>4. es \in SUBSET Decisions
    BY <1>r, <2>2 DEF Decisions
  <2> HIDE DEF q
  <2>5. ASSUME ~q.crossed PROVE Way(q, es)
    <3>1. "pay" \in ds /\ ds \ {"pay"} = {} /\ Way(r, ds)
      BY <1>7, <1>r, <2>3, <2>5 DEF PayOut, Crossing, RowSound
    <3>2. "pay" \notin es
      BY <2>2, <3>1
    <3>3. QED
      BY <3>1, <3>2, <2>3 DEF Way
  <2>6. RowSound(q, es)
    BY <1>r, <2>3, <2>5 DEF RowSound
  <2>7. RequestsInv'
    BY <2>1, <2>2, <2>3, <2>4, <2>6, OtherRequests
  <2>8. CutShort \/ UNCHANGED cuts
    BY <1>7 DEF PayOut
  <2>9. QED
    BY <1>7, <2>7, <2>8, AccountUnchanged DEF PayOut
<1>8. CASE ConfirmPayment(c)
  <2>1. PICK es \in {(ds \ {"confirm"}) \union {"paid"}, ds \ {"confirm"}} :
          deciding' = [deciding EXCEPT ![c] = es]
    BY <1>8 DEF ConfirmPayment, Proceed, Decided
  <2>2. r.batches # {} /\ request' = [request EXCEPT ![c] = r] /\ ds # {}
    BY <1>8, <1>r DEF ConfirmPayment, RowSound
  <2>3. es \in SUBSET Decisions /\ ("pay" \in es => "pay" \in ds)
    BY <1>r, <2>1 DEF Decisions
  <2>4. RowSound(r, es)
    BY <1>r, <2>2, <2>3 DEF RowSound, Way
  <2>5. RequestsInv'
    BY <1>r, <2>1, <2>2, <2>3, <2>4, OtherRequests
  <2>6. QED
    BY <1>8, <2>5, ProfileUnchanged DEF ConfirmPayment
<1>9. CASE MarkPaid(c)
  <2> DEFINE q == [r EXCEPT !.status = "paid", !.crossed = Crossing(c, "paid")]
  <2>1. /\ request' = [request EXCEPT ![c] = q]
        /\ deciding' = [deciding EXCEPT ![c] = ds \ {"paid"}]
    BY <1>9, <1>f DEF MarkPaid, Decided
  <2>2. /\ q \in Cashouts /\ q.status = "paid" /\ q.batches = r.batches
        /\ q.refunds = r.refunds /\ q.crossed = Crossing(c, "paid") /\ r.batches # {}
        /\ ds # {}
    BY <1>9, <1>r DEF Cashouts, Crossing, MarkPaid, RowSound
  <2> HIDE DEF q
  <2>3. ASSUME ~q.crossed PROVE Way(q, ds \ {"paid"})
    <3>1. ds \ {"paid"} = {} /\ Way(r, ds)
      BY <1>r, <2>2, <2>3 DEF Crossing, RowSound
    <3>2. QED
      BY <3>1, <2>2 DEF Way
  <2>4. RequestsInv'
    <3>1. RowSound(q, ds \ {"paid"})
      BY <2>2, <2>3 DEF RowSound
    <3>2. QED
      BY <1>r, <2>1, <2>2, <3>1, OtherRequests
  <2>5. QED
    BY <1>9, <2>4, ProfileUnchanged DEF MarkPaid
<1>10. CASE DecisionCut(c)
  <2>1. PICK d \in ds : deciding' = [deciding EXCEPT ![c] = ds \ {d}]
    BY <1>10 DEF DecisionCut, Decided
  <2>2. request' = [request EXCEPT ![c] = r]
    BY <1>10, <1>r DEF DecisionCut
  <2>3. RequestsInv'
    <3>1. RowSound(r, ds \ {d})
      <4> HIDE DEF r, ds
      <4>1. Way(r, ds) => Way(r, ds \ {d})
        BY DEF Way
      <4>2. QED
        BY <1>r, <4>1 DEF RowSound
    <3>2. ds \ {d} \in SUBSET Decisions
      BY <1>r
    <3> HIDE DEF r, ds
    <3>3. QED
      BY <1>r, <2>1, <2>2, <3>1, <3>2, OtherRequests
  <2>4. QED
    BY <1>10, <2>3, AccountUnchanged DEF DecisionCut
<1>11. QED
  BY <1>1, <1>2, <1>3, <1>4, <1>5, <1>6, <1>7, <1>8, <1>9, <1>10 DEF RequestStep
------------------------------------------------------------------------------
\* The ledger.

LEMMA NextInv == Inv /\ [Next]_vars => Inv'
<1> SUFFICES ASSUME Inv, [Next]_vars PROVE Inv'
  OBVIOUS
<1>i. ProfileTypeOK /\ GamesInv /\ OrdersInv /\ RequestsInv
  BY DEF Inv
<1>g. UNCHANGED game => GamesInv'
  BY <1>i DEF GamesInv
<1>o. UNCHANGED orders => OrdersInv'
  BY <1>i DEF orders, OrdersInv, TopUpsSound
<1>r. UNCHANGED requests => RequestsInv'
  BY <1>i DEF requests, RequestsInv, RowsSound
<1>1. CASE TaskStep /\ UNCHANGED <<game, orders, requests>>
  BY <1>1, <1>i, <1>g, <1>o, <1>r, TaskKeepsProfile DEF Inv
<1>2. ASSUME NEW g \in Games, GameStep(g), UNCHANGED <<orders, requests>>
      PROVE  Inv'
  BY <1>2, <1>i, <1>o, <1>r, GamesKeep DEF Inv
<1>3. ASSUME NEW o \in AllOrders, OrderStep(o), UNCHANGED <<game, requests>>
      PROVE  Inv'
  BY <1>3, <1>i, <1>g, <1>r, OrdersKeep DEF Inv
<1>4. ASSUME NEW c \in Requests, RequestStep(c), UNCHANGED <<game, orders>>
      PROVE  Inv'
  BY <1>4, <1>i, <1>g, <1>o, RequestsKeep DEF Inv
<1>5. CASE UNCHANGED vars
  <2>1. UNCHANGED <<account, scan, cuts>> /\ UNCHANGED <<game, orders, requests>>
    BY <1>5 DEF vars, account, orders, requests
  <2>2. QED
    BY <2>1, <1>i, <1>g, <1>o, <1>r, ProfileUnchanged DEF Inv
<1>6. QED
  BY <1>1, <1>2, <1>3, <1>4, <1>5 DEF Next

LEMMA InvAlways == Spec => []Inv
<1>1. QED
  BY InitInv, NextInv, PTL DEF Spec

\* Every part of the ledger keeps to its type, whoever writes the profile meanwhile
\* (the writers of repositories/player_profile.rs).
THEOREM LedgerTypeCorrect == Spec => []TypeOK
<1>1. Inv => TypeOK
  <2> SUFFICES ASSUME Inv PROVE TypeOK
    OBVIOUS
  <2>1. ProfileTypeOK
    BY DEF Inv
  <2>2. GamesTypeOK
    BY DEF Inv, GamesInv, GamesTypeOK, Stages
  <2>3. OrdersTypeOK
    BY DEF Inv, OrdersInv, OrdersTypeOK, OrderRows, Places, TopUpsSound
  <2>4. RequestsTypeOK
    BY DEF Inv, RequestsInv, RequestsTypeOK, Cashouts
  <2>5. QED
    BY <2>1, <2>2, <2>3, <2>4 DEF TypeOK
<1>2. QED
  BY <1>1, InvAlways, PTL

\* However often the client and the return page capture an order, at once or after a
\* death, its credit is added at most once, and only if PayPal has the money
\* (api/topup.rs:418).
THEOREM PaymentsAreCreditedOnce == Spec => []CreditedOnce
<1>1. Inv => CreditedOnce
  BY DEF Inv, OrdersInv, TopUpsSound, CreditedOnce
<1>2. QED
  BY <1>1, InvAlways, PTL

\* However many commands and scans decide on a request, one after the other, its
\* credits leave it once; and however they cross, it is marked paid only when PayPal has
\* paid it, and rejected only when its credits are back (repositories/cashout.rs).
THEOREM RequestsAreClosedOnce == Spec => []ClosedOnce
<1>1. Inv => ClosedOnce
  <2> SUFFICES ASSUME Inv, NEW c \in Requests
               PROVE  /\ request[c].crossed
                           \/ request[c].refunds + Cardinality(request[c].batches) <= 1
                      /\ request[c].status = "paid" => request[c].batches # {}
                      /\ request[c].status = "rejected" => request[c].refunds > 0
    BY DEF ClosedOnce
  <2>1. RequestsInv
    BY DEF Inv
  <2>2. request[c].refunds \in Nat /\ request[c].batches \in {{}, {0}}
    BY <2>1 DEF RequestsInv, Cashouts
  <2>3. Cardinality({}) = 0 /\ Cardinality({0}) = 1
    BY FS_EmptySet, FS_Singleton
  <2>4. ASSUME ~request[c].crossed
        PROVE  request[c].refunds + Cardinality(request[c].batches) <= 1
    <3>1. Way(request[c], deciding[c])
      BY <2>1, <2>4 DEF RequestsInv, RowsSound, RowSound
    <3>2. CASE request[c].batches = {}
      BY <2>2, <2>3, <3>1, <3>2 DEF Way
    <3>3. CASE request[c].batches = {0}
      BY <2>2, <2>3, <3>1, <3>3 DEF Way
    <3>4. QED
      BY <2>2, <3>2, <3>3
  <2>5. QED
    BY <2>1, <2>4 DEF RequestsInv, RowsSound, RowSound
<1>2. QED
  BY <1>1, InvAlways, PTL
------------------------------------------------------------------------------
\* The books: what the rows add up to, as numbers of rows.

\* A set of rows that differs from another in one row has one more, one less, or as many.
LEMMA OneChanges ==
  ASSUME NEW S, NEW T, NEW x, IsFiniteSet(S), S \ {x} = T \ {x}
  PROVE  /\ IsFiniteSet(T) /\ Cardinality(S) \in Nat /\ Cardinality(T) \in Nat
         /\ Cardinality(T) = Cardinality(S) + (IF x \in T THEN 1 ELSE 0)
                                            - (IF x \in S THEN 1 ELSE 0)
<1> DEFINE R == S \ {x}
<1>1. IsFiniteSet(R) /\ Cardinality(R) \in Nat
  BY FS_Subset, FS_CardinalityType
<1>2. x \notin R /\ S = (IF x \in S THEN R \union {x} ELSE R)
      /\ T = (IF x \in T THEN R \union {x} ELSE R)
  OBVIOUS
<1> HIDE DEF R
<1>3. IsFiniteSet(R \union {x}) /\ Cardinality(R \union {x}) = Cardinality(R) + 1
  BY <1>1, <1>2, FS_AddElement
<1>4. /\ IsFiniteSet(S) /\ Cardinality(S) = Cardinality(R) + (IF x \in S THEN 1 ELSE 0)
      /\ IsFiniteSet(T) /\ Cardinality(T) = Cardinality(R) + (IF x \in T THEN 1 ELSE 0)
  <2>1. CASE x \in S /\ x \in T
    <3>1. S = R \union {x} /\ T = R \union {x}
      BY <1>2, <2>1
    <3>2. QED
      BY <1>3, <2>1, <3>1
  <2>2. CASE x \in S /\ x \notin T
    <3>1. S = R \union {x} /\ T = R
      BY <1>2, <2>2
    <3>2. QED
      BY <1>1, <1>3, <2>2, <3>1
  <2>3. CASE x \notin S /\ x \in T
    <3>1. S = R /\ T = R \union {x}
      BY <1>2, <2>3
    <3>2. QED
      BY <1>1, <1>3, <2>3, <3>1
  <2>4. CASE x \notin S /\ x \notin T
    <3>1. S = R /\ T = R
      BY <1>2, <2>4
    <3>2. QED
      BY <1>1, <2>4, <3>1
  <2>5. QED
    BY <2>1, <2>2, <2>3, <2>4
<1>5. QED
  BY <1>1, <1>4

\* How often a game counts for its stake.
Units(st, d) ==
  IF st \in {"staked", "settling", "cancelling"} THEN -1
  ELSE IF st # "over" THEN 0
  ELSE IF d = 2 * Stake THEN 1 ELSE IF d = -Stake THEN -2 ELSE -1

LEMMA OneGameMoves ==
  ASSUME GamesInv, GamesInv', NEW g \in Games, \A h \in Games \ {g} : game'[h] = game[h]
  PROVE  /\ Winnings \in Int
         /\ Winnings' = Winnings + Stake * Units(game'[g].st, game'[g].delta)
                                 - Stake * Units(game[g].st, game[g].delta)
<1> DEFINE W == OverWith(2 * Stake)
           L == OverWith(-Stake)
           k == Units(game'[g].st, game'[g].delta)
           j == Units(game[g].st, game[g].delta)
           one(S) == IF g \in S THEN 1 ELSE 0
<1>1. IsFiniteSet(W) /\ IsFiniteSet(L) /\ IsFiniteSet(Staked)
  BY FS_Subset DEF OverWith, Staked
<1>2. W \ {g} = W' \ {g} /\ L \ {g} = L' \ {g} /\ Staked \ {g} = Staked' \ {g}
  BY DEF OverWith, Staked
<1>3. /\ (g \in W <=> game[g].st = "over" /\ game[g].delta = 2 * Stake)
      /\ (g \in L <=> game[g].st = "over" /\ game[g].delta = -Stake)
      /\ (g \in Staked <=> game[g].st \in {"staked", "settling", "cancelling", "over"})
  BY DEF OverWith, Staked
<1>4. /\ (g \in W' <=> game'[g].st = "over" /\ game'[g].delta = 2 * Stake)
      /\ (g \in L' <=> game'[g].st = "over" /\ game'[g].delta = -Stake)
      /\ (g \in Staked' <=> game'[g].st \in {"staked", "settling", "cancelling", "over"})
  BY DEF OverWith, Staked
<1>5. 2 * Stake # -Stake
  OBVIOUS
<1>6. j = 2 * one(W) - one(L) - one(Staked)
  BY <1>3, <1>5 DEF Units
<1>7. k = 2 * one(W') - one(L') - one(Staked')
  BY <1>4, <1>5 DEF Units
<1>8. k \in Int /\ j \in Int
  BY DEF Units
<1> HIDE DEF W, L, k, j
<1>9. /\ Cardinality(W) \in Nat /\ Cardinality(W') \in Nat
      /\ Cardinality(W') = Cardinality(W) + one(W') - one(W)
  BY <1>1, <1>2, OneChanges
<1>10. /\ Cardinality(L) \in Nat /\ Cardinality(L') \in Nat
       /\ Cardinality(L') = Cardinality(L) + one(L') - one(L)
  BY <1>1, <1>2, OneChanges
<1>11. /\ Cardinality(Staked) \in Nat /\ Cardinality(Staked') \in Nat
       /\ Cardinality(Staked') = Cardinality(Staked) + one(Staked') - one(Staked)
  BY <1>1, <1>2, OneChanges
<1> DEFINE w == Cardinality(W)    l == Cardinality(L)    s == Cardinality(Staked)
           w1 == Cardinality(W')  l1 == Cardinality(L')  s1 == Cardinality(Staked')
<1>12. w \in Int /\ l \in Int /\ s \in Int /\ w1 \in Int /\ l1 \in Int /\ s1 \in Int
  BY <1>9, <1>10, <1>11
<1>o. \A S : one(S) \in Int
  OBVIOUS
<1> HIDE DEF one
<1>13. /\ Winnings = Stake * (2 * w - l - s)
       /\ Winnings' = Stake * ((2 * w - l - s) + k - j)
  <2>1. Winnings = Stake * (2 * w - l - s) /\ Winnings' = Stake * (2 * w1 - l1 - s1)
    BY DEF Winnings, W, L
  <2> HIDE DEF w, l, s, w1, l1, s1
  <2>2. 2 * w1 - l1 - s1 = (2 * w - l - s) + k - j
    <3>1. one(W) \in Int /\ one(W') \in Int /\ one(L) \in Int /\ one(L') \in Int
          /\ one(Staked) \in Int /\ one(Staked') \in Int
      BY <1>o
    <3>2. w1 = w + one(W') - one(W) /\ l1 = l + one(L') - one(L)
          /\ s1 = s + one(Staked') - one(Staked)
      BY <1>9, <1>10, <1>11 DEF w, l, s, w1, l1, s1
    <3>3. QED
      BY <1>6, <1>7, <1>8, <1>12, <3>1, <3>2
  <2>3. QED
    BY <2>1, <2>2
<1>14. \A b, m, n \in Int : Stake * (b + m - n) = Stake * b + Stake * m - Stake * n
  OBVIOUS
<1>15. QED
  <2> HIDE DEF w, l, s, w1, l1, s1
  <2>1. 2 * w - l - s \in Int
    BY <1>12
  <2>2. Stake * (2 * w - l - s) \in Int
    BY <2>1
  <2>3. Stake * ((2 * w - l - s) + k - j) = Stake * (2 * w - l - s) + Stake * k - Stake * j
    BY <1>8, <1>14, <2>1
  <2>4. QED
    BY <1>13, <2>2, <2>3 DEF k, j

TopUpRows == {r \in Rows : r[1] \in TopUps}

LEMMA TopUpsMove ==
  ASSUME NEW o \in TopUps,
         \A p \in TopUps \ {o} : order'[p].rows = order[p].rows,
         order[o].rows = 0, order'[o].rows = 1
  PROVE  ToppedUp' = ToppedUp + TopUpCredit
<1> DEFINE n == Cardinality(TopUpRows)  n1 == Cardinality(TopUpRows')
<1>1. TopUpRows = {r \in AllOrders \X (1..MaxRows) : r[1] \in TopUps /\ r[2] <= order[r[1]].rows}
  BY DEF TopUpRows, Rows
<1>2. TopUpRows' = {r \in AllOrders \X (1..MaxRows) : r[1] \in TopUps /\ r[2] <= order'[r[1]].rows}
  BY DEF TopUpRows, Rows
<1>3. IsFiniteSet(TopUpRows)
  <2>1. IsFiniteSet(1..MaxRows)
    BY FS_Interval
  <2>2. IsFiniteSet(AllOrders \X (1..MaxRows))
    BY <2>1, FS_Product
  <2>3. QED
    BY <1>1, <2>2, FS_Subset
<1>4. TopUpRows \ {<<o, 1>>} = TopUpRows' \ {<<o, 1>>}
  <2>1. ASSUME NEW r \in AllOrders \X (1..MaxRows), r # <<o, 1>>, r[1] \in TopUps
        PROVE  r[2] <= order[r[1]].rows <=> r[2] <= order'[r[1]].rows
    <3>1. PICK p \in TopUps, m \in 1..MaxRows : r = <<p, m>>
      BY <2>1
    <3>2. CASE p = o
      BY <2>1, <3>1, <3>2
    <3>3. CASE p # o
      BY <3>1, <3>3
    <3>4. QED
      BY <3>2, <3>3
  <2>2. QED
    BY <1>1, <1>2, <2>1
<1>5. <<o, 1>> \notin TopUpRows /\ <<o, 1>> \in TopUpRows'
  BY <1>1, <1>2 DEF AllOrders
<1>6. n \in Nat /\ n1 \in Nat /\ n1 = n + 1
  BY <1>3, <1>4, <1>5, OneChanges
<1>7. ToppedUp = TopUpCredit * n /\ ToppedUp' = TopUpCredit * n1
  BY DEF ToppedUp, TopUpRows
<1> HIDE DEF n, n1
<1>8. \A m \in Nat : TopUpCredit * (m + 1) = TopUpCredit * m + TopUpCredit
  OBVIOUS
<1>9. QED
  BY <1>6, <1>7, <1>8

LEMMA TopUpsStay ==
  ASSUME \A p \in TopUps : order'[p].rows = order[p].rows
  PROVE  ToppedUp' = ToppedUp
<1>1. TopUpRows' = TopUpRows
  BY DEF TopUpRows, Rows
<1>2. QED
  BY <1>1 DEF ToppedUp, TopUpRows

Owed(r) == IF r.status \in {"absent", "none", "asked"} THEN 0 ELSE 1

LEMMA CashoutsMove ==
  ASSUME RequestsInv, IsFiniteSet(Refunded), NEW c \in Requests,
         request' \in [Requests -> Cashouts],
         \A e \in Requests \ {c} : request'[e] = request[e],
         NEW n \in {0, 1}, request'[c].refunds = request[c].refunds + n
  PROVE  /\ IsFiniteSet(Refunded')
         /\ CashedOut' = CashedOut + Amount * Owed(request'[c]) - Amount * Owed(request[c])
                                   - Amount * n
<1> DEFINE k == request[c].refunds
           x == <<c, k + 1>>
           ch == Cardinality(Charged)   ch1 == Cardinality(Charged')
           rf == Cardinality(Refunded)  rf1 == Cardinality(Refunded')
           a == Owed(request[c])
           a1 == Owed(request'[c])
<1>r. /\ \A e \in Requests : request[e].refunds \in Nat /\ request'[e].refunds \in Nat
      /\ k \in Nat
  BY DEF RequestsInv, Cashouts
<1>1. IsFiniteSet(Charged)
  BY FS_Subset DEF Charged
<1>2. Charged \ {c} = Charged' \ {c}
  BY DEF Charged
<1>3. /\ a = (IF c \in Charged THEN 1 ELSE 0) /\ a1 = (IF c \in Charged' THEN 1 ELSE 0)
  BY DEF Owed, Charged
<1>4. ch \in Nat /\ ch1 \in Nat /\ ch1 = ch + a1 - a
  BY <1>1, <1>2, <1>3, OneChanges
<1>5. Refunded \ {x} = Refunded' \ {x}
  <2>1. ASSUME NEW e \in Requests, NEW m \in Nat, <<e, m>> # x
        PROVE  m \in 1..request[e].refunds <=> m \in 1..request'[e].refunds
    <3>1. CASE e = c
      BY <1>r, <2>1, <3>1
    <3>2. CASE e # c
      BY <3>2
    <3>3. QED
      BY <3>1, <3>2
  <2>2. \A y : y \in Refunded <=> \E e \in Requests : \E m \in 1..request[e].refunds : y = <<e, m>>
    BY DEF Refunded
  <2>3. \A y : y \in Refunded' <=> \E e \in Requests : \E m \in 1..request'[e].refunds : y = <<e, m>>
    BY DEF Refunded
  <2>4. \A e \in Requests : \A m \in 1..request[e].refunds : m \in Nat
    BY <1>r
  <2>5. \A e \in Requests : \A m \in 1..request'[e].refunds : m \in Nat
    BY <1>r
  <2> HIDE DEF x
  <2>6. QED
    BY <2>1, <2>2, <2>3, <2>4, <2>5
<1>6. x \notin Refunded /\ (x \in Refunded' <=> n = 1)
  <2>1. x \in Refunded <=> k + 1 \in 1..k
    BY DEF Refunded
  <2>2. x \in Refunded' <=> k + 1 \in 1..(k + n)
    BY DEF Refunded
  <2>3. QED
    BY <1>r, <2>1, <2>2
<1>7. IsFiniteSet(Refunded') /\ rf \in Nat /\ rf1 \in Nat /\ rf1 = rf + n
  <2> HIDE DEF x
  <2>1. rf1 = rf + (IF x \in Refunded' THEN 1 ELSE 0) - (IF x \in Refunded THEN 1 ELSE 0)
    BY <1>5, OneChanges
  <2>2. QED
    BY <1>5, <1>6, <2>1, OneChanges
<1>8. CashedOut = Amount * (ch - rf) /\ CashedOut' = Amount * (ch1 - rf1)
  BY DEF CashedOut
<1>9. a \in Int /\ a1 \in Int
  BY DEF Owed
<1> HIDE DEF ch, ch1, rf, rf1, a, a1
<1>10. ch1 - rf1 = ch - rf + a1 - a - n /\ ch - rf \in Int
  BY <1>4, <1>7, <1>9
<1>11. \A b, m, l, h \in Int :
         Amount * (b + m - l - h) = Amount * b + Amount * m - Amount * l - Amount * h
  OBVIOUS
<1>12. Amount * (ch - rf + a1 - a - n) = Amount * (ch - rf) + Amount * a1 - Amount * a - Amount * n
  BY <1>9, <1>10, <1>11
<1>13. QED
  BY <1>7, <1>8, <1>10, <1>12 DEF a, a1

Numbers ==
  /\ Winnings \in Int /\ ToppedUp \in Int /\ CashedOut \in Int
  /\ profile.credit \in Int /\ granted \in Int

LEMMA BooksTyped == Inv /\ IsFiniteSet(Refunded) => Numbers
<1> SUFFICES ASSUME Inv, IsFiniteSet(Refunded) PROVE Numbers
  OBVIOUS
<1>1. Winnings \in Int
  <2>1. IsFiniteSet(OverWith(2 * Stake)) /\ IsFiniteSet(OverWith(-Stake)) /\ IsFiniteSet(Staked)
    BY FS_Subset DEF OverWith, Staked
  <2>2. /\ Cardinality(OverWith(2 * Stake)) \in Nat /\ Cardinality(OverWith(-Stake)) \in Nat
        /\ Cardinality(Staked) \in Nat
    BY <2>1, FS_CardinalityType
  <2>3. QED
    BY <2>2 DEF Winnings
<1>2. ToppedUp \in Int
  <2>1. IsFiniteSet(1..MaxRows)
    BY FS_Interval
  <2>2. IsFiniteSet(AllOrders \X (1..MaxRows))
    BY <2>1, FS_Product
  <2>3. IsFiniteSet(TopUpRows)
    BY <2>2, FS_Subset DEF TopUpRows, Rows
  <2>4. Cardinality(TopUpRows) \in Nat
    BY <2>3, FS_CardinalityType
  <2>5. QED
    BY <2>4 DEF ToppedUp, TopUpRows
<1>3. CashedOut \in Int
  <2>1. IsFiniteSet(Charged)
    BY FS_Subset DEF Charged
  <2>2. Cardinality(Charged) \in Nat /\ Cardinality(Refunded) \in Nat
    BY <2>1, FS_CardinalityType
  <2>3. QED
    BY <2>2 DEF CashedOut
<1>4. profile \in Profiles /\ granted \in Int
  BY ProfileParts DEF Inv
<1>5. QED
  BY <1>1, <1>2, <1>3, <1>4 DEF Numbers, Profiles

LEMMA BooksTypedNext == Inv' /\ IsFiniteSet(Refunded)' => Numbers'
BY BooksTyped, PTL

\* With the books, that a request is decided on only once its credits are taken; the
\* refunds are finitely many because every one is a step.
Books ==
  /\ Accounted
  /\ IsFiniteSet(Refunded)
  /\ \A c \in Requests : deciding[c] # {} => c \in Charged

\* A step keeps the account when the books move as the credit does.
LEMMA KeepsAccount ==
  ASSUME Accounted, Inv, Inv', IsFiniteSet(Refunded), IsFiniteSet(Refunded'),
         overwritten => overwritten',
         \/ overwritten'
         \/ profile'.credit - granted' - Winnings' - ToppedUp' + CashedOut'
              = profile.credit - granted - Winnings - ToppedUp + CashedOut
  PROVE  Accounted'
<1>1. /\ Winnings \in Int /\ ToppedUp \in Int /\ CashedOut \in Int
      /\ profile.credit \in Int /\ granted \in Int
  BY BooksTyped DEF Numbers
<1>2. /\ Winnings' \in Int /\ ToppedUp' \in Int /\ CashedOut' \in Int
      /\ profile'.credit \in Int /\ granted' \in Int
  BY BooksTypedNext DEF Numbers
<1>3. CASE overwritten'
  BY <1>3 DEF Accounted
<1>4. CASE ~overwritten'
  <2>1. ~overwritten
    BY <1>4
  <2>2. PICK start \in StartCredits :
          profile.credit = start + granted + Winnings + ToppedUp - CashedOut
    BY <2>1 DEF Accounted
  <2>3. start \in Int
    OBVIOUS
  <2>4. profile'.credit = start + granted' + Winnings' + ToppedUp' - CashedOut'
    BY <1>1, <1>2, <1>4, <2>2, <2>3
  <2>5. QED
    BY <2>4 DEF Accounted
<1>5. QED
  BY <1>3, <1>4

LEMMA GamesSame == ASSUME UNCHANGED game PROVE Winnings' = Winnings
BY DEF Winnings, OverWith, Staked

LEMMA RequestsSame ==
  ASSUME UNCHANGED requests
  PROVE  /\ CashedOut' = CashedOut /\ Refunded' = Refunded
         /\ Books => \A c \in Requests : deciding'[c] # {} => c \in Charged'
BY DEF CashedOut, Charged, Refunded, requests, Books

LEMMA OrdersSame == ASSUME UNCHANGED orders PROVE ToppedUp' = ToppedUp
BY TopUpsStay DEF orders

LEMMA TaskBooks ==
  ASSUME Inv, Inv', Books, TaskStep, UNCHANGED <<game, orders, requests>>
  PROVE  Books'
<1>1. Winnings' = Winnings /\ ToppedUp' = ToppedUp /\ CashedOut' = CashedOut
      /\ Refunded' = Refunded /\ \A c \in Requests : deciding'[c] # {} => c \in Charged'
  BY GamesSame, OrdersSame, RequestsSame
<1>2. profile \in Profiles /\ granted \in Int
  BY ProfileParts DEF Inv
<1>3. profile'.credit - granted' = profile.credit - granted /\ (overwritten => overwritten')
  <2>1. CASE Lapse
    BY <1>2, <2>1 DEF Lapse, Profiles
  <2>2. CASE EndFreeze
    <3>1. profile'.credit = FreeCredit /\ granted' = granted + FreeCredit - profile.credit
      BY <1>2, <2>2 DEF EndFreeze, Profiles
    <3>2. overwritten => overwritten'
      BY <2>2 DEF EndFreeze
    <3>3. profile.credit \in Int
      BY <1>2 DEF Profiles
    <3>4. QED
      BY <1>2, <3>1, <3>2, <3>3
  <2>3. CASE ListExpired \/ ScanCut
    BY <2>3 DEF ListExpired, ScanCut, account
  <2>4. QED
    BY <2>1, <2>2, <2>3 DEF TaskStep, ScanStep
<1>4. Accounted'
  <2>1. Numbers /\ Numbers'
    BY <1>1, BooksTyped, BooksTypedNext DEF Books
  <2>2. profile'.credit - granted' - Winnings' - ToppedUp' + CashedOut'
          = profile.credit - granted - Winnings - ToppedUp + CashedOut
    BY <1>1, <1>3, <2>1 DEF Numbers
  <2>3. QED
    BY <1>1, <1>3, <2>2, KeepsAccount DEF Books
<1>5. QED
  BY <1>1, <1>4 DEF Books

LEMMA GameBooks ==
  ASSUME Inv, Inv', Books, NEW g \in Games, GameStep(g), UNCHANGED <<orders, requests>>
  PROVE  Books'
<1> DEFINE u == Stake * Units(game[g].st, game[g].delta)
           u1 == Stake * Units(game'[g].st, game'[g].delta)
<1>1. ToppedUp' = ToppedUp /\ CashedOut' = CashedOut
      /\ Refunded' = Refunded /\ \A c \in Requests : deciding'[c] # {} => c \in Charged'
  BY OrdersSame, RequestsSame
<1>2. /\ profile \in Profiles /\ granted \in Int /\ GamesInv /\ GamesInv'
      /\ game \in [Games -> [st : Stages, seen : Profiles, delta : Deltas]]
  BY ProfileParts DEF Inv, GamesInv
<1>m. \A st : Move(g, st) =>
        /\ game'[g].st = st /\ game'[g].delta = game[g].delta
        /\ \A h \in Games \ {g} : game'[h] = game[h]
  BY <1>2 DEF Move
<1>r. \A st : Reads(g, st) =>
        /\ game'[g].st = st /\ game'[g].delta = game[g].delta
        /\ \A h \in Games \ {g} : game'[h] = game[h]
  BY <1>2 DEF Reads
<1>3. \A h \in Games \ {g} : game'[h] = game[h]
  BY <1>2, <1>m, <1>r DEF GameStep, JoinRead, JoinRefused, JoinWrite, SettleRead, SettleWrite,
     CancelRead, CancelWrite
<1>4. Winnings' = Winnings + u1 - u /\ Winnings \in Int
  BY <1>2, <1>3, OneGameMoves
<1>5. game[g].delta \in Deltas /\ game[g].seen.credit \in Int
  BY <1>2 DEF Profiles
<1>k. /\ \A d : Units("none", d) = 0 /\ Units("joining", d) = 0 /\ Units("cancelled", d) = 0
      /\ \A d : Units("staked", d) = -1 /\ Units("settling", d) = -1 /\ Units("cancelling", d) = -1
      /\ Units("over", 2 * Stake) = 1 /\ Units("over", -Stake) = -2 /\ Units("over", 0) = -1
  BY DEF Units
<1>6. (overwritten => overwritten')
      /\ (overwritten' \/ profile'.credit - granted' - u1 = profile.credit - granted - u)
  <2>1. CASE JoinRead(g) \/ JoinRefused(g)
    <3>1. UNCHANGED <<profile, granted, overwritten>>
      BY <2>1 DEF JoinRead, JoinRefused, account
    <3>2. u = 0 /\ u1 = 0
      BY <1>k, <1>m, <1>r, <2>1 DEF JoinRead, JoinRefused
    <3>3. QED
      BY <3>1, <3>2
  <2>2. CASE JoinWrite(g)
    <3> DEFINE new == Joined(game[g].seen)
               seen == game[g].seen.credit
    <3>1. profile' = [profile EXCEPT !.credit = new.credit, !.frozen = new.frozen]
      BY <2>2 DEF JoinWrite
    <3>2. granted' = granted + new.credit + Stake - seen
      BY <2>2 DEF JoinWrite
    <3>3. profile.credit # seen => overwritten' \/ g \in Created
      BY <2>2 DEF JoinWrite
    <3>4. g \in Created => profile.credit = seen
      BY <2>2 DEF JoinWrite, Conflicts
    <3>5. overwritten => overwritten'
      BY <2>2 DEF JoinWrite
    <3>6. u = 0 /\ u1 = -Stake
      BY <1>k, <1>m, <2>2 DEF JoinWrite
    <3>7. new.credit \in Int
      BY <1>5 DEF Joined
    <3>8. profile'.credit = new.credit
      BY <1>2, <3>1 DEF Profiles
    <3> HIDE DEF new, seen, u, u1
    <3>9. profile.credit = seen => profile'.credit - granted' - u1 = profile.credit - granted - u
      <4>1. profile.credit \in Int /\ seen \in Int
        BY <1>2, <1>5 DEF Profiles, seen
      <4>2. QED
        BY <1>2, <3>2, <3>6, <3>7, <3>8, <4>1
    <3>10. QED
      BY <3>3, <3>4, <3>5, <3>9
  <2>3. CASE SettleRead(g) \/ CancelRead(g)
    <3>1. UNCHANGED <<profile, granted, overwritten>>
      BY <2>3 DEF SettleRead, CancelRead, account
    <3>2. game[g].st = "staked" /\ game'[g].st \in {"settling", "cancelling"}
      BY <1>2, <1>r, <2>3 DEF SettleRead, CancelRead
    <3>3. u = u1
      BY <1>k, <3>2
    <3>4. QED
      BY <3>1, <3>3
  <2>4. CASE SettleWrite(g)
    <3>1. PICK f \in Freezes :
            profile' = [profile EXCEPT !.credit = @ + game[g].delta, !.frozen = f]
      BY <2>4 DEF SettleWrite, Settled, Freezes
    <3>2. profile'.credit = profile.credit + game[g].delta
      BY <1>2, <3>1 DEF Profiles
    <3>3. game[g].st = "settling" /\ game'[g].st = "over" /\ game'[g].delta = game[g].delta
      BY <1>m, <2>4 DEF SettleWrite
    <3>4. u = -Stake /\ u1 = game[g].delta - Stake
      BY <1>5, <1>k, <3>3 DEF Deltas
    <3>5. UNCHANGED <<granted, overwritten>>
      BY <2>4 DEF SettleWrite
    <3>6. game[g].delta \in Int
      BY <1>5 DEF Deltas
    <3> HIDE DEF u, u1
    <3>7. QED
      BY <1>2, <3>2, <3>4, <3>5, <3>6 DEF Profiles
  <2>5. CASE CancelWrite(g)
    <3>1. profile' = [profile EXCEPT !.credit = game[g].seen.credit + Stake]
      BY <2>5 DEF CancelWrite
    <3>2. profile'.credit = game[g].seen.credit + Stake
      BY <1>2, <3>1 DEF Profiles
    <3>3. u = -Stake /\ u1 = 0
      BY <1>k, <1>m, <2>5 DEF CancelWrite
    <3>4. (overwritten' <=> overwritten \/ profile.credit # game[g].seen.credit) /\ granted' = granted
      BY <2>5 DEF CancelWrite
    <3> HIDE DEF u, u1
    <3>5. QED
      BY <1>2, <1>5, <3>2, <3>3, <3>4 DEF Profiles
  <2>6. QED
    BY <2>1, <2>2, <2>3, <2>4, <2>5 DEF GameStep
<1>7. u \in Int /\ u1 \in Int
  BY DEF Units
<1> HIDE DEF u, u1
<1>8. Accounted'
  <2>1. /\ Winnings \in Int /\ ToppedUp \in Int /\ CashedOut \in Int
        /\ profile.credit \in Int /\ granted \in Int
    BY BooksTyped DEF Books, Numbers
  <2>2. profile'.credit \in Int /\ granted' \in Int
    BY <1>1, BooksTypedNext DEF Books, Numbers
  <2>3. \/ overwritten'
        \/ profile'.credit - granted' - Winnings' - ToppedUp' + CashedOut'
             = profile.credit - granted - Winnings - ToppedUp + CashedOut
    BY <1>1, <1>4, <1>6, <1>7, <2>1, <2>2
  <2>4. QED
    BY <1>1, <1>6, <2>3, KeepsAccount DEF Books
<1>9. QED
  BY <1>1, <1>8 DEF Books

LEMMA OrderBooks ==
  ASSUME Inv, Inv', Books, NEW o \in AllOrders, OrderStep(o), UNCHANGED <<game, requests>>
  PROVE  Books'
<1>1. Winnings' = Winnings /\ CashedOut' = CashedOut
      /\ Refunded' = Refunded /\ \A c \in Requests : deciding'[c] # {} => c \in Charged'
  BY GamesSame, RequestsSame
<1>2. /\ profile \in Profiles /\ granted \in Int
      /\ order \in [AllOrders -> OrderRows] /\ TopUpsSound
  BY ProfileParts DEF Inv, OrdersInv
<1>3. TopUps \cap Unfreezes = {} /\ TopUps \subseteq AllOrders
  BY DEF AllOrders
<1>n. Numbers /\ Numbers'
  BY <1>1, BooksTyped, BooksTypedNext DEF Books
<1>4. (overwritten => overwritten')
      /\ profile'.credit - granted' - ToppedUp' = profile.credit - granted - ToppedUp
  <2>1. CASE \E w \in Ways : FinalizeTopUp(o, w) /\ Absent(o)
    <3>1. PICK w \in Ways : FinalizeTopUp(o, w) /\ Absent(o)
      BY <2>1
    <3>2. order' = [order EXCEPT ![o].rows = order[o].rows + 1, ![o].credited = order[o].credited + 1]
      BY <3>1 DEF FinalizeTopUp
    <3>3. o \in TopUps /\ order[o].rows = 0
      BY <3>1 DEF FinalizeTopUp, Absent
    <3>4. order'[o].rows = 1 /\ \A p \in TopUps \ {o} : order'[p].rows = order[p].rows
      BY <1>2, <1>3, <3>2, <3>3 DEF OrderRows
    <3>5. ToppedUp' = ToppedUp + TopUpCredit
      BY <3>3, <3>4, TopUpsMove
    <3>6. profile' = [profile EXCEPT !.credit = profile.credit + TopUpCredit]
      BY <3>1 DEF FinalizeTopUp, AddCredit
    <3>7. profile'.credit = profile.credit + TopUpCredit
      BY <1>2, <3>6 DEF Profiles
    <3>8. UNCHANGED <<granted, overwritten>>
      BY <3>1 DEF FinalizeTopUp
    <3>9. QED
      BY <1>n, <3>5, <3>7, <3>8 DEF Numbers
  <2>2. CASE \E w \in Ways : FinalizeUnfreeze(o, w)
    <3>1. PICK w \in Ways : FinalizeUnfreeze(o, w)
      BY <2>2
    <3>2. o \in Unfreezes /\ order' = [order EXCEPT ![o].rows = order[o].rows + 1]
      BY <3>1 DEF FinalizeUnfreeze
    <3>3. ToppedUp' = ToppedUp
      BY <1>2, <1>3, <3>2, TopUpsStay
    <3>4. profile' = [profile EXCEPT !.credit = PaidCredit, !.frozen = "no"]
          /\ granted' = granted + PaidCredit - profile.credit /\ overwritten' = overwritten
      BY <3>1 DEF FinalizeUnfreeze
    <3>5. profile'.credit = PaidCredit
      BY <1>2, <3>4 DEF Profiles
    <3>6. QED
      BY <1>n, <3>3, <3>4, <3>5 DEF Numbers
  <2>3. CASE ~(\E w \in Ways : FinalizeUnfreeze(o, w) \/ (FinalizeTopUp(o, w) /\ Absent(o)))
    <3>o. \/ CreateTopUpOrder(o) \/ CreateUnfreezeOrder(o) \/ Approve(o) \/ Forget(o)
          \/ UnfreezeBegin(o) \/ UnfreezeReturn(o)
          \/ \E w \in Ways : Unrecorded(o, w) \/ Capture(o, w) \/ MarkCompleted(o, w)
          \/ \E w \in Ways : CaptureFails(o, w) \/ RequestCut(o, w)
          \/ \E w \in Ways : FinalizeTopUp(o, w) /\ ~Absent(o)
      BY <2>3 DEF OrderStep, Handles, TopUpBegin, TopUpReturn
    <3>1. UNCHANGED account
      <4>1. CASE CreateTopUpOrder(o) \/ CreateUnfreezeOrder(o)
        BY <4>1 DEF CreateTopUpOrder, CreateUnfreezeOrder, Opens
      <4>2. CASE Approve(o) \/ Forget(o) \/ UnfreezeBegin(o) \/ UnfreezeReturn(o)
        BY <4>2 DEF Approve, Forget, UnfreezeBegin, UnfreezeReturn
      <4>3. ASSUME NEW w \in Ways,
                   \/ Unrecorded(o, w) \/ Capture(o, w) \/ MarkCompleted(o, w)
                   \/ CaptureFails(o, w) \/ RequestCut(o, w)
            PROVE  UNCHANGED account
        BY <4>3 DEF Unrecorded, Capture, MarkCompleted, CaptureFails, RequestCut
      <4>4. ASSUME NEW w \in Ways, FinalizeTopUp(o, w), ~Absent(o) PROVE UNCHANGED account
        BY <4>4 DEF FinalizeTopUp, account
      <4>5. QED
        BY <3>o, <4>1, <4>2, <4>3, <4>4
    <3>2. \A p \in AllOrders : order'[p].rows = order[p].rows
      <4>1. CASE UNCHANGED order
        BY <4>1
      <4>2. CASE Approve(o)
        BY <1>2, <4>2 DEF Approve, OrderRows
      <4>3. CASE Forget(o)
        BY <1>2, <4>3 DEF Forget, OrderRows
      <4>4. CASE CreateTopUpOrder(o) \/ CreateUnfreezeOrder(o)
        <5>1. PICK mapped \in BOOLEAN :
                order' = [order EXCEPT ![o].paypal = "open", ![o].mapped = mapped]
          BY <4>4 DEF CreateTopUpOrder, CreateUnfreezeOrder, Opens
        <5>2. QED
          BY <1>2, <5>1 DEF OrderRows
      <4>5. CASE UnfreezeReturn(o)
        BY <1>2, <4>5 DEF UnfreezeReturn, OrderRows
      <4>6. ASSUME NEW w \in Ways, Capture(o, w) \/ CaptureFails(o, w) \/ MarkCompleted(o, w)
            PROVE  \A p \in AllOrders : order'[p].rows = order[p].rows
        <5>1. CASE Capture(o, w)
          BY <1>2, <5>1 DEF Capture, OrderRows
        <5>2. CASE CaptureFails(o, w)
          BY <1>2, <5>2 DEF CaptureFails, OrderRows
        <5>3. CASE MarkCompleted(o, w)
          BY <1>2, <5>3 DEF MarkCompleted, OrderRows
        <5>4. QED
          BY <4>6, <5>1, <5>2, <5>3
      <4>7. QED
        <5>1. ASSUME NEW w \in Ways,
                     \/ Unrecorded(o, w) \/ RequestCut(o, w)
                     \/ FinalizeTopUp(o, w) /\ ~Absent(o)
              PROVE  UNCHANGED order
          BY <5>1 DEF Unrecorded, RequestCut, FinalizeTopUp
        <5>2. UnfreezeBegin(o) => UNCHANGED order
          BY DEF UnfreezeBegin
        <5>3. QED
          BY <3>o, <4>1, <4>2, <4>3, <4>4, <4>5, <4>6, <5>1, <5>2
    <3>3. ToppedUp' = ToppedUp
      BY <1>3, <3>2, TopUpsStay
    <3>4. QED
      BY <3>1, <3>3 DEF account
  <2>4. QED
    BY <2>1, <2>2, <2>3
<1>5. Accounted'
  <2>1. profile'.credit - granted' - Winnings' - ToppedUp' + CashedOut'
          = profile.credit - granted - Winnings - ToppedUp + CashedOut
    BY <1>1, <1>4, <1>n DEF Numbers
  <2>2. QED
    BY <1>1, <1>4, <2>1, KeepsAccount DEF Books
<1>6. QED
  BY <1>1, <1>5 DEF Books

LEMMA RequestBooks ==
  ASSUME Inv, Inv', Books, NEW c \in Requests, RequestStep(c), UNCHANGED <<game, orders>>
  PROVE  Books'
<1> DEFINE a == Owed(request[c])
           a1 == Owed(request'[c])
<1>1. Winnings' = Winnings /\ ToppedUp' = ToppedUp
  BY GamesSame, OrdersSame
<1>2. /\ profile \in Profiles /\ RequestsInv
      /\ request \in [Requests -> Cashouts] /\ request' \in [Requests -> Cashouts]
      /\ deciding \in [Requests -> SUBSET Decisions]
  BY ProfileParts DEF Inv, RequestsInv
<1>3. deciding[c] # {} => a = 1
  BY DEF Books, Charged, Owed
<1>f. \A st \in {"approved", "rejected"} :
        a = 1 => Final(c, st) \notin {"absent", "none", "asked"}
  BY DEF Final, Owed
\* A step writes one request, and moves the credit with it.
<1>4. /\ \A e \in Requests \ {c} : request'[e] = request[e] /\ deciding'[e] = deciding[e]
      /\ deciding'[c] # {} => a1 = 1
      /\ UNCHANGED <<granted, overwritten>>
      /\ \E n \in {0, 1} :
           /\ request'[c].refunds = request[c].refunds + n
           /\ profile'.credit = profile.credit + Amount * a - Amount * a1 + Amount * n
  <2>1. Amount * 0 = 0 /\ Amount * 1 = Amount
    OBVIOUS
  <2>2. profile.credit \in Int /\ request[c].refunds \in Nat
    BY <1>2 DEF Profiles, Cashouts
  <2>s. ASSUME \A e \in Requests \ {c} : request'[e] = request[e] /\ deciding'[e] = deciding[e],
               a1 = a, deciding'[c] # {} => a = 1, UNCHANGED <<granted, overwritten>>,
               request'[c].refunds = request[c].refunds, profile'.credit = profile.credit
        PROVE  <1>4!:
    <3>1. a \in {0, 1}
      BY DEF Owed
    <3>2. profile'.credit = profile.credit + Amount * a - Amount * a1 + Amount * 0
      BY <2>1, <2>2, <2>s, <3>1
    <3>3. request'[c].refunds = request[c].refunds + 0
      BY <2>2, <2>s
    <3> HIDE DEF a, a1
    <3>4. QED
      BY <2>s, <3>2, <3>3
  <2>3. CASE AskCashout(c) \/ GrowOld(c)
    <3>1. UNCHANGED <<deciding, account>>
      BY <2>3 DEF AskCashout, GrowOld
    <3>2. a1 = a /\ request'[c].refunds = request[c].refunds
          /\ \A e \in Requests \ {c} : request'[e] = request[e]
      BY <1>2, <2>3 DEF AskCashout, GrowOld, Becomes, Owed, Cashouts
    <3>3. QED
      BY <1>3, <2>s, <3>1, <3>2 DEF account
  <2>4. CASE MakeRequest(c)
    <3>1. UNCHANGED <<deciding, granted, overwritten>> /\ request[c].status = "asked"
      BY <2>4 DEF MakeRequest
    <3>2. a = 0 /\ deciding[c] = {}
      BY <1>3, <3>1 DEF Owed
    <3>3. CASE profile.credit >= Amount
      <4>1. request' = [request EXCEPT ![c].status = "requested"]
            /\ profile' = [profile EXCEPT !.credit = profile.credit - Amount, !.locked = TRUE]
        BY <2>4, <3>3 DEF MakeRequest, Becomes
      <4>2. a1 = 1 /\ request'[c].refunds = request[c].refunds + 0
            /\ \A e \in Requests \ {c} : request'[e] = request[e]
        BY <1>2, <2>2, <4>1 DEF Owed, Cashouts
      <4>3. profile'.credit = profile.credit - Amount
        BY <1>2, <4>1 DEF Profiles
      <4> HIDE DEF a, a1
      <4>4. profile'.credit = profile.credit + Amount * a - Amount * a1 + Amount * 0
        BY <2>1, <2>2, <3>2, <4>2, <4>3
      <4>5. QED
        BY <3>1, <3>2, <4>2, <4>4
    <3>4. CASE ~(profile.credit >= Amount)
      <4>1. request' = [request EXCEPT ![c].status = "none"] /\ profile' = profile
        BY <2>4, <3>4 DEF MakeRequest, Becomes
      <4>2. a1 = 0 /\ request'[c].refunds = request[c].refunds
            /\ \A e \in Requests \ {c} : request'[e] = request[e]
        BY <1>2, <4>1 DEF Owed, Cashouts
      <4>3. QED
        BY <2>s, <3>1, <3>2, <4>1, <4>2
    <3>5. QED
      BY <3>3, <3>4
  <2>5. ASSUME NEW d \in Decisions, Consider(c, d) PROVE <1>4!:
    <3>1. UNCHANGED <<request, account>>
      BY <2>5 DEF Consider
    <3>2. deciding' = [deciding EXCEPT ![c] = deciding[c] \union {d}] /\ a = 1
      BY <2>5 DEF Consider, Allows, Owed
    <3>3. \A e \in Requests \ {c} : request'[e] = request[e] /\ deciding'[e] = deciding[e]
      BY <1>2, <3>1, <3>2
    <3>4. QED
      BY <2>s, <3>1, <3>2, <3>3 DEF account
  <2>6. ASSUME NEW d \in Decisions, RejectRequest(c, d) PROVE <1>4!:
    <3>1. request' = [request EXCEPT ![c].status = Final(c, "rejected"),
                                     ![c].refunds = request[c].refunds + 1,
                                     ![c].crossed = Crossing(c, d)]
      BY <1>2, <2>6 DEF RejectRequest
    <3>2. deciding' = [deciding EXCEPT ![c] = deciding[c] \ {d}] /\ d \in deciding[c]
      BY <2>6 DEF RejectRequest, Decided
    <3>3. profile' = [[profile EXCEPT !.credit = profile.credit + Amount] EXCEPT !.locked = FALSE]
      BY <2>6 DEF RejectRequest, Unlocked
    <3>4. profile'.credit = profile.credit + Amount
      BY <1>2, <3>3 DEF Profiles
    <3>5. a = 1
      BY <1>3, <3>2
    <3>6. request'[c].refunds = request[c].refunds + 1 /\ request'[c].status = Final(c, "rejected")
          /\ \A e \in Requests \ {c} : request'[e] = request[e] /\ deciding'[e] = deciding[e]
      BY <1>2, <3>1, <3>2 DEF Cashouts
    <3>7. a1 = 1
      BY <1>f, <3>5, <3>6 DEF Owed
    <3>8. UNCHANGED <<granted, overwritten>>
      BY <2>6 DEF RejectRequest
    <3> HIDE DEF a, a1
    <3>9. profile'.credit = profile.credit + Amount * a - Amount * a1 + Amount * 1
      BY <2>1, <2>2, <3>4, <3>5, <3>7
    <3>10. QED
      BY <3>6, <3>7, <3>8, <3>9
  <2>7. CASE ApproveRequest(c)
    <3>1. request' = [request EXCEPT ![c].status = Final(c, "approved")]
          /\ deciding' = [deciding EXCEPT ![c] = deciding[c] \ {"approve"}] /\ "approve" \in deciding[c]
          /\ profile' = [profile EXCEPT !.locked = FALSE] /\ UNCHANGED <<granted, overwritten>>
      BY <2>7 DEF ApproveRequest, Becomes, Decided
    <3>2. a = 1
      BY <1>3, <3>1
    <3>3. request'[c].status = Final(c, "approved") /\ request'[c].refunds = request[c].refunds
          /\ \A e \in Requests \ {c} : request'[e] = request[e] /\ deciding'[e] = deciding[e]
      BY <1>2, <3>1 DEF Cashouts
    <3>4. a1 = 1
      BY <1>f, <3>2, <3>3 DEF Owed
    <3>5. profile'.credit = profile.credit
      BY <1>2, <3>1 DEF Profiles
    <3>6. QED
      BY <2>s, <3>1, <3>2, <3>3, <3>4, <3>5
  <2>8. CASE PayOut(c) \/ ConfirmPayment(c) \/ MarkPaid(c) \/ DecisionCut(c)
    <3>1. UNCHANGED account
      BY <2>8 DEF PayOut, ConfirmPayment, MarkPaid, DecisionCut, account
    <3>2. a = 1
      BY <1>3, <2>8 DEF PayOut, ConfirmPayment, MarkPaid, DecisionCut
    <3>3. /\ request'[c].refunds = request[c].refunds
          /\ request'[c].status \in {request[c].status, "paid"}
          /\ \A e \in Requests \ {c} : request'[e] = request[e]
      <4>1. CASE PayOut(c)
        BY <1>2, <4>1 DEF PayOut, Cashouts
      <4>2. CASE MarkPaid(c)
        BY <1>2, <4>2 DEF MarkPaid, Becomes, Cashouts
      <4>3. CASE ConfirmPayment(c) \/ DecisionCut(c)
        BY <4>3 DEF ConfirmPayment, DecisionCut
      <4>4. QED
        BY <2>8, <4>1, <4>2, <4>3
    <3>4. \A e \in Requests \ {c} : deciding'[e] = deciding[e]
      BY <1>2, <2>8 DEF PayOut, ConfirmPayment, MarkPaid, DecisionCut, Decided, Proceed
    <3>5. a1 = 1
      BY <3>2, <3>3 DEF Owed
    <3>6. QED
      BY <2>s, <3>1, <3>2, <3>3, <3>4, <3>5 DEF account
  <2>9. QED
    BY <2>3, <2>4, <2>5, <2>6, <2>7, <2>8 DEF RequestStep
<1>5. PICK n \in {0, 1} :
        /\ request'[c].refunds = request[c].refunds + n
        /\ profile'.credit = profile.credit + Amount * a - Amount * a1 + Amount * n
  BY <1>4
<1>6. IsFiniteSet(Refunded') /\ CashedOut' = CashedOut + Amount * a1 - Amount * a - Amount * n
  <2>1. /\ RequestsInv /\ IsFiniteSet(Refunded) /\ request' \in [Requests -> Cashouts]
        /\ \A e \in Requests \ {c} : request'[e] = request[e]
        /\ request'[c].refunds = request[c].refunds + n
    BY <1>2, <1>4, <1>5 DEF Books
  <2>2. QED
    BY <2>1, CashoutsMove
<1>7. \A e \in Requests : deciding'[e] # {} => e \in Charged'
  <2> SUFFICES ASSUME NEW e \in Requests, deciding'[e] # {}
               PROVE  request'[e].status \notin {"absent", "none", "asked"}
    BY DEF Charged
  <2>1. CASE e = c
    BY <1>4, <2>1 DEF Owed
  <2>2. CASE e # c
    <3>1. deciding[e] # {} /\ request'[e] = request[e]
      BY <1>4, <2>2
    <3>2. QED
      BY <3>1 DEF Books, Charged
  <2>3. QED
    BY <2>1, <2>2
<1>8. Accounted'
  <2>1. Numbers /\ Numbers'
    BY <1>6, BooksTyped, BooksTypedNext DEF Books
  <2>2. Amount * a \in Int /\ Amount * a1 \in Int /\ Amount * n \in Int
    BY DEF Owed
  <2> HIDE DEF a, a1
  <2>3. profile'.credit - granted' - Winnings' - ToppedUp' + CashedOut'
          = profile.credit - granted - Winnings - ToppedUp + CashedOut
    BY <1>1, <1>4, <1>5, <1>6, <2>1, <2>2 DEF Numbers
  <2>4. QED
    BY <1>4, <1>6, <2>3, KeepsAccount DEF Books
<1>9. QED
  BY <1>6, <1>7, <1>8 DEF Books

LEMMA InitBooks == Init => Books
<1> SUFFICES ASSUME Init PROVE Books
  OBVIOUS
<1>1. PICK busy \in Loads : GamesInit(busy) /\ OrdersInit(busy) /\ RequestsInit(busy)
  BY DEF Init
<1>2. OverWith(2 * Stake) = {} /\ OverWith(-Stake) = {} /\ Staked = {}
  <2>1. \A g \in Games : game[g].st \in {"none", "absent"}
    BY <1>1 DEF GamesInit
  <2>2. QED
    BY <2>1 DEF OverWith, Staked
<1>3. {r \in Rows : r[1] \in TopUps} = {}
  <2>1. \A o \in AllOrders : order[o].rows = 0
    BY <1>1 DEF OrdersInit, NoOrder
  <2>2. QED
    BY <2>1 DEF Rows
<1>4. Charged = {} /\ Refunded = {}
  <2>1. \A c \in Requests : request[c].status \in {"none", "absent"} /\ request[c].refunds = 0
    BY <1>1 DEF RequestsInit
  <2>2. QED
    BY <2>1 DEF Charged, Refunded
<1>5. Cardinality({}) = 0 /\ IsFiniteSet({})
  BY FS_EmptySet
<1>6. Winnings = 0 /\ ToppedUp = 0 /\ CashedOut = 0
  <2>1. Winnings = Stake * (2 * 0 - 0 - 0)
    BY <1>2, <1>5, Zenon DEF Winnings
  <2>2. ToppedUp = TopUpCredit * 0
    BY <1>3, <1>5, Zenon DEF ToppedUp
  <2>3. CashedOut = Amount * (0 - 0)
    BY <1>4, <1>5, Zenon DEF CashedOut
  <2>4. QED
    BY <2>1, <2>2, <2>3
<1>7. \E c \in StartCredits : profile.credit = c /\ granted = 0
  BY DEF Init, AccountInit
<1>8. Accounted
  BY <1>6, <1>7 DEF Accounted
<1>9. QED
  BY <1>1, <1>4, <1>5, <1>8 DEF Books, RequestsInit

\* Whatever games, payments, cash-outs and tasks write the profile at once, and are cut
\* short, the credit is what the rows account for until a join, a cancellation or the
\* end of a freeze writes over a change it did not see (player_profile.rs:191).
THEOREM CreditIsAccounted == Spec => []Accounted
<1>1. Inv /\ Inv' /\ Books /\ [Next]_vars => Books'
  <2> SUFFICES ASSUME Inv, Inv', Books, [Next]_vars PROVE Books'
    OBVIOUS
  <2>1. CASE UNCHANGED vars
    <3>1. UNCHANGED <<account, game, orders, requests>>
      BY <2>1 DEF vars, account, orders, requests
    <3>2. Winnings' = Winnings /\ ToppedUp' = ToppedUp /\ CashedOut' = CashedOut
          /\ Refunded' = Refunded /\ \A c \in Requests : deciding'[c] # {} => c \in Charged'
      BY <3>1, GamesSame, OrdersSame, RequestsSame
    <3>3. QED
      BY <3>1, <3>2 DEF Books, Accounted, account
  <2>2. QED
    BY <2>1, TaskBooks, GameBooks, OrderBooks, RequestBooks DEF Next
<1>2. Books => Accounted
  BY DEF Books
<1>3. QED
  BY <1>1, <1>2, InitBooks, InvAlways, PTL DEF Spec
==============================================================================
