----------------------------- MODULE ClientProofs -----------------------------
(***************************************************************************)
(* At a table with one human whose connection holds, the page comes to show *)
(* what the server has, and the end of the game last, for every number of   *)
(* seats and rounds and however many events are under way.                  *)
(***************************************************************************)
EXTENDS Client, TLAPS
------------------------------------------------------------------------------
\* What is under way, by what it does to the page: a card of seat p, a card after which it
\* is p's turn, and an event that moves the turn, if any, to p.
CardBy(p, e) == e.type = "card_played" /\ e.seat = p
CardTo(p, e) == e.type = "card_played" /\ e.next = p
ToSeat(p, e) == e.type \in {"card_played", "turn_changed"} => e.next = p

Events(t) ==
  {CardPlayed(p, k, q) : p \in 0..t.n - 1, k \in 1..t.rounds, q \in 0..t.n - 1}
    \union {TurnChanged(p) : p \in 0..t.n - 1} \union {RoundCompleted(k) : k \in 1..t.rounds}
    \union {GameFinished}

\* Whoever has the turn, once s is handled p has: s moves it nowhere else, or ends with a
\* card that moves it there.
AllTo(p, s) == \A i \in DOMAIN s : ToSeat(p, s[i])
EndsTo(p, s) == \E i \in DOMAIN s : CardTo(p, s[i]) /\ \A j \in DOMAIN s : j > i => ToSeat(p, s[j])

\* The rounds of p's cards in s, that they come in order, and none after the end.
CardsBy(p, s) == {k \in Nat : \E i \in DOMAIN s : CardBy(p, s[i]) /\ s[i].card[2] = k}
Rising(p, s) ==
  \A i, j \in DOMAIN s :
    i < j /\ CardBy(p, s[i]) /\ CardBy(p, s[j]) => s[i].card[2] < s[j].card[2]
EndLast(p, s) ==
  \A i, j \in DOMAIN s : i < j /\ s[i].type = "game_finished" => ~CardBy(p, s[j])

HasCard(s) == \E i \in DOMAIN s : s[i].type = "card_played"
CardFirst(s) == \A i \in DOMAIN s : s[i].type = "card_played" => i = 1
Finishes(s) == \E i \in DOMAIN s : s[i].type = "game_finished"

LEMMA EventKinds ==
  ASSUME NEW t, NEW e \in Events(t)
  PROVE  \/ e.type = "card_played" /\ e.seat \in 0..t.n - 1 /\ e.next \in 0..t.n - 1
            /\ e.card[2] \in 1..t.rounds
         \/ e.type = "turn_changed" /\ e.next \in 0..t.n - 1
         \/ e.type = "round_completed"
         \/ e.type = "game_finished"
<1>1. CASE \E p, q \in 0..t.n - 1, k \in 1..t.rounds : e = CardPlayed(p, k, q)
  BY <1>1 DEF CardPlayed, Card
<1>2. CASE \E p \in 0..t.n - 1 : e = TurnChanged(p)
  BY <1>2 DEF TurnChanged
<1>3. CASE \E k \in 1..t.rounds : e = RoundCompleted(k)
  BY <1>3 DEF RoundCompleted
<1>4. CASE e = GameFinished
  BY <1>4 DEF GameFinished
<1>5. QED
  BY <1>1, <1>2, <1>3, <1>4 DEF Events

LEMMA AppendAt ==
  ASSUME NEW S, NEW s \in Seq(S), NEW e \in S
  PROVE  /\ Append(s, e) \in Seq(S) /\ Append(s, e) # <<>> /\ Len(s) \in Nat
         /\ DOMAIN s = 1..Len(s) /\ DOMAIN Append(s, e) = 1..(Len(s) + 1)
         /\ Len(Append(s, e)) = Len(s) + 1
         /\ \A i \in 1..Len(s) : Append(s, e)[i] = s[i]
         /\ Append(s, e)[Len(s) + 1] = e
OBVIOUS

LEMMA AppendedTwo ==
  ASSUME NEW S, NEW s \in Seq(S), NEW e \in S
  PROVE  /\ Len(s) = 1 => /\ Append(s, e) \in Seq(S) /\ Len(Append(s, e)) = 2
                          /\ DOMAIN Append(s, e) = 1..2
                          /\ Append(s, e)[1] = s[1] /\ Append(s, e)[2] = e
         /\ Len(s) = 2 => /\ DOMAIN Append(s, e) = 1..3
                          /\ Append(s, e)[1] = s[1] /\ Append(s, e)[2] = s[2]
                          /\ Append(s, e)[3] = e
<1> DEFINE t == Append(s, e)
<1>1. /\ t \in Seq(S) /\ DOMAIN t = 1..(Len(s) + 1) /\ Len(t) = Len(s) + 1
      /\ \A i \in 1..Len(s) : t[i] = s[i]
      /\ t[Len(s) + 1] = e
  BY AppendAt
<1> HIDE DEF t
<1>2. Len(s) = 1 => t \in Seq(S) /\ Len(t) = 2 /\ DOMAIN t = 1..2 /\ t[1] = s[1] /\ t[2] = e
  BY <1>1
<1>3. Len(s) = 2 => DOMAIN t = 1..3 /\ t[1] = s[1] /\ t[2] = s[2] /\ t[3] = e
  BY <1>1
<1>4. QED
  BY <1>2, <1>3, Zenon DEF t

LEMMA TailAt ==
  ASSUME NEW S, NEW s \in Seq(S), s # <<>>
  PROVE  /\ Tail(s) \in Seq(S) /\ Len(s) \in Nat \ {0} /\ Head(s) = s[1] /\ s[1] \in S
         /\ DOMAIN s = 1..Len(s) /\ DOMAIN Tail(s) = 1..(Len(s) - 1)
         /\ \A i \in 1..(Len(s) - 1) : Tail(s)[i] = s[i + 1]
         /\ \A i \in 2..Len(s) : s[i] = Tail(s)[i - 1] /\ i - 1 \in 1..(Len(s) - 1)
OBVIOUS

\* Events arrive one by one at the end, and are handled one by one at the front.
LEMMA AppendTurn ==
  ASSUME NEW p, NEW S, NEW s \in Seq(S), NEW e \in S
  PROVE  /\ AllTo(p, Append(s, e)) <=> AllTo(p, s) /\ ToSeat(p, e)
         /\ EndsTo(p, Append(s, e)) <=> CardTo(p, e) \/ (EndsTo(p, s) /\ ToSeat(p, e))
<1> DEFINE t == Append(s, e)  n == Len(s)
<1>1. /\ n \in Nat /\ DOMAIN s = 1..n /\ DOMAIN t = 1..(n + 1)
      /\ \A i \in 1..n : t[i] = s[i]
      /\ t[n + 1] = e
  BY AppendAt
<1> HIDE DEF t, n
<1>2. AllTo(p, t) <=> AllTo(p, s) /\ ToSeat(p, e)
  BY <1>1 DEF AllTo
<1>3. EndsTo(p, t) => CardTo(p, e) \/ (EndsTo(p, s) /\ ToSeat(p, e))
  BY <1>1 DEF EndsTo
<1>4. CardTo(p, e) => EndsTo(p, t)
  BY <1>1 DEF EndsTo
<1>5. EndsTo(p, s) /\ ToSeat(p, e) => EndsTo(p, t)
  <2> SUFFICES ASSUME NEW i \in 1..n, CardTo(p, s[i]), \A j \in 1..n : j > i => ToSeat(p, s[j]), ToSeat(p, e)
               PROVE  EndsTo(p, t)
    BY <1>1 DEF EndsTo
  <2>1. i \in 1..(n + 1) /\ CardTo(p, t[i])
    BY <1>1
  <2>2. \A j \in 1..(n + 1) : j > i => ToSeat(p, t[j])
    <3>1. \A j \in 1..(n + 1) : j \in 1..n \/ j = n + 1
      BY <1>1
    <3>2. QED
      BY <1>1, <3>1
  <2>3. QED
    BY <1>1, <2>1, <2>2 DEF EndsTo
<1>6. QED
  BY <1>2, <1>3, <1>4, <1>5 DEF t

LEMMA TailTurn ==
  ASSUME NEW p, NEW S, NEW s \in Seq(S), s # <<>>
  PROVE  /\ AllTo(p, s) <=> ToSeat(p, Head(s)) /\ AllTo(p, Tail(s))
         /\ EndsTo(p, s) <=> EndsTo(p, Tail(s)) \/ (CardTo(p, Head(s)) /\ AllTo(p, Tail(s)))
<1> DEFINE t == Tail(s)  n == Len(s)
<1>1. /\ n \in Nat \ {0} /\ DOMAIN s = 1..n /\ DOMAIN t = 1..(n - 1) /\ Head(s) = s[1]
      /\ \A i \in 1..(n - 1) : t[i] = s[i + 1]
      /\ \A i \in 2..n : s[i] = t[i - 1] /\ i - 1 \in 1..(n - 1)
  BY TailAt
<1> HIDE DEF t, n
<1>2. AllTo(p, s) => ToSeat(p, Head(s)) /\ AllTo(p, t)
  <2>1. 1 \in 1..n /\ \A i \in 1..(n - 1) : i + 1 \in 1..n
    BY <1>1
  <2>2. QED
    BY <1>1, <2>1 DEF AllTo
<1>3. ToSeat(p, Head(s)) /\ AllTo(p, t) => AllTo(p, s)
  <2>1. \A i \in 1..n : i = 1 \/ i \in 2..n
    BY <1>1
  <2>2. QED
    BY <1>1, <2>1 DEF AllTo
<1>4. EndsTo(p, s) => EndsTo(p, t) \/ (CardTo(p, Head(s)) /\ AllTo(p, t))
  <2> SUFFICES ASSUME NEW i \in 1..n, CardTo(p, s[i]), \A j \in 1..n : j > i => ToSeat(p, s[j])
               PROVE  EndsTo(p, t) \/ (CardTo(p, Head(s)) /\ AllTo(p, t))
    BY <1>1 DEF EndsTo
  <2>1. CASE i = 1
    <3>1. \A j \in 1..(n - 1) : j + 1 \in 1..n /\ j + 1 > 1
      BY <1>1
    <3>2. QED
      BY <1>1, <2>1, <3>1 DEF AllTo
  <2>2. CASE i # 1
    <3>1. i \in 2..n
      BY <1>1, <2>2
    <3>2. CardTo(p, t[i - 1]) /\ i - 1 \in DOMAIN t
      BY <1>1, <3>1
    <3>3. \A j \in 1..(n - 1) : j > i - 1 => j + 1 \in 1..n /\ j + 1 > i
      BY <1>1
    <3>4. QED
      BY <1>1, <3>2, <3>3 DEF EndsTo
  <2>3. QED
    BY <2>1, <2>2
<1>5. EndsTo(p, t) => EndsTo(p, s)
  <2> SUFFICES ASSUME NEW i \in 1..(n - 1), CardTo(p, t[i]), \A j \in 1..(n - 1) : j > i => ToSeat(p, t[j])
               PROVE  EndsTo(p, s)
    BY <1>1 DEF EndsTo
  <2>1. i + 1 \in 1..n /\ CardTo(p, s[i + 1])
    BY <1>1
  <2>2. ASSUME NEW j \in 1..n, j > i + 1 PROVE ToSeat(p, s[j])
    <3>1. j \in 2..n /\ j - 1 > i
      BY <1>1, <2>2
    <3>2. QED
      BY <1>1, <3>1
  <2>3. QED
    BY <1>1, <2>1, <2>2 DEF EndsTo
<1>6. CardTo(p, Head(s)) /\ AllTo(p, t) => EndsTo(p, s)
  <2> SUFFICES ASSUME CardTo(p, s[1]), AllTo(p, t) PROVE EndsTo(p, s)
    BY <1>1
  <2>1. \A j \in 1..n : j > 1 => j \in 2..n
    BY <1>1
  <2>2. \A j \in 1..n : j > 1 => ToSeat(p, s[j])
    BY <1>1, <2>1 DEF AllTo
  <2>3. 1 \in DOMAIN s
    BY <1>1
  <2>4. QED
    BY <1>1, <2>2, <2>3 DEF EndsTo
<1>7. QED
  BY <1>2, <1>3, <1>4, <1>5, <1>6 DEF t

LEMMA AppendCards ==
  ASSUME NEW p, NEW S, NEW s \in Seq(S), NEW e \in S, CardBy(p, e) => e.card[2] \in Nat
  PROVE  /\ CardsBy(p, Append(s, e)) = CardsBy(p, s) \union (IF CardBy(p, e) THEN {e.card[2]} ELSE {})
         /\ /\ Rising(p, s)
            /\ CardBy(p, e) => \A k \in CardsBy(p, s) : k < e.card[2]
            /\ \A i \in DOMAIN s : CardBy(p, s[i]) => s[i].card[2] \in Nat
            => Rising(p, Append(s, e))
         /\ HasCard(s) => HasCard(Append(s, e))
         /\ Finishes(Append(s, e)) <=> Finishes(s) \/ e.type = "game_finished"
         /\ EndLast(p, s) /\ (Finishes(s) => ~CardBy(p, e)) => EndLast(p, Append(s, e))
<1> DEFINE t == Append(s, e)  n == Len(s)
<1>1. /\ n \in Nat /\ DOMAIN s = 1..n /\ DOMAIN t = 1..(n + 1)
      /\ \A i \in 1..n : t[i] = s[i]
      /\ t[n + 1] = e
  BY AppendAt
<1> HIDE DEF t, n
<1>2. \A j \in 1..(n + 1) : j \in 1..n \/ j = n + 1
  BY <1>1
<1>3. n + 1 \in 1..(n + 1) /\ \A j \in 1..n : j \in 1..(n + 1)
  BY <1>1
<1>4. CardsBy(p, t) = CardsBy(p, s) \union (IF CardBy(p, e) THEN {e.card[2]} ELSE {})
  <2>1. ASSUME NEW k \in CardsBy(p, t) PROVE k \in CardsBy(p, s) \/ (CardBy(p, e) /\ k = e.card[2])
    BY <1>1, <1>2, <2>1 DEF CardsBy
  <2>2. ASSUME NEW k \in CardsBy(p, s) PROVE k \in CardsBy(p, t)
    BY <1>1, <1>3, <2>2 DEF CardsBy
  <2>3. CardBy(p, e) => e.card[2] \in CardsBy(p, t)
    BY <1>1, <1>3 DEF CardsBy
  <2>4. QED
    BY <2>1, <2>2, <2>3
<1>5. /\ Rising(p, s)
      /\ CardBy(p, e) => \A k \in CardsBy(p, s) : k < e.card[2]
      /\ \A i \in DOMAIN s : CardBy(p, s[i]) => s[i].card[2] \in Nat
      => Rising(p, t)
  <2> SUFFICES ASSUME Rising(p, s), CardBy(p, e) => \A k \in CardsBy(p, s) : k < e.card[2],
                      \A i \in 1..n : CardBy(p, s[i]) => s[i].card[2] \in Nat,
                      NEW i \in 1..(n + 1), NEW j \in 1..(n + 1), i < j, CardBy(p, t[i]), CardBy(p, t[j])
               PROVE  t[i].card[2] < t[j].card[2]
    BY <1>1 DEF Rising
  <2>1. i \in 1..n /\ t[i] = s[i]
    BY <1>1
  <2>2. CASE j \in 1..n
    BY <1>1, <2>1, <2>2 DEF Rising
  <2>3. CASE j = n + 1
    <3>1. s[i].card[2] \in CardsBy(p, s)
      BY <1>1, <2>1 DEF CardsBy
    <3>2. QED
      BY <1>1, <2>1, <2>3, <3>1
  <2>4. QED
    BY <1>2, <2>2, <2>3
<1>6. HasCard(s) => HasCard(t)
  BY <1>1, <1>3 DEF HasCard
<1>7. Finishes(t) <=> Finishes(s) \/ e.type = "game_finished"
  BY <1>1, <1>2, <1>3 DEF Finishes
<1>8. EndLast(p, s) /\ (Finishes(s) => ~CardBy(p, e)) => EndLast(p, t)
  <2> SUFFICES ASSUME EndLast(p, s), Finishes(s) => ~CardBy(p, e),
                      NEW i \in 1..(n + 1), NEW j \in 1..(n + 1), i < j, t[i].type = "game_finished"
               PROVE  ~CardBy(p, t[j])
    BY <1>1 DEF EndLast
  <2>1. i \in 1..n /\ t[i] = s[i]
    BY <1>1
  <2>2. CASE j \in 1..n
    BY <1>1, <2>1, <2>2 DEF EndLast
  <2>3. CASE j = n + 1
    BY <1>1, <2>1, <2>3 DEF Finishes
  <2>4. QED
    BY <1>2, <2>2, <2>3
<1>9. QED
  BY <1>4, <1>5, <1>6, <1>7, <1>8 DEF t

LEMMA TailCards ==
  ASSUME NEW p, NEW S, NEW s \in Seq(S), s # <<>>
  PROVE  /\ CardsBy(p, Tail(s)) \subseteq CardsBy(p, s)
         /\ ~CardBy(p, Head(s)) => CardsBy(p, Tail(s)) = CardsBy(p, s)
         /\ /\ CardBy(p, Head(s)) /\ Head(s).card[2] \in Nat /\ Rising(p, s)
            => /\ Head(s).card[2] \in CardsBy(p, s)
               /\ CardsBy(p, Tail(s)) = CardsBy(p, s) \ {Head(s).card[2]}
         /\ Rising(p, s) => Rising(p, Tail(s))
         /\ CardFirst(s) => /\ CardFirst(Tail(s)) /\ CardsBy(p, Tail(s)) = {}
                            /\ \A i \in DOMAIN Tail(s) : Tail(s)[i].type # "card_played"
         /\ HasCard(s) <=> Head(s).type = "card_played" \/ HasCard(Tail(s))
         /\ Finishes(s) <=> Head(s).type = "game_finished" \/ Finishes(Tail(s))
         /\ EndLast(p, s) => EndLast(p, Tail(s))
         /\ EndLast(p, s) /\ Head(s).type = "game_finished" => CardsBy(p, Tail(s)) = {}
<1> DEFINE t == Tail(s)  n == Len(s)  h == Head(s)
<1>1. /\ n \in Nat \ {0} /\ DOMAIN s = 1..n /\ DOMAIN t = 1..(n - 1) /\ h = s[1]
      /\ \A i \in 1..(n - 1) : t[i] = s[i + 1]
      /\ \A i \in 2..n : s[i] = t[i - 1] /\ i - 1 \in 1..(n - 1)
  BY TailAt
<1> HIDE DEF t, n, h
<1>2. /\ \A i \in 1..n : i = 1 \/ i \in 2..n
      /\ \A i \in 1..(n - 1) : i + 1 \in 1..n /\ i + 1 > 1 /\ i + 1 # 1
      /\ 1 \in 1..n
  BY <1>1
<1>3. CardsBy(p, t) \subseteq CardsBy(p, s)
  <2> SUFFICES ASSUME NEW k \in CardsBy(p, t) PROVE k \in CardsBy(p, s)
    OBVIOUS
  <2>1. PICK i \in 1..(n - 1) : CardBy(p, t[i]) /\ t[i].card[2] = k
    BY <1>1 DEF CardsBy
  <2>2. i + 1 \in DOMAIN s /\ CardBy(p, s[i + 1]) /\ s[i + 1].card[2] = k
    BY <1>1, <1>2, <2>1
  <2>3. QED
    BY <2>2 DEF CardsBy
<1>4. ~CardBy(p, h) => CardsBy(p, t) = CardsBy(p, s)
  <2> SUFFICES ASSUME ~CardBy(p, h), NEW k \in CardsBy(p, s) PROVE k \in CardsBy(p, t)
    BY <1>3
  <2>1. PICK i \in 1..n : CardBy(p, s[i]) /\ s[i].card[2] = k
    BY <1>1 DEF CardsBy
  <2>2. i \in 2..n
    BY <1>1, <1>2, <2>1
  <2>3. QED
    BY <1>1, <2>1, <2>2 DEF CardsBy
<1>5. CardBy(p, h) /\ h.card[2] \in Nat /\ Rising(p, s)
      => h.card[2] \in CardsBy(p, s) /\ CardsBy(p, t) = CardsBy(p, s) \ {h.card[2]}
  <2> SUFFICES ASSUME CardBy(p, h), h.card[2] \in Nat, Rising(p, s)
               PROVE  h.card[2] \in CardsBy(p, s) /\ CardsBy(p, t) = CardsBy(p, s) \ {h.card[2]}
    OBVIOUS
  <2>1. h.card[2] \in CardsBy(p, s)
    BY <1>1, <1>2 DEF CardsBy
  <2>2. ASSUME NEW k \in CardsBy(p, t) PROVE k # h.card[2]
    <3>1. PICK i \in 1..(n - 1) : CardBy(p, t[i]) /\ t[i].card[2] = k
      BY <1>1 DEF CardsBy
    <3>2. CardBy(p, s[i + 1]) /\ s[i + 1].card[2] = k /\ i + 1 \in 1..n /\ 1 < i + 1
      BY <1>1, <1>2, <3>1
    <3>3. h.card[2] < k
      BY <1>1, <1>2, <3>2 DEF Rising
    <3>4. k \in Nat
      BY DEF CardsBy
    <3>5. h.card[2] \in Int /\ k \in Int
      BY <3>4
    <3>6. QED
      BY <3>3, <3>5
  <2>3. ASSUME NEW k \in CardsBy(p, s), k # h.card[2] PROVE k \in CardsBy(p, t)
    <3>1. PICK i \in 1..n : CardBy(p, s[i]) /\ s[i].card[2] = k
      BY <1>1 DEF CardsBy
    <3>2. i \in 2..n
      BY <1>1, <1>2, <2>3, <3>1
    <3>3. QED
      BY <1>1, <3>1, <3>2 DEF CardsBy
  <2>4. QED
    BY <1>3, <2>1, <2>2, <2>3
<1>6. Rising(p, s) => Rising(p, t)
  <2> SUFFICES ASSUME Rising(p, s), NEW i \in 1..(n - 1), NEW j \in 1..(n - 1), i < j,
                      CardBy(p, t[i]), CardBy(p, t[j])
               PROVE  t[i].card[2] < t[j].card[2]
    BY <1>1 DEF Rising
  <2>1. i + 1 < j + 1 /\ i + 1 \in 1..n /\ j + 1 \in 1..n
    BY <1>1
  <2>2. t[i] = s[i + 1] /\ t[j] = s[j + 1]
    BY <1>1
  <2>3. CardBy(p, s[i + 1]) /\ CardBy(p, s[j + 1])
    BY <2>2
  <2>4. s[i + 1].card[2] < s[j + 1].card[2]
    BY <1>1, <2>1, <2>3 DEF Rising
  <2>5. QED
    BY <2>2, <2>4
<1>7. CardFirst(s) => CardFirst(t) /\ CardsBy(p, t) = {}
                      /\ \A i \in DOMAIN t : t[i].type # "card_played"
  <2> SUFFICES ASSUME CardFirst(s) PROVE \A i \in 1..(n - 1) : t[i].type # "card_played"
    BY <1>1 DEF CardFirst, CardsBy, CardBy
  <2>1. QED
    BY <1>1, <1>2 DEF CardFirst
<1>8. HasCard(s) <=> h.type = "card_played" \/ HasCard(t)
  <2>1. HasCard(s) => h.type = "card_played" \/ HasCard(t)
    BY <1>1, <1>2 DEF HasCard
  <2>2. h.type = "card_played" \/ HasCard(t) => HasCard(s)
    BY <1>1, <1>2 DEF HasCard
  <2>3. QED
    BY <2>1, <2>2
<1>9. Finishes(s) <=> h.type = "game_finished" \/ Finishes(t)
  <2>1. Finishes(s) => h.type = "game_finished" \/ Finishes(t)
    BY <1>1, <1>2 DEF Finishes
  <2>2. h.type = "game_finished" \/ Finishes(t) => Finishes(s)
    BY <1>1, <1>2 DEF Finishes
  <2>3. QED
    BY <2>1, <2>2
<1>10. EndLast(p, s) => EndLast(p, t)
  <2> SUFFICES ASSUME EndLast(p, s), NEW i \in 1..(n - 1), NEW j \in 1..(n - 1), i < j,
                      t[i].type = "game_finished"
               PROVE  ~CardBy(p, t[j])
    BY <1>1 DEF EndLast
  <2>1. i + 1 < j + 1 /\ i + 1 \in 1..n /\ j + 1 \in 1..n
    BY <1>1
  <2>2. QED
    BY <1>1, <2>1 DEF EndLast
<1>11. EndLast(p, s) /\ h.type = "game_finished" => CardsBy(p, t) = {}
  <2> SUFFICES ASSUME EndLast(p, s), h.type = "game_finished",
                      NEW j \in 1..(n - 1), CardBy(p, t[j])
               PROVE  FALSE
    BY <1>1 DEF CardsBy
  <2>1. j + 1 \in 1..n /\ 1 \in 1..n /\ 1 < j + 1 /\ t[j] = s[j + 1]
    BY <1>1
  <2>2. QED
    BY <1>1, <2>1 DEF EndLast
<1>12. QED
  BY <1>3, <1>4, <1>5, <1>6, <1>7, <1>8, <1>9, <1>10, <1>11 DEF t, h
------------------------------------------------------------------------------
\* What the operations of the store leave in the fields that matter here.

IsPage(pg) ==
  DOMAIN pg = {"turn", "deck", "hand", "queue", "chain", "replaying", "timer", "reveal",
               "winner", "claim", "pending", "over", "connected", "held"}

\* The fields of the replay, and those a replay leaves alone.
Replaying(pg, queue, chain, replaying, timer) ==
  /\ pg.queue = queue /\ pg.chain = chain /\ pg.replaying = replaying /\ pg.timer = timer
SameEnd(pg, new) == new.over = pg.over /\ new.pending = pg.pending
SameLink(pg, new) ==
  new.reveal = pg.reveal /\ new.connected = pg.connected /\ new.held = pg.held
SameReplay(pg, new) == Replaying(new, pg.queue, pg.chain, pg.replaying, pg.timer)

LEMMA CancelledPage ==
  ASSUME NEW pg, IsPage(pg)
  PROVE  LET new == Cancelled(pg) IN
         /\ IsPage(new) /\ Replaying(new, <<>>, FALSE, FALSE, "none")
         /\ new.turn = pg.turn /\ new.hand = pg.hand
         /\ new.over = (pg.over \/ pg.pending) /\ new.pending = FALSE
         /\ new.reveal = None /\ new.connected = pg.connected /\ new.held = pg.held
<1> DEFINE o == pg.over \/ pg.pending
           new == [pg EXCEPT !.queue = <<>>, !.chain = FALSE, !.replaying = FALSE,
                             !.reveal = None, !.timer = "none", !.over = o, !.pending = FALSE]
<1>1. Cancelled(pg) = new
  BY Zenon DEF Cancelled
<1> HIDE DEF o
<1>2. IsPage(new) /\ Replaying(new, <<>>, FALSE, FALSE, "none")
      /\ new.turn = pg.turn /\ new.hand = pg.hand /\ new.over = o /\ new.pending = FALSE
      /\ new.reveal = None /\ new.connected = pg.connected /\ new.held = pg.held
  BY DEF IsPage, Replaying
<1> HIDE DEF new
<1>3. QED
  BY <1>1, <1>2, Zenon DEF o

LEMMA AppliedPage ==
  ASSUME NEW pg, IsPage(pg), NEW e
  PROVE  LET new == Applied(pg, e) IN
         /\ IsPage(new) /\ SameReplay(pg, new) /\ SameEnd(pg, new) /\ SameLink(pg, new)
         /\ new.turn = e.next
         /\ new.hand = IF e.seat = Me THEN pg.hand \ {e.card[2]} ELSE pg.hand
<1> DEFINE h == IF e.seat = Me THEN pg.hand \ {e.card[2]} ELSE pg.hand
           d == IF Len(pg.deck) < table.n THEN Append(pg.deck, e.card) ELSE pg.deck
           new == [pg EXCEPT !.hand = h, !.deck = d, !.turn = e.next]
<1>1. Applied(pg, e) = new
  BY Zenon DEF Applied
<1> HIDE DEF h, d
<1>2. IsPage(new) /\ SameReplay(pg, new) /\ SameEnd(pg, new) /\ SameLink(pg, new)
      /\ new.turn = e.next /\ new.hand = h
  BY DEF IsPage, Replaying, SameReplay, SameEnd, SameLink
<1> HIDE DEF new
<1>3. QED
  BY <1>1, <1>2, Zenon DEF h

LEMMA ShownPage ==
  ASSUME NEW pg, IsPage(pg), NEW e
  PROVE  LET new == Shown(pg, e) IN
         /\ IsPage(new) /\ SameReplay(pg, new) /\ SameEnd(pg, new) /\ SameLink(pg, new)
         /\ new.turn = e.next
         /\ new.hand = IF e.seat = Me THEN pg.hand \ {e.card[2]} ELSE pg.hand
<1> DEFINE mid == Applied(pg, e)
<1>1. /\ IsPage(mid) /\ SameReplay(pg, mid) /\ SameEnd(pg, mid) /\ SameLink(pg, mid)
      /\ mid.turn = e.next
      /\ mid.hand = IF e.seat = Me THEN pg.hand \ {e.card[2]} ELSE pg.hand
  BY AppliedPage
<1>2. Shown(pg, e) = [mid EXCEPT !.winner = FALSE]
  BY DEF Shown
<1> HIDE DEF mid
<1>3. QED
  BY <1>1, <1>2 DEF IsPage, Replaying, SameReplay, SameEnd, SameLink

LEMMA QueuedPage ==
  ASSUME NEW pg, IsPage(pg), NEW e
  PROVE  LET new == Queued(pg, e) IN
         /\ IsPage(new) /\ Replaying(new, Append(pg.queue, e), pg.chain, pg.replaying, pg.timer)
         /\ SameEnd(pg, new) /\ SameLink(pg, new) /\ new.turn = pg.turn /\ new.hand = pg.hand
BY DEF IsPage, Queued, Replaying, SameEnd, SameLink

LEMMA BotReplayPage ==
  ASSUME NEW pg, IsPage(pg)
  PROVE  LET new == BotReplay(pg) IN
         /\ IsPage(new) /\ SameEnd(pg, new) /\ SameLink(pg, new)
         /\ new.turn = pg.turn /\ new.hand = pg.hand
         /\ IF pg.replaying \/ pg.queue = <<>> THEN SameReplay(pg, new)
            ELSE Replaying(new, pg.queue, pg.chain, TRUE, "bot")
<1>1. CASE pg.replaying \/ pg.queue = <<>>
  BY <1>1 DEF BotReplay, SameReplay, Replaying, SameEnd, SameLink
<1>2. CASE ~(pg.replaying \/ pg.queue = <<>>)
  BY <1>2 DEF BotReplay, IsPage, Replaying, SameEnd, SameLink
<1>3. QED
  BY <1>1, <1>2

LEMMA DrainedPage ==
  ASSUME NEW pg, IsPage(pg)
  PROVE  LET new == Drained(pg) IN
         /\ IsPage(new) /\ Replaying(new, pg.queue, FALSE, FALSE, "none") /\ SameLink(pg, new)
         /\ new.turn = pg.turn /\ new.hand = pg.hand
         /\ new.over = (pg.over \/ pg.pending) /\ new.pending = FALSE
<1> DEFINE o == pg.over \/ pg.pending
           new == [pg EXCEPT !.replaying = FALSE, !.chain = FALSE, !.timer = "none",
                             !.over = o, !.pending = FALSE]
<1>1. Drained(pg) = new
  BY Zenon DEF Drained
<1> HIDE DEF o
<1>2. IsPage(new) /\ Replaying(new, pg.queue, FALSE, FALSE, "none") /\ SameLink(pg, new)
      /\ new.turn = pg.turn /\ new.hand = pg.hand /\ new.over = o /\ new.pending = FALSE
  BY DEF IsPage, Replaying, SameLink
<1> HIDE DEF new
<1>3. QED
  BY <1>1, <1>2, Zenon DEF o

\* The next entry of the queue, by its head: the end of a round, or a card.
LEMMA ReplayedRound ==
  ASSUME NEW pg, IsPage(pg), pg.queue # <<>>, Head(pg.queue).type = "round_completed"
  PROVE  LET new == ReplayNext(pg) IN
         /\ IsPage(new) /\ Replaying(new, Tail(pg.queue), pg.chain, pg.replaying, "pause")
         /\ SameEnd(pg, new) /\ SameLink(pg, new) /\ new.turn = pg.turn /\ new.hand = pg.hand
BY DEF IsPage, ReplayNext, Replaying, SameEnd, SameLink

LEMMA ReplayedCard ==
  ASSUME NEW pg, IsPage(pg), pg.queue # <<>>, Head(pg.queue).type = "card_played",
         Head(pg.queue).seat # Me
  PROVE  LET new == ReplayNext(pg) IN
         /\ IsPage(new)
         /\ \E timer \in {"pause", "bot"} :
              Replaying(new, Tail(pg.queue), pg.chain, pg.replaying, timer)
         /\ SameEnd(pg, new) /\ SameLink(pg, new)
         /\ new.turn = Head(pg.queue).next /\ new.hand = pg.hand
<1> DEFINE on == [pg EXCEPT !.queue = Tail(pg.queue)]
           mid == Applied(on, Head(pg.queue))
           timer == IF Tail(pg.queue) # <<>> /\ Head(Tail(pg.queue)).type = "round_completed"
                    THEN "pause" ELSE "bot"
<1>1. /\ IsPage(on) /\ Replaying(on, Tail(pg.queue), pg.chain, pg.replaying, pg.timer)
      /\ SameEnd(pg, on) /\ SameLink(pg, on) /\ on.hand = pg.hand
  BY DEF IsPage, Replaying, SameEnd, SameLink
<1>2. ReplayNext(pg) = [mid EXCEPT !.timer = timer] /\ timer \in {"pause", "bot"}
  BY DEF ReplayNext
<1> HIDE DEF on
<1>3. /\ IsPage(mid) /\ SameReplay(on, mid) /\ SameEnd(on, mid) /\ SameLink(on, mid)
      /\ mid.turn = Head(pg.queue).next /\ mid.hand = on.hand
  BY <1>1, AppliedPage
<1> HIDE DEF mid, timer
<1>4. QED
  BY <1>1, <1>2, <1>3 DEF IsPage, Replaying, SameReplay, SameEnd, SameLink
------------------------------------------------------------------------------
\* The invariant of a calm table.

TableOK ==
  /\ table.n \in Nat \ {0, 1} /\ Rounds \in Nat \ {0}
  /\ Me \in Seat /\ table.human = {Me} /\ table.claim = FALSE

Typed ==
  /\ srv \in [turn : Seat, round : 1..Rounds, trick : Seq(Seat), claim : {FALSE}, over : BOOLEAN]
  /\ last \in Seat /\ out \in [{Scan} \union Seat -> Seq(Events(table))]
  /\ wire \in Seq(Events(table)) /\ page.queue \in Seq(Events(table)) /\ IsPage(page)

\* Once the queue is replayed, it is p's turn; once s has been handled before that, too.
After(p, pg) == EndsTo(p, pg.queue) \/ (AllTo(p, pg.queue) /\ pg.turn = p)
ComesTo(p, s, pg) == EndsTo(p, s) \/ (AllTo(p, s) /\ After(p, pg))
Coming == ComesTo(Me, wire, page)

\* Only the seat that played last may have events that move the turn away from the player,
\* and not once the player is to move.
TurnInv ==
  /\ \A a \in Seat : a # last => AllTo(Me, out[a])
  /\ srv.turn = Me /\ ~srv.over => AllTo(Me, out[last]) /\ (HasCard(out[last]) \/ Coming)

\* The hand is the cards not played yet and those whose events are on their way, each once.
HandInv ==
  /\ Rising(Me, wire) /\ \A k \in CardsBy(Me, wire) : k <= MyPlays
  /\ \A k \in CardsBy(Me, out[Me]) : k = MyPlays /\ k \notin CardsBy(Me, wire)
  /\ \A a \in Seat : CardFirst(out[a]) /\ (a # Me => CardsBy(Me, out[a]) = {})
  /\ page.hand = {k \in 1..Rounds : k > MyPlays} \union CardsBy(Me, wire) \union CardsBy(Me, out[Me])

\* The end of the game comes after the player's last card.
OverInv ==
  /\ \A a \in Seat : Finishes(out[a]) => a = last /\ srv.over
  /\ last # Me => out[Me] = <<>>
  /\ Finishes(wire) \/ page.pending => srv.over /\ CardsBy(Me, out[Me]) = {}
  /\ page.pending => CardsBy(Me, wire) = {}
  /\ EndLast(Me, wire)

\* The queue holds cards of bots and ends of rounds, and a replay has a timer.
Queueable(p, e) == e.type \in {"card_played", "round_completed"} /\ ~CardBy(p, e)
QueueOK(p, pg) ==
  /\ \A i \in DOMAIN pg.queue : Queueable(p, pg.queue[i])
  /\ pg.queue # <<>> => pg.chain \/ pg.replaying
  /\ pg.timer \in {"none", "bot", "pause"}
  /\ pg.replaying <=> pg.timer # "none"
  /\ ~pg.replaying => \A i \in DOMAIN pg.queue : ~CardTo(p, pg.queue[i])
QueueInv == QueueOK(Me, page)

\* Nothing of a reconnection.
LinkOK(pg) == pg.reveal = None /\ pg.held = None /\ pg.connected
LinkInv == LinkOK(page) /\ conn = "up" /\ snap = None /\ out[Scan] = <<>>

\* The seats that have played in a trick follow one another from the one that led it.
Dist(n, a, b) == IF b >= a THEN b - a ELSE b - a + n
Led(lead) ==
  /\ Dist(table.n, lead, srv.turn) = Len(srv.trick) /\ Len(srv.trick) < table.n
  /\ Me \in ToSet(srv.trick) <=> Dist(table.n, lead, Me) < Len(srv.trick)
RoundInv == ~srv.over => \E lead \in Seat : Led(lead)

Core == TableOK /\ Typed /\ TurnInv /\ HandInv /\ OverInv /\ QueueInv /\ LinkInv /\ RoundInv
Inv == table \in Tables /\ drops \in Nat /\ (Calm => Core)

LEMMA CalmTable ==
  ASSUME table \in Tables, Calm
  PROVE  TableOK
BY TablesAssumption DEF Calm, TableOK, Rounds, Seat, Me
------------------------------------------------------------------------------
\* A card.

LEMMA NextPosition ==
  ASSUME NEW n \in Nat \ {0}, NEW p \in 0..n - 1
  PROVE  (p + 1) % n = IF p = n - 1 THEN 0 ELSE p + 1
<1>1. CASE p = n - 1
  BY <1>1, Z3
<1>2. CASE p # n - 1
  BY <1>2, Z3
<1>3. QED
  BY <1>1, <1>2

LEMMA DistSame ==
  ASSUME NEW n \in Nat \ {0}, NEW a \in 0..n - 1, NEW b \in 0..n - 1, NEW c \in 0..n - 1,
         Dist(n, a, b) = Dist(n, a, c)
  PROVE  b = c
BY DEF Dist

LEMMA DistStep ==
  ASSUME NEW n \in Nat \ {0}, NEW a \in 0..n - 1, NEW b \in 0..n - 1
  PROVE  /\ Dist(n, a, b) \in 0..n - 1 /\ Dist(n, a, a) = 0
         /\ Dist(n, a, b) # n - 1 => Dist(n, a, (b + 1) % n) = Dist(n, a, b) + 1
<1>1. (b + 1) % n = IF b = n - 1 THEN 0 ELSE b + 1
  BY NextPosition
<1> DEFINE d == (b + 1) % n
<1> HIDE DEF d
<1>2. Dist(n, a, b) # n - 1 => Dist(n, a, d) = Dist(n, a, b) + 1
  BY <1>1 DEF Dist, d
<1>3. QED
  BY <1>2 DEF Dist, d

LEMMA JoinOne ==
  ASSUME NEW S, NEW s \in Seq(S), NEW e \in S
  PROVE  s \o <<e>> = Append(s, e) /\ s \o <<>> = s
OBVIOUS

\* What is published of a card: it comes first, and moves the turn only to the next seat.
Published(p, k, next, full, ended) ==
  <<CardPlayed(p, k, next)>>
    \o (IF ended THEN <<>> ELSE <<TurnChanged(next)>>)
    \o (IF full THEN <<RoundCompleted(k)>> ELSE <<>>)
    \o (IF ended THEN <<GameFinished>> ELSE <<>>)

LEMMA PublishedEvents ==
  ASSUME NEW p \in Seat, NEW k \in 1..Rounds, NEW next \in Seat,
         NEW full \in BOOLEAN, NEW ended \in BOOLEAN, ended => full
  PROVE  LET q == Published(p, k, next, full, ended) IN
         /\ q \in Seq(Events(table)) /\ CardFirst(q) /\ HasCard(q)
         /\ CardsBy(Me, q) = IF p = Me THEN {k} ELSE {}
         /\ Finishes(q) <=> ended
         /\ ~ended => AllTo(next, q)
<1> DEFINE S == Events(table)
           c == CardPlayed(p, k, next)
           T == TurnChanged(next)
           R == RoundCompleted(k)
           r1 == <<c>>
           r2 == IF ended THEN r1 ELSE Append(r1, T)
           r3 == IF full THEN Append(r2, R) ELSE r2
           r4 == IF ended THEN Append(r3, GameFinished) ELSE r3
<1>1. c \in S /\ T \in S /\ R \in S /\ GameFinished \in S
  BY DEF Events, Seat, Rounds
<1>2. /\ c.type = "card_played" /\ c.seat = p /\ c.next = next /\ c.card[2] = k /\ k \in Nat
      /\ T.type = "turn_changed" /\ T.next = next
      /\ R.type = "round_completed" /\ GameFinished.type = "game_finished"
  BY DEF CardPlayed, Card, TurnChanged, RoundCompleted, GameFinished
<1>11. Published(p, k, next, full, ended) =
        r1 \o (IF ended THEN <<>> ELSE <<T>>) \o (IF full THEN <<R>> ELSE <<>>)
           \o (IF ended THEN <<GameFinished>> ELSE <<>>)
  BY Zenon DEF Published
<1> HIDE DEF S, c, T, R
<1>3. r1 \in Seq(S) /\ Len(r1) = 1 /\ r1[1] = c
  BY <1>1
<1> HIDE DEF r1
<1>12. r2 \in Seq(S)
  BY <1>1, <1>3
<1>13. r1 \o (IF ended THEN <<>> ELSE <<T>>) = r2
  BY <1>1, <1>3, JoinOne
<1> HIDE DEF r2
<1>14. r3 \in Seq(S)
  BY <1>1, <1>12
<1>15. r2 \o (IF full THEN <<R>> ELSE <<>>) = r3
  BY <1>1, <1>12, JoinOne
<1> HIDE DEF r3
<1>16. r4 \in Seq(S)
  BY <1>1, <1>14
<1>17. r3 \o (IF ended THEN <<GameFinished>> ELSE <<>>) = r4
  BY <1>1, <1>14, JoinOne
<1>4. Published(p, k, next, full, ended) = r4 /\ r4 \in Seq(S)
  BY <1>11, <1>13, <1>15, <1>16, <1>17
<1>5. CASE ~full
  <2>0. r4 = Append(r1, T)
    BY <1>5 DEF r2, r3
  <2> HIDE DEF r4
  <2>1. DOMAIN r4 = 1..2 /\ r4[1] = c /\ r4[2] = T
    BY <1>1, <1>3, <2>0, AppendedTwo
  <2>2. CardFirst(r4) /\ HasCard(r4) /\ (Finishes(r4) <=> ended)
    BY <1>2, <1>5, <2>1 DEF CardFirst, HasCard, Finishes
  <2>3. CardsBy(Me, r4) = IF p = Me THEN {k} ELSE {}
    BY <1>2, <2>1 DEF CardsBy, CardBy
  <2>4. ~ended => AllTo(next, r4)
    BY <1>2, <1>5, <2>1 DEF AllTo, ToSeat
  <2>5. QED
    BY <1>4, <2>2, <2>3, <2>4 DEF r4, S
<1>6. CASE full /\ ~ended
  <2> DEFINE u == Append(r1, T)
  <2>0. r4 = Append(u, R)
    BY <1>6 DEF r2, r3
  <2>6. u \in Seq(S) /\ Len(u) = 2 /\ u[1] = c /\ u[2] = T
    BY <1>1, <1>3, AppendedTwo
  <2> HIDE DEF r4, u
  <2>1. DOMAIN r4 = 1..3 /\ r4[1] = c /\ r4[2] = T /\ r4[3] = R
    BY <1>1, <2>0, <2>6, AppendedTwo
  <2>2. CardFirst(r4) /\ HasCard(r4) /\ (Finishes(r4) <=> ended)
    BY <1>2, <1>6, <2>1 DEF CardFirst, HasCard, Finishes
  <2>3. CardsBy(Me, r4) = IF p = Me THEN {k} ELSE {}
    BY <1>2, <2>1 DEF CardsBy, CardBy
  <2>4. ~ended => AllTo(next, r4)
    BY <1>2, <1>6, <2>1 DEF AllTo, ToSeat
  <2>5. QED
    BY <1>4, <2>2, <2>3, <2>4 DEF r4, S
<1>7. CASE ended
  <2> DEFINE u == Append(r1, R)
  <2>0. r4 = Append(u, GameFinished)
    BY <1>7 DEF r2, r3
  <2>6. u \in Seq(S) /\ Len(u) = 2 /\ u[1] = c /\ u[2] = R
    BY <1>1, <1>3, AppendedTwo
  <2> HIDE DEF r4, u
  <2>1. DOMAIN r4 = 1..3 /\ r4[1] = c /\ r4[2] = R /\ r4[3] = GameFinished
    BY <1>1, <2>0, <2>6, AppendedTwo
  <2>2. CardFirst(r4) /\ HasCard(r4) /\ (Finishes(r4) <=> ended)
    BY <1>2, <1>7, <2>1 DEF CardFirst, HasCard, Finishes
  <2>3. CardsBy(Me, r4) = IF p = Me THEN {k} ELSE {}
    BY <1>2, <2>1 DEF CardsBy, CardBy
  <2>4. ~ended => AllTo(next, r4)
    BY <1>2, <1>7, <2>1 DEF AllTo, ToSeat
  <2>5. QED
    BY <1>4, <2>2, <2>3, <2>4 DEF r4, S
<1>8. QED
  BY <1>5, <1>6, <1>7

LEMMA PlayFields ==
  ASSUME TableOK, Typed, NEW p \in Seat, Play(p)
  PROVE  /\ srv.turn = p /\ ~srv.over /\ last' = p /\ out[p] = <<>>
         /\ \E next \in Seat, full, ended \in BOOLEAN :
              /\ full <=> Len(srv.trick) + 1 = table.n
              /\ ended <=> full /\ srv.round = Rounds
              /\ ~full => next = (p + 1) % table.n
              /\ srv'.turn = next /\ srv'.over = ended /\ srv'.claim = FALSE
              /\ srv'.round = IF full /\ ~ended THEN srv.round + 1 ELSE srv.round
              /\ srv'.trick = IF full /\ ~ended THEN <<>> ELSE Append(srv.trick, p)
              /\ srv' \in [turn : Seat, round : 1..Rounds, trick : Seq(Seat),
                           claim : {FALSE}, over : BOOLEAN]
              /\ out' = [out EXCEPT ![p] = Published(p, srv.round, next, full, ended)]
<1> DEFINE trick == Append(srv.trick, p)
           full == Len(trick) = table.n
           ended == full /\ srv.round = Rounds
           round == IF full /\ ~ended THEN srv.round + 1 ELSE srv.round
           cards == IF full /\ ~ended THEN <<>> ELSE trick
<1>1. /\ ~srv.over /\ srv.turn = p /\ out[p] = <<>> /\ last' = p
      /\ \E next \in IF full THEN Seat ELSE {(p + 1) % table.n} :
           /\ srv' = [srv EXCEPT !.turn = next, !.over = ended,
                  !.round = IF full /\ ~ended THEN @ + 1 ELSE @,
                  !.trick = IF full /\ ~ended THEN <<>> ELSE trick]
           /\ out' = [out EXCEPT ![p] = Published(p, srv.round, next, full, ended)]
  BY DEF Play, Published
<1>2. PICK next \in IF full THEN Seat ELSE {(p + 1) % table.n} :
           /\ srv' = [srv EXCEPT !.turn = next, !.over = ended,
                  !.round = IF full /\ ~ended THEN @ + 1 ELSE @,
                  !.trick = IF full /\ ~ended THEN <<>> ELSE trick]
           /\ out' = [out EXCEPT ![p] = Published(p, srv.round, next, full, ended)]
  BY <1>1
<1>3. /\ srv \in [turn : Seat, round : 1..Rounds, trick : Seq(Seat), claim : {FALSE}, over : BOOLEAN]
      /\ table.n \in Nat \ {0, 1} /\ Rounds \in Nat \ {0} /\ p \in 0..table.n - 1
  BY DEF Typed, TableOK, Seat
<1>4. /\ Len(srv.trick) \in Nat /\ Len(trick) = Len(srv.trick) + 1 /\ trick \in Seq(Seat)
      /\ full <=> Len(srv.trick) + 1 = table.n
  BY <1>3, AppendAt
<1>5. next \in Seat
  <2> DEFINE m == (p + 1) % table.n
  <2>1. m = IF p = table.n - 1 THEN 0 ELSE p + 1
    BY <1>3, NextPosition
  <2> HIDE DEF m, full
  <2>2. m \in Seat
    BY <1>3, <2>1 DEF Seat
  <2>3. QED
    BY <1>2, <2>2 DEF m
<1>6. srv' = [srv EXCEPT !.turn = next, !.over = ended, !.round = round, !.trick = cards]
  BY <1>2
<1>7. round \in 1..Rounds /\ cards \in Seq(Seat)
  BY <1>3, <1>4
<1>8. full \in BOOLEAN /\ ended \in BOOLEAN
  OBVIOUS
<1>9. /\ ended <=> full /\ srv.round = Rounds
      /\ ~full => next = (p + 1) % table.n
      /\ round = IF full /\ ~ended THEN srv.round + 1 ELSE srv.round
      /\ cards = IF full /\ ~ended THEN <<>> ELSE Append(srv.trick, p)
  BY <1>2
<1> HIDE DEF full, ended, round, cards
<1>10. /\ srv'.turn = next /\ srv'.over = ended /\ srv'.claim = FALSE
       /\ srv'.round = round /\ srv'.trick = cards
       /\ srv' \in [turn : Seat, round : 1..Rounds, trick : Seq(Seat), claim : {FALSE}, over : BOOLEAN]
  BY <1>3, <1>5, <1>6, <1>7, <1>8
<1>11. QED
  BY <1>1, <1>2, <1>4, <1>5, <1>8, <1>9, <1>10, Zenon

LEMMA SetOfCards ==
  ASSUME NEW S, NEW s \in Seq(S), NEW e \in S
  PROVE  /\ ToSet(<<>>) = {} /\ ToSet(s) \subseteq S
         /\ \A x : x \in ToSet(Append(s, e)) <=> x \in ToSet(s) \/ x = e
<1> DEFINE t == Append(s, e)
<1>1. /\ Len(s) \in Nat /\ DOMAIN s = 1..Len(s) /\ DOMAIN t = 1..(Len(s) + 1)
      /\ \A i \in 1..Len(s) : t[i] = s[i]
      /\ t[Len(s) + 1] = e
  BY AppendAt
<1> HIDE DEF t
<1>2. \A x : x \in ToSet(s) <=> \E i \in 1..Len(s) : s[i] = x
  BY <1>1 DEF ToSet
<1>3. \A x : x \in ToSet(t) <=> \E i \in 1..(Len(s) + 1) : t[i] = x
  BY <1>1 DEF ToSet
<1>4. \A i \in 1..(Len(s) + 1) : i \in 1..Len(s) \/ i = Len(s) + 1
  BY <1>1
<1>5. \A i \in 1..Len(s) : i \in 1..(Len(s) + 1)
  BY <1>1
<1>6. Len(s) + 1 \in 1..(Len(s) + 1)
  BY <1>1
<1>7. \A x : x \in ToSet(t) <=> x \in ToSet(s) \/ x = e
  <2>1. ASSUME NEW x, x \in ToSet(t) PROVE x \in ToSet(s) \/ x = e
    <3>1. PICK i \in 1..(Len(s) + 1) : t[i] = x
      BY <1>3, <2>1
    <3>2. QED
      BY <1>1, <1>2, <1>4, <3>1
  <2>2. ASSUME NEW x, x \in ToSet(s) PROVE x \in ToSet(t)
    <3>1. PICK i \in 1..Len(s) : s[i] = x
      BY <1>2, <2>2
    <3>2. i \in 1..(Len(s) + 1) /\ t[i] = x
      BY <1>1, <1>5, <3>1
    <3>3. QED
      BY <1>3, <3>2
  <2>3. e \in ToSet(t)
    BY <1>1, <1>3, <1>6
  <2>4. QED
    BY <2>1, <2>2, <2>3
<1>8. ToSet(<<>>) = {} /\ ToSet(s) \subseteq S
  <2>1. ToSet(<<>>) = {}
    BY DEF ToSet
  <2>2. QED
    BY <1>1, <1>2, <2>1
<1>9. QED
  BY <1>7, <1>8 DEF t

\* The player's cards are counted when they are played, a full trick or not.
LEMMA PlayCounts ==
  ASSUME TableOK, Typed, RoundInv, NEW p \in Seat, Play(p), UNCHANGED table
  PROVE  /\ MyPlays \in 0..Rounds /\ MyPlays' \in 0..Rounds
         /\ p # Me => MyPlays' = MyPlays
         /\ p = Me => MyPlays' = MyPlays + 1 /\ MyPlays' = srv.round
         /\ RoundInv'
<1> DEFINE n == table.n  L == Len(srv.trick)
<1>1. srv.turn = p /\ ~srv.over
  BY DEF Play
<1>p. PICK next \in Seat, full, ended \in BOOLEAN :
              /\ full <=> Len(srv.trick) + 1 = table.n
              /\ ended <=> full /\ srv.round = Rounds
              /\ ~full => next = (p + 1) % table.n
              /\ srv'.turn = next /\ srv'.over = ended /\ srv'.claim = FALSE
              /\ srv'.round = IF full /\ ~ended THEN srv.round + 1 ELSE srv.round
              /\ srv'.trick = IF full /\ ~ended THEN <<>> ELSE Append(srv.trick, p)
              /\ srv' \in [turn : Seat, round : 1..Rounds, trick : Seq(Seat),
                           claim : {FALSE}, over : BOOLEAN]
              /\ out' = [out EXCEPT ![p] = Published(p, srv.round, next, full, ended)]
  BY PlayFields, Zenon
<1>2. /\ full <=> Len(srv.trick) + 1 = table.n
      /\ ended <=> full /\ srv.round = Rounds
      /\ ~full => next = (p + 1) % table.n
      /\ srv'.turn = next /\ srv'.over = ended
      /\ srv'.round = IF full /\ ~ended THEN srv.round + 1 ELSE srv.round
      /\ srv'.trick = IF full /\ ~ended THEN <<>> ELSE Append(srv.trick, p)
  BY <1>p, Zenon
<1>3. /\ n \in Nat \ {0, 1} /\ Rounds \in Nat \ {0} /\ Me \in 0..n - 1 /\ p \in 0..n - 1
      /\ srv.round \in 1..Rounds /\ srv.trick \in Seq(Seat) /\ next \in 0..n - 1
      /\ Me' = Me /\ Rounds' = Rounds /\ Seat' = Seat /\ table'.n = n
  BY DEF Typed, TableOK, Seat, Me, Rounds
<1>4. /\ ToSet(<<>>) = {}
      /\ Me \in ToSet(Append(srv.trick, p)) <=> Me \in ToSet(srv.trick) \/ Me = p
      /\ L \in Nat /\ Len(Append(srv.trick, p)) = L + 1 /\ Len(<<>>) = 0
  BY <1>3, SetOfCards, AppendAt
<1>5. PICK lead \in Seat : Led(lead)
  BY <1>1 DEF RoundInv
<1>6. lead \in 0..n - 1
  BY <1>5 DEF Seat
<1>7. /\ Dist(n, lead, p) = L /\ L < n
      /\ Me \in ToSet(srv.trick) <=> Dist(n, lead, Me) < L
  BY <1>1, <1>5 DEF Led
<1> HIDE DEF n, L
<1>8. /\ Dist(n, lead, Me) \in 0..n - 1
      /\ Dist(n, lead, Me) = Dist(n, lead, p) => Me = p
      /\ L # n - 1 => Dist(n, lead, (p + 1) % n) = L + 1
      /\ Dist(n, next, next) = 0 /\ Dist(n, next, Me) \in 0..n - 1
  <2>1. n \in Nat \ {0}
    BY <1>3
  <2>2. Dist(n, lead, Me) \in 0..n - 1
    BY <1>3, <1>6, <2>1, DistStep
  <2>6. Dist(n, lead, Me) = Dist(n, lead, p) => Me = p
    <3>1. Me \in 0..n - 1 /\ p \in 0..n - 1 /\ lead \in 0..n - 1
      BY <1>3, <1>6
    <3>2. QED
      BY <2>1, <3>1, DistSame
  <2>3. Dist(n, lead, p) # n - 1 => Dist(n, lead, (p + 1) % n) = Dist(n, lead, p) + 1
    BY <1>3, <1>6, <2>1, DistStep
  <2>4. Dist(n, next, next) = 0 /\ Dist(n, next, Me) \in 0..n - 1
    BY <1>3, <2>1, DistStep
  <2>5. QED
    BY <1>7, <2>2, <2>3, <2>4, <2>6
<1>9. Me = p => Me \notin ToSet(srv.trick)
  BY <1>4, <1>7, <1>8
<1>10. full => Me \in ToSet(srv.trick) \/ Me = p
  <2>1. full <=> L + 1 = n
    BY <1>2 DEF n, L
  <2>2. n \in Nat /\ L \in Nat
    BY <1>3, <1>4
  <2>3. full => Dist(n, lead, Me) <= L
    BY <1>8, <2>1, <2>2
  <2>4. Dist(n, lead, Me) = L => Me = p
    BY <1>7, <1>8
  <2>5. QED
    BY <1>7, <1>8, <2>2, <2>3, <2>4
<1>11. MyPlays = srv.round - 1 + (IF Me \in ToSet(srv.trick) THEN 1 ELSE 0)
  BY DEF MyPlays
<1>12. MyPlays' = srv'.round - 1 + (IF Me \in ToSet(srv'.trick) THEN 1 ELSE 0)
  BY <1>3 DEF MyPlays
<1>13. CASE full /\ ~ended
  <2>1. srv'.round = srv.round + 1 /\ srv'.trick = <<>> /\ srv'.round \in 1..Rounds
    BY <1>2, <1>3, <1>13
  <2>2. MyPlays' = srv.round
    BY <1>3, <1>4, <1>12, <2>1
  <2>3. Led(next)'
    <3>1. srv'.turn = next /\ Me' = Me /\ table'.n = n
      BY <1>2, <1>3
    <3>2. Len(srv'.trick) = 0 /\ Me \notin ToSet(srv'.trick)
      BY <1>4, <2>1
    <3>3. Dist(n, next, next) = 0 /\ ~(Dist(n, next, Me) < 0) /\ 0 < n
      BY <1>3, <1>8
    <3>4. QED
      BY <3>1, <3>2, <3>3 DEF Led
  <2>4. RoundInv'
    BY <1>3, <2>3 DEF RoundInv
  <2>5. MyPlays = IF Me = p THEN srv.round - 1 ELSE srv.round
    <3>1. Me \in ToSet(srv.trick) <=> Me # p
      BY <1>9, <1>10, <1>13
    <3>2. QED
      BY <1>3, <1>11, <3>1
  <2>6. MyPlays \in 0..Rounds /\ MyPlays' \in 0..Rounds
    BY <1>3, <2>2, <2>5
  <2>7. /\ p # Me => MyPlays' = MyPlays
        /\ p = Me => MyPlays' = MyPlays + 1 /\ MyPlays' = srv.round
    BY <1>3, <2>2, <2>5
  <2>8. QED
    BY <2>4, <2>6, <2>7
<1>14. CASE ~(full /\ ~ended)
  <2>1. srv'.round = srv.round /\ srv'.trick = Append(srv.trick, p)
    BY <1>2, <1>14
  <2>2. MyPlays' = srv.round - 1 + (IF Me \in ToSet(srv.trick) \/ Me = p THEN 1 ELSE 0)
    BY <1>3, <1>4, <1>12, <2>1
  <2>3. ~full => Led(lead)'
    <3> SUFFICES ASSUME ~full PROVE Led(lead)'
      OBVIOUS
    <3>1. L # n - 1 /\ srv'.turn = (p + 1) % n
      <4>1. L + 1 # n /\ srv'.turn = (p + 1) % n
        BY <1>2, Zenon DEF n, L
      <4>2. L \in Nat /\ n \in Nat
        BY <1>3, <1>4
      <4>3. QED
        BY <4>1, <4>2
    <3>2. Dist(n, lead, srv'.turn) = L + 1 /\ L + 1 < n
      BY <1>3, <1>4, <1>7, <1>8, <3>1
    <3>3. Me \in ToSet(srv'.trick) <=> Dist(n, lead, Me) < L + 1
      BY <1>4, <1>7, <1>8, <2>1
    <3>4. QED
      BY <1>3, <1>4, <2>1, <3>2, <3>3 DEF Led, n
  <2>4. RoundInv'
    <3>1. ~srv'.over => ~full
      BY <1>2, <1>14
    <3>2. ~srv'.over => \E l \in Seat : Led(l)'
      BY <1>5, <2>3, <3>1
    <3>3. QED
      BY <1>3, <3>2, Zenon DEF RoundInv
  <2>5. CASE Me = p
    <3>1. srv.round \in 1..Rounds /\ Rounds \in Nat
      BY <1>3
    <3>2. MyPlays = srv.round - 1 /\ MyPlays' = srv.round - 1 + 1
      <4>1. Me \notin ToSet(srv.trick)
        BY <1>9, <2>5
      <4>2. MyPlays = srv.round - 1 + 0 /\ MyPlays' = srv.round - 1 + 1
        BY <1>11, <2>2, <2>5, <4>1, Zenon
      <4>3. QED
        BY <3>1, <4>2
    <3>3. MyPlays \in 0..Rounds /\ MyPlays' \in 0..Rounds
          /\ MyPlays' = MyPlays + 1 /\ MyPlays' = srv.round
      BY <3>1, <3>2
    <3>4. QED
      BY <2>4, <2>5, <3>3
  <2>6. CASE Me # p
    <3>1. MyPlays' = MyPlays
      BY <1>11, <2>2, <2>6
    <3>2. MyPlays \in 0..Rounds
      BY <1>3, <1>11
    <3>3. QED
      BY <2>4, <2>6, <3>1, <3>2
  <2>7. QED
    BY <2>5, <2>6
<1>15. QED
  BY <1>13, <1>14

\* A bot plays once the events before it are out, the player with none of its own left.
LEMMA PlayKeeps ==
  ASSUME Core, NEW p \in Seat, Play(p), p # Me => out[last] = <<>>,
         UNCHANGED <<table, conn, wire, snap, page>>
  PROVE  Core'
<1> USE DEF Core
<1>1. /\ srv.turn = p /\ ~srv.over /\ last' = p /\ out[p] = <<>>
      /\ \E next \in Seat, full, ended \in BOOLEAN :
              /\ ended => full
              /\ srv'.turn = next /\ srv'.over = ended
              /\ srv' \in [turn : Seat, round : 1..Rounds, trick : Seq(Seat),
                           claim : {FALSE}, over : BOOLEAN]
              /\ out' = [out EXCEPT ![p] = Published(p, srv.round, next, full, ended)]
  BY PlayFields
<1>2. PICK next \in Seat, full \in BOOLEAN, ended \in BOOLEAN :
              /\ ended => full
              /\ srv'.turn = next /\ srv'.over = ended
              /\ srv' \in [turn : Seat, round : 1..Rounds, trick : Seq(Seat),
                           claim : {FALSE}, over : BOOLEAN]
              /\ out' = [out EXCEPT ![p] = Published(p, srv.round, next, full, ended)]
  BY <1>1
<1>3. /\ MyPlays \in 0..Rounds /\ MyPlays' \in 0..Rounds
      /\ p # Me => MyPlays' = MyPlays
      /\ p = Me => MyPlays' = MyPlays + 1 /\ MyPlays' = srv.round
      /\ RoundInv'
  BY PlayCounts
<1>4. /\ table' = table /\ conn' = conn /\ wire' = wire /\ snap' = snap /\ page' = page
      /\ Me' = Me /\ Seat' = Seat /\ Rounds' = Rounds
  BY DEF Me, Seat, Rounds
<1> DEFINE q == Published(p, srv.round, next, full, ended)
<1>5. /\ q \in Seq(Events(table)) /\ CardFirst(q) /\ HasCard(q)
      /\ CardsBy(Me, q) = IF p = Me THEN {srv.round} ELSE {}
      /\ Finishes(q) <=> ended
      /\ ~ended => AllTo(next, q)
  <2> DEFINE k == srv.round
  <2>1. k \in 1..Rounds
    BY DEF Typed
  <2>2. ended => full
    BY <1>2
  <2> HIDE DEF k, Core
  <2>3. LET x == Published(p, k, next, full, ended) IN
        /\ x \in Seq(Events(table)) /\ CardFirst(x) /\ HasCard(x)
        /\ CardsBy(Me, x) = IF p = Me THEN {k} ELSE {}
        /\ Finishes(x) <=> ended
        /\ ~ended => AllTo(next, x)
    BY <2>1, <2>2, PublishedEvents
  <2>4. QED
    BY <2>3 DEF k
<1> HIDE DEF q
<1>6. /\ out' = [out EXCEPT ![p] = q] /\ out \in [{Scan} \union Seat -> Seq(Events(table))]
      /\ Scan \notin Seat /\ last \in Seat /\ Me \in Seat
  BY <1>2 DEF q, Typed, Scan, Seat, TableOK
<1>7. /\ out'[p] = q /\ (\A a \in Seat : a # p => out'[a] = out[a]) /\ out'[Scan] = out[Scan]
      /\ out' \in [{Scan} \union Seat -> Seq(Events(table))]
  BY <1>5, <1>6
<1>8. TableOK' /\ Typed'
  BY <1>1, <1>2, <1>4, <1>7 DEF TableOK, Typed, Rounds, Seat, Me
<1>9. AllTo(Me, <<>>) /\ CardsBy(Me, <<>>) = {} /\ ~Finishes(<<>>)
  BY DEF AllTo, CardsBy, Finishes
<1>10. TurnInv'
  <2>1. ASSUME NEW a \in Seat, a # p PROVE AllTo(Me, out'[a])
    <3>1. CASE a # last
      BY <1>7, <2>1, <3>1 DEF TurnInv
    <3>2. CASE a = last
      BY <1>1, <1>7, <1>9, <2>1, <3>2 DEF TurnInv
    <3>3. QED
      BY <3>1, <3>2
  <2>2. srv'.turn = Me /\ ~srv'.over => AllTo(Me, out'[p]) /\ HasCard(out'[p])
    BY <1>2, <1>5, <1>7
  <2>3. QED
    BY <1>1, <1>4, <2>1, <2>2 DEF TurnInv
<1>11. HandInv'
  <2>1. Rising(Me, wire) /\ \A k \in CardsBy(Me, wire) : k <= MyPlays /\ k \in Nat
    BY DEF HandInv, CardsBy
  <2>2. \A k \in CardsBy(Me, wire) : k <= MyPlays'
    BY <1>3, <2>1
  <2>3. \A a \in Seat : CardFirst(out'[a]) /\ (a # Me => CardsBy(Me, out'[a]) = {})
    BY <1>5, <1>7 DEF HandInv
  <2>4. /\ \A k \in CardsBy(Me, out'[Me]) : k = MyPlays' /\ k \notin CardsBy(Me, wire)
        /\ page.hand = {k \in 1..Rounds : k > MyPlays'} \union CardsBy(Me, wire)
                         \union CardsBy(Me, out'[Me])
    <3>0. page.hand = {k \in 1..Rounds : k > MyPlays} \union CardsBy(Me, wire)
                         \union CardsBy(Me, out[Me])
      BY DEF HandInv
    <3>1. CASE p # Me
      BY <1>3, <1>6, <1>7, <3>0, <3>1 DEF HandInv
    <3>2. CASE p = Me
      <4>1. out[Me] = <<>> /\ CardsBy(Me, out[Me]) = {} /\ CardsBy(Me, out'[Me]) = {srv.round}
        BY <1>1, <1>5, <1>7, <1>9, <3>2
      <4>2. MyPlays' = MyPlays + 1 /\ MyPlays' = srv.round /\ MyPlays' \notin CardsBy(Me, wire)
        BY <1>3, <2>1, <3>2
      <4>3. {k \in 1..Rounds : k > MyPlays} = {k \in 1..Rounds : k > MyPlays'} \union {MyPlays'}
        <5>1. Rounds \in Nat
          BY DEF TableOK
        <5>2. MyPlays' \in 1..Rounds
          BY <1>3, <4>2, <5>1
        <5>3. \A k \in 1..Rounds : k > MyPlays <=> k > MyPlays' \/ k = MyPlays'
          BY <1>3, <4>2, <5>1
        <5>4. QED
          BY <5>2, <5>3
      <4>4. QED
        BY <3>0, <4>1, <4>2, <4>3
    <3>3. QED
      BY <3>1, <3>2
  <2>5. QED
    BY <1>4, <2>1, <2>2, <2>3, <2>4 DEF HandInv
<1>12. OverInv'
  <2>1. \A a \in Seat : Finishes(out'[a]) => a = p /\ ended
    BY <1>1, <1>5, <1>7 DEF OverInv
  <2>2. p # Me => out'[Me] = <<>>
    BY <1>6, <1>7 DEF OverInv
  <2>3. ~Finishes(wire) /\ ~page.pending
    BY <1>1 DEF OverInv
  <2>4. QED
    BY <1>1, <1>2, <1>4, <2>1, <2>2, <2>3 DEF OverInv
<1>13. QueueInv' /\ LinkInv'
  BY <1>4, <1>7 DEF QueueInv, LinkInv
<1>14. QED
  BY <1>3, <1>8, <1>10, <1>11, <1>12, <1>13
------------------------------------------------------------------------------
\* An event leaves for the page.

LEMMA PublishKeeps ==
  ASSUME Core, NEW a \in {Scan} \union Seat, Publish(a)
  PROVE  Core'
<1> USE DEF Core
<1>1. /\ table' = table /\ srv' = srv /\ last' = last /\ conn' = conn /\ snap' = snap /\ page' = page
      /\ Me' = Me /\ Seat' = Seat /\ Rounds' = Rounds /\ MyPlays' = MyPlays
  BY DEF Publish, Me, Seat, Rounds, MyPlays
<1>2. /\ out[a] # <<>> /\ out' = [out EXCEPT ![a] = Tail(@)] /\ conn = "up" /\ out[Scan] = <<>>
      /\ wire' = wire \o Routed(Head(out[a]))
  BY DEF Publish, LinkInv
<1>3. /\ out \in [{Scan} \union Seat -> Seq(Events(table))] /\ wire \in Seq(Events(table))
      /\ last \in Seat /\ Me \in Seat /\ Scan \notin Seat /\ a \in Seat /\ out[a] \in Seq(Events(table))
  <2>1. Scan \notin Seat
    BY DEF TableOK, Seat, Scan
  <2>2. a \in Seat
    BY <1>2
  <2>3. QED
    BY <2>1, <2>2 DEF Typed, TableOK
<1> DEFINE e == Head(out[a])  rest == Tail(out[a])
<1>4. e \in Events(table) /\ rest \in Seq(Events(table))
  BY <1>2, <1>3, TailAt
<1>5. /\ e.type \in {"card_played", "turn_changed", "round_completed", "game_finished"}
      /\ CardBy(Me, e) => e.card[2] \in 1..Rounds
  BY <1>4, EventKinds DEF CardBy, Rounds
<1>6. AllTo(Me, out[a]) <=> ToSeat(Me, e) /\ AllTo(Me, rest)
  BY <1>2, <1>3, TailTurn
<1>7. /\ CardsBy(Me, rest) \subseteq CardsBy(Me, out[a])
      /\ CardBy(Me, e) => e.card[2] \in CardsBy(Me, out[a])
      /\ ~CardBy(Me, e) => CardsBy(Me, rest) = CardsBy(Me, out[a])
      /\ CardFirst(rest) /\ CardsBy(Me, rest) = {}
      /\ HasCard(out[a]) => e.type = "card_played" \/ HasCard(rest)
      /\ Finishes(out[a]) <=> e.type = "game_finished" \/ Finishes(rest)
  <2>1. CardFirst(out[a])
    BY <1>3 DEF HandInv
  <2>2. CardBy(Me, e) => e.card[2] \in CardsBy(Me, out[a])
    <3>1. DOMAIN out[a] = 1..Len(out[a]) /\ Len(out[a]) \in Nat \ {0} /\ e = out[a][1]
      BY <1>2, <1>3, TailAt
    <3>2. 1 \in DOMAIN out[a]
      BY <3>1
    <3>3. CardBy(Me, e) => e.card[2] \in Nat
      BY <1>5
    <3> HIDE DEF e
    <3>4. QED
      BY <3>1, <3>2, <3>3 DEF CardsBy
  <2>3. QED
    BY <1>2, <1>3, <2>1, <2>2, TailCards
<1> HIDE DEF e, rest
<1>8. /\ out'[a] = rest /\ (\A b \in Seat : b # a => out'[b] = out[b]) /\ out'[Scan] = out[Scan]
      /\ out' \in [{Scan} \union Seat -> Seq(Events(table))]
  BY <1>2, <1>3, <1>4 DEF rest
<1>9. wire' = Append(wire, e)
  <2>1. Routed(e) = <<e>>
    BY <1>5 DEF Routed
  <2>2. QED
    BY <1>2, <1>3, <1>4, <2>1, JoinOne DEF e
<1>10. wire' \in Seq(Events(table))
  BY <1>3, <1>4, <1>9, AppendAt
<1>11. /\ AllTo(Me, wire') <=> AllTo(Me, wire) /\ ToSeat(Me, e)
       /\ EndsTo(Me, wire') <=> CardTo(Me, e) \/ (EndsTo(Me, wire) /\ ToSeat(Me, e))
  BY <1>3, <1>4, <1>9, AppendTurn
<1>12. /\ CardsBy(Me, wire') = CardsBy(Me, wire) \union (IF CardBy(Me, e) THEN {e.card[2]} ELSE {})
       /\ (CardBy(Me, e) => \A k \in CardsBy(Me, wire) : k < e.card[2]) => Rising(Me, wire')
       /\ Finishes(wire') <=> Finishes(wire) \/ e.type = "game_finished"
       /\ (Finishes(wire) => ~CardBy(Me, e)) => EndLast(Me, wire')
  <2>1. CardBy(Me, e) => e.card[2] \in Nat
    BY <1>5
  <2>2. \A i \in DOMAIN wire : CardBy(Me, wire[i]) => wire[i].card[2] \in Nat
    <3>1. ASSUME NEW i \in DOMAIN wire PROVE wire[i] \in Events(table)
      BY <1>3, <3>1
    <3>2. QED
      BY <3>1, EventKinds DEF CardBy
  <2>3. Rising(Me, wire) /\ EndLast(Me, wire)
    BY DEF HandInv, OverInv
  <2>4. /\ CardsBy(Me, Append(wire, e))
              = CardsBy(Me, wire) \union (IF CardBy(Me, e) THEN {e.card[2]} ELSE {})
        /\ Finishes(Append(wire, e)) <=> Finishes(wire) \/ e.type = "game_finished"
    BY <1>3, <1>4, <2>1, AppendCards
  <2>5. (CardBy(Me, e) => \A k \in CardsBy(Me, wire) : k < e.card[2])
          => Rising(Me, Append(wire, e))
    BY <1>3, <1>4, <2>1, <2>2, <2>3, AppendCards
  <2>6. (Finishes(wire) => ~CardBy(Me, e)) => EndLast(Me, Append(wire, e))
    BY <1>3, <1>4, <2>1, <2>3, AppendCards
  <2>7. QED
    BY <1>9, <2>4, <2>5, <2>6
\* A card of the player is published by its own request, after those before it.
<1>13. a # Me => ~CardBy(Me, e) /\ out'[Me] = out[Me]
  <2>1. a # Me => CardsBy(Me, out[a]) = {}
    BY <1>3 DEF HandInv
  <2>2. QED
    BY <1>3, <1>7, <1>8, <2>1
<1>14. CardBy(Me, e) => a = Me /\ e.card[2] = MyPlays /\ MyPlays \notin CardsBy(Me, wire)
  BY <1>7, <1>13 DEF HandInv
<1>15. /\ CardsBy(Me, out'[Me]) \subseteq CardsBy(Me, out[Me])
       /\ a = Me => CardsBy(Me, out'[Me]) = {}
  BY <1>7, <1>8, <1>13
<1>16. TableOK' /\ Typed'
  BY <1>1, <1>8, <1>10 DEF TableOK, Typed
<1>17. TurnInv'
  <2>1. ASSUME NEW b \in Seat, b # last PROVE AllTo(Me, out'[b])
    BY <1>6, <1>8, <2>1 DEF TurnInv, rest
  <2>2. ASSUME srv.turn = Me, ~srv.over PROVE AllTo(Me, out'[last]) /\ (HasCard(out'[last]) \/ Coming')
    <3>1. AllTo(Me, out[a]) /\ AllTo(Me, out[last]) /\ (HasCard(out[last]) \/ Coming)
      BY <1>3, <2>2 DEF TurnInv
    <3>2. ToSeat(Me, e) /\ AllTo(Me, rest)
      BY <1>6, <3>1
    <3>3. AllTo(Me, out'[last])
      BY <1>3, <1>8, <3>1, <3>2
    <3>4. Coming => Coming'
      BY <1>1, <1>11, <3>2 DEF Coming, ComesTo
    <3>5. e.type = "card_played" => Coming'
      <4>1. e.type = "card_played" => CardTo(Me, e)
        BY <3>2 DEF ToSeat, CardTo
      <4>2. QED
        BY <1>1, <1>11, <4>1 DEF Coming, ComesTo
    <3>6. HasCard(out[last]) => HasCard(out'[last]) \/ e.type = "card_played"
      BY <1>3, <1>7, <1>8
    <3>7. QED
      BY <3>1, <3>3, <3>4, <3>5, <3>6
  <2>3. QED
    BY <1>1, <2>1, <2>2 DEF TurnInv
<1>18. HandInv'
  <2>1. Rising(Me, wire')
    <3>1. \A k \in CardsBy(Me, wire) : k \in Nat /\ k <= MyPlays
      BY DEF HandInv, CardsBy
    <3>2. CardBy(Me, e) => e.card[2] \in Nat
      BY <1>5
    <3>3. CardBy(Me, e) => \A k \in CardsBy(Me, wire) : k < e.card[2]
      BY <1>14, <3>1, <3>2
    <3>4. QED
      BY <1>12, <3>3
  <2>2. \A k \in CardsBy(Me, wire') : k <= MyPlays
    <3>1. CardBy(Me, e) => MyPlays \in Nat
      BY <1>5, <1>14
    <3>2. QED
      BY <1>12, <1>14, <3>1 DEF HandInv
  <2>3. \A k \in CardsBy(Me, out'[Me]) : k = MyPlays /\ k \notin CardsBy(Me, wire')
    BY <1>12, <1>14, <1>15 DEF HandInv
  <2>4. \A b \in Seat : CardFirst(out'[b]) /\ (b # Me => CardsBy(Me, out'[b]) = {})
    BY <1>7, <1>8 DEF HandInv
  <2>5. CardsBy(Me, wire') \union CardsBy(Me, out'[Me]) = CardsBy(Me, wire) \union CardsBy(Me, out[Me])
    <3>1. CASE CardBy(Me, e)
      <4>1. a = Me /\ CardsBy(Me, out'[Me]) = {} /\ e.card[2] \in CardsBy(Me, out[Me])
        BY <1>7, <1>14, <1>15, <3>1
      <4>2. CardsBy(Me, out[Me]) = {e.card[2]}
        BY <1>14, <3>1, <4>1 DEF HandInv
      <4>3. QED
        BY <1>12, <3>1, <4>1, <4>2
    <3>2. CASE ~CardBy(Me, e)
      <4>1. CardsBy(Me, out'[Me]) = CardsBy(Me, out[Me])
        BY <1>7, <1>8, <1>13, <3>2
      <4>2. QED
        BY <1>12, <3>2, <4>1
    <3>3. QED
      BY <3>1, <3>2
  <2>6. page.hand = {k \in 1..Rounds : k > MyPlays} \union CardsBy(Me, wire')
                       \union CardsBy(Me, out'[Me])
    BY <2>5 DEF HandInv
  <2>7. QED
    BY <1>1, <2>1, <2>2, <2>3, <2>4, <2>6 DEF HandInv
<1>19. OverInv'
  <2>1. \A b \in Seat : Finishes(out'[b]) => b = last /\ srv.over
    BY <1>7, <1>8 DEF OverInv
  <2>2. last # Me => out'[Me] = <<>>
    BY <1>2, <1>3, <1>8 DEF OverInv
  <2>3. e.type = "game_finished" => srv.over /\ CardsBy(Me, out'[Me]) = {}
    <3> SUFFICES ASSUME e.type = "game_finished" PROVE srv.over /\ CardsBy(Me, out'[Me]) = {}
      OBVIOUS
    <3>1. a = last /\ srv.over
      BY <1>3, <1>7 DEF OverInv
    <3>2. a # Me => out'[Me] = <<>>
      BY <2>2, <3>1
    <3>3. CardsBy(Me, <<>>) = {}
      BY DEF CardsBy
    <3>4. QED
      BY <1>15, <3>1, <3>2, <3>3
  <2>4. Finishes(wire') \/ page.pending => srv.over /\ CardsBy(Me, out'[Me]) = {}
    BY <1>12, <1>15, <2>3 DEF OverInv
  <2>5. Finishes(wire) \/ page.pending => ~CardBy(Me, e)
    BY <1>7, <1>14 DEF OverInv
  <2>6. page.pending => CardsBy(Me, wire') = {}
    BY <1>12, <2>5 DEF OverInv
  <2>7. EndLast(Me, wire')
    BY <1>12, <2>5
  <2>8. QED
    BY <1>1, <2>1, <2>2, <2>4, <2>6, <2>7 DEF OverInv
<1>20. QueueInv' /\ LinkInv' /\ RoundInv'
  BY <1>1, <1>2, <1>8 DEF QueueInv, LinkInv, RoundInv, Led
<1>21. QED
  BY <1>16, <1>17, <1>18, <1>19, <1>20
------------------------------------------------------------------------------
\* The page handles an event: its turn, once its queue is replayed, is what the event says,
\* and the player's card leaves the hand.

Follows(p, pg, e, new) ==
  /\ IsPage(new) /\ new.queue \in Seq(Events(table)) /\ QueueOK(p, new) /\ SameLink(pg, new)
  /\ new.hand = IF CardBy(p, e) THEN pg.hand \ {e.card[2]} ELSE pg.hand
  /\ CardTo(p, e) => After(p, new)
  /\ ToSeat(p, e) /\ After(p, pg) => After(p, new)
  /\ new.pending => pg.pending \/ e.type = "game_finished"
  /\ new.over => pg.over \/ pg.queue = <<>>

LEMMA NoQueue ==
  ASSUME NEW p, NEW pg, IsPage(pg), Replaying(pg, <<>>, pg.chain, FALSE, "none")
  PROVE  /\ QueueOK(p, pg) /\ pg.queue \in Seq(Events(table))
         /\ After(p, pg) <=> pg.turn = p
BY DEF QueueOK, Replaying, After, EndsTo, AllTo

LEMMA QueueGrows ==
  ASSUME NEW p, NEW pg, pg.queue \in Seq(Events(table)), QueueOK(p, pg),
         NEW e \in Events(table), Queueable(p, e)
  PROVE  LET q == Append(pg.queue, e) IN
         /\ q \in Seq(Events(table)) /\ q # <<>>
         /\ \A i \in DOMAIN q : Queueable(p, q[i])
         /\ ~pg.replaying /\ ~CardTo(p, e) => \A i \in DOMAIN q : ~CardTo(p, q[i])
         /\ AllTo(p, q) <=> AllTo(p, pg.queue) /\ ToSeat(p, e)
         /\ EndsTo(p, q) <=> CardTo(p, e) \/ (EndsTo(p, pg.queue) /\ ToSeat(p, e))
<1> DEFINE s == pg.queue  q == Append(s, e)
<1>1. /\ q \in Seq(Events(table)) /\ q # <<>> /\ Len(s) \in Nat
      /\ DOMAIN s = 1..Len(s) /\ DOMAIN q = 1..(Len(s) + 1)
      /\ \A i \in 1..Len(s) : q[i] = s[i]
      /\ q[Len(s) + 1] = e
  BY AppendAt
<1>2. /\ AllTo(p, q) <=> AllTo(p, s) /\ ToSeat(p, e)
      /\ EndsTo(p, q) <=> CardTo(p, e) \/ (EndsTo(p, s) /\ ToSeat(p, e))
  BY AppendTurn
<1>3. /\ \A i \in DOMAIN s : Queueable(p, s[i])
      /\ ~pg.replaying => \A i \in DOMAIN s : ~CardTo(p, s[i])
  BY DEF QueueOK
<1> HIDE DEF s, q
<1>4. \A i \in DOMAIN q : i \in DOMAIN s \/ i = Len(s) + 1
  BY <1>1
<1>5. \A i \in DOMAIN q : Queueable(p, q[i])
  BY <1>1, <1>3, <1>4
<1>6. ~pg.replaying /\ ~CardTo(p, e) => \A i \in DOMAIN q : ~CardTo(p, q[i])
  BY <1>1, <1>3, <1>4
<1>7. QED
  BY <1>1, <1>2, <1>5, <1>6 DEF s, q

\* The player's own card: whatever was queued is thrown away.
LEMMA HandledMine ==
  ASSUME TableOK, NEW pg, IsPage(pg), pg.reveal = None, ~pg.pending, NEW e, CardBy(Me, e)
  PROVE  Follows(Me, pg, e, OnCardPlayed(pg, e))
<1> DEFINE can == Cancelled(pg)  shown == Shown(can, e)  new == [shown EXCEPT !.chain = TRUE]
<1>1. OnCardPlayed(pg, e) = new
  BY DEF OnCardPlayed, TableOK, CardBy
<1>2. /\ IsPage(can) /\ Replaying(can, <<>>, FALSE, FALSE, "none")
      /\ can.hand = pg.hand /\ can.pending = FALSE
      /\ can.reveal = None /\ can.connected = pg.connected /\ can.held = pg.held
  BY CancelledPage
<1>11. can.over = (pg.over \/ pg.pending)
  BY CancelledPage
<1> HIDE DEF can
<1>3. /\ IsPage(shown) /\ SameReplay(can, shown) /\ SameEnd(can, shown) /\ SameLink(can, shown)
      /\ shown.turn = e.next
      /\ shown.hand = IF e.seat = Me THEN can.hand \ {e.card[2]} ELSE can.hand
  BY <1>2, ShownPage
<1> HIDE DEF shown
<1>4. /\ IsPage(new) /\ Replaying(new, <<>>, TRUE, FALSE, "none") /\ new.turn = e.next
      /\ new.hand = shown.hand /\ new.over = shown.over /\ new.pending = shown.pending
      /\ new.reveal = shown.reveal /\ new.connected = shown.connected /\ new.held = shown.held
  BY <1>2, <1>3 DEF IsPage, Replaying, SameReplay
<1> HIDE DEF new
<1>5. /\ QueueOK(Me, new) /\ new.queue \in Seq(Events(table))
      /\ After(Me, new) <=> e.next = Me
  <2>1. Replaying(new, <<>>, new.chain, FALSE, "none")
    BY <1>4 DEF Replaying
  <2>2. IsPage(new)
    BY <1>4
  <2>3. QueueOK(Me, new) /\ new.queue \in Seq(Events(table)) /\ (After(Me, new) <=> new.turn = Me)
    BY <2>1, <2>2, NoQueue
  <2>4. QED
    BY <1>4, <2>3
<1>6. SameLink(pg, new) /\ new.pending = FALSE
  BY <1>2, <1>3, <1>4 DEF SameLink, SameEnd
<1>10. new.over => pg.over
  <2>1. can.over => pg.over
    BY <1>11, Zenon
  <2>2. new.over = can.over
    BY <1>3, <1>4 DEF SameEnd
  <2>3. QED
    BY <2>1, <2>2
<1>7. new.hand = pg.hand \ {e.card[2]}
  BY <1>2, <1>3, <1>4 DEF CardBy
<1>8. (CardTo(Me, e) => e.next = Me) /\ (ToSeat(Me, e) => e.next = Me)
  BY DEF CardTo, ToSeat, CardBy
<1>9. QED
  BY <1>1, <1>4, <1>5, <1>6, <1>7, <1>8, <1>10 DEF Follows

\* A page that shows what it is told at once.
LEMMA HandledAtOnce ==
  ASSUME NEW p, NEW pg, IsPage(pg), pg.queue \in Seq(Events(table)), QueueOK(p, pg),
         ~(pg.chain \/ pg.replaying)
  PROVE  pg.queue = <<>> /\ Replaying(pg, <<>>, pg.chain, FALSE, "none") /\ (After(p, pg) <=> pg.turn = p)
<1>1. pg.queue = <<>> /\ Replaying(pg, <<>>, pg.chain, FALSE, "none")
  BY DEF QueueOK, Replaying
<1>2. QED
  BY <1>1, NoQueue

\* A bot's card is shown, or queued, and the last of a chain starts the replay.
LEMMA HandledBots ==
  ASSUME TableOK, NEW pg, IsPage(pg), pg.queue \in Seq(Events(table)), QueueOK(Me, pg),
         NEW e \in Events(table), e.type = "card_played", e.seat # Me
  PROVE  Follows(Me, pg, e, OnCardPlayed(pg, e))
<1>1. ~CardBy(Me, e) /\ Queueable(Me, e) /\ (CardTo(Me, e) <=> e.next = Me) /\ (ToSeat(Me, e) <=> e.next = Me)
  BY DEF CardBy, CardTo, ToSeat, Queueable
<1>2. e.seat \notin table.human /\ (e.next \in table.human <=> e.next = Me)
  BY DEF TableOK
<1>3. CASE ~(pg.chain \/ pg.replaying)
  <2> DEFINE new == Shown(pg, e)
  <2>1. OnCardPlayed(pg, e) = new
    BY <1>2, <1>3 DEF OnCardPlayed
  <2>2. /\ IsPage(new) /\ SameReplay(pg, new) /\ SameEnd(pg, new) /\ SameLink(pg, new)
        /\ new.turn = e.next
        /\ new.hand = pg.hand
    BY ShownPage
  <2>3. pg.queue = <<>> /\ Replaying(pg, <<>>, pg.chain, FALSE, "none")
    BY <1>3, HandledAtOnce
  <2> HIDE DEF new
  <2>4. Replaying(new, <<>>, new.chain, FALSE, "none")
    BY <2>2, <2>3 DEF SameReplay, Replaying
  <2>5. QueueOK(Me, new) /\ new.queue \in Seq(Events(table)) /\ (After(Me, new) <=> new.turn = Me)
    BY <2>2, <2>4, NoQueue
  <2>6. (new.pending => pg.pending) /\ (new.over => pg.over)
    BY <2>2 DEF SameEnd
  <2>7. QED
    BY <1>1, <2>1, <2>2, <2>5, <2>6 DEF Follows
<1>4. CASE (pg.chain \/ pg.replaying) /\ e.next # Me
  <2> DEFINE new == Queued(pg, e)
  <2>1. OnCardPlayed(pg, e) = new
    BY <1>2, <1>4 DEF OnCardPlayed
  <2>2. /\ IsPage(new) /\ Replaying(new, Append(pg.queue, e), pg.chain, pg.replaying, pg.timer)
        /\ SameEnd(pg, new) /\ SameLink(pg, new) /\ new.turn = pg.turn /\ new.hand = pg.hand
    BY QueuedPage
  <2> DEFINE q == Append(pg.queue, e)
  <2>3. /\ q \in Seq(Events(table)) /\ q # <<>>
        /\ \A i \in DOMAIN q : Queueable(Me, q[i])
        /\ ~pg.replaying /\ ~CardTo(Me, e) => \A i \in DOMAIN q : ~CardTo(Me, q[i])
    BY <1>1, QueueGrows
  <2> HIDE DEF new, q
  <2>4. QueueOK(Me, new) /\ new.queue \in Seq(Events(table))
    BY <1>1, <1>4, <2>2, <2>3 DEF QueueOK, Replaying, q
  <2>5. (new.pending => pg.pending) /\ (new.over => pg.over)
    BY <2>2 DEF SameEnd
  <2>6. QED
    BY <1>1, <1>4, <2>1, <2>2, <2>4, <2>5 DEF Follows
<1>5. CASE (pg.chain \/ pg.replaying) /\ e.next = Me
  <2> DEFINE mid == Queued(pg, e)  ready == [mid EXCEPT !.chain = FALSE]  new == BotReplay(ready)
             q == Append(pg.queue, e)
  <2>1. OnCardPlayed(pg, e) = new
    BY <1>2, <1>5 DEF OnCardPlayed
  <2>2. /\ IsPage(mid) /\ Replaying(mid, q, pg.chain, pg.replaying, pg.timer)
        /\ SameEnd(pg, mid) /\ SameLink(pg, mid) /\ mid.turn = pg.turn /\ mid.hand = pg.hand
    BY QueuedPage
  <2>3. /\ q \in Seq(Events(table)) /\ q # <<>>
        /\ \A i \in DOMAIN q : Queueable(Me, q[i])
        /\ EndsTo(Me, q)
    BY <1>1, <1>5, QueueGrows
  <2> HIDE DEF mid, q
  <2>4. /\ IsPage(ready) /\ Replaying(ready, q, FALSE, pg.replaying, pg.timer)
        /\ SameEnd(pg, ready) /\ SameLink(pg, ready) /\ ready.turn = pg.turn /\ ready.hand = pg.hand
    BY <2>2 DEF IsPage, Replaying, SameEnd, SameLink
  <2> HIDE DEF ready
  <2>5. /\ IsPage(new) /\ SameEnd(ready, new) /\ SameLink(ready, new)
        /\ new.turn = ready.turn /\ new.hand = ready.hand
        /\ IF ready.replaying \/ ready.queue = <<>> THEN SameReplay(ready, new)
           ELSE Replaying(new, ready.queue, ready.chain, TRUE, "bot")
    BY <2>4, BotReplayPage
  <2> HIDE DEF new
  <2>6. /\ new.queue = q /\ new.replaying
        /\ new.timer \in {"none", "bot", "pause"} /\ new.timer # "none"
    <3>1. CASE pg.replaying
      BY <2>4, <2>5, <3>1 DEF QueueOK, Replaying, SameReplay
    <3>2. CASE ~pg.replaying
      BY <2>3, <2>4, <2>5, <3>2 DEF Replaying
    <3>3. QED
      BY <3>1, <3>2
  <2>7. QueueOK(Me, new) /\ new.queue \in Seq(Events(table)) /\ After(Me, new)
    BY <2>3, <2>6 DEF QueueOK, After
  <2>8. (new.pending => pg.pending) /\ (new.over => pg.over) /\ SameLink(pg, new) /\ new.hand = pg.hand
    BY <2>4, <2>5 DEF SameEnd, SameLink
  <2>9. QED
    BY <1>1, <2>1, <2>5, <2>7, <2>8 DEF Follows
<1>6. QED
  BY <1>3, <1>4, <1>5

\* A turn: bots' cards that are queued come first, and the one that ends them gives the turn.
LEMMA HandledTurn ==
  ASSUME NEW p, NEW pg, IsPage(pg), pg.queue \in Seq(Events(table)), QueueOK(p, pg),
         NEW e, e.type = "turn_changed"
  PROVE  Follows(p, pg, e, OnTurnChanged(pg, e))
<1>1. ~CardBy(p, e) /\ ~CardTo(p, e) /\ (ToSeat(p, e) <=> e.next = p)
  BY DEF CardBy, CardTo, ToSeat
<1>2. CASE pg.chain \/ pg.replaying
  <2>1. OnTurnChanged(pg, e) = pg
    BY <1>2 DEF OnTurnChanged
  <2>2. QED
    BY <1>1, <2>1 DEF Follows, SameLink
<1>3. CASE ~(pg.chain \/ pg.replaying)
  <2> DEFINE new == [pg EXCEPT !.turn = e.next]
  <2>1. OnTurnChanged(pg, e) = new
    BY <1>3 DEF OnTurnChanged
  <2>2. Replaying(pg, <<>>, pg.chain, FALSE, "none")
    BY <1>3, HandledAtOnce
  <2>3. /\ IsPage(new) /\ new.turn = e.next /\ Replaying(new, <<>>, new.chain, FALSE, "none")
        /\ SameLink(pg, new) /\ SameEnd(pg, new) /\ new.hand = pg.hand
    BY <2>2 DEF IsPage, Replaying, SameLink, SameEnd
  <2> HIDE DEF new
  <2>4. QueueOK(p, new) /\ new.queue \in Seq(Events(table)) /\ (After(p, new) <=> new.turn = p)
    BY <2>3, NoQueue
  <2>5. (new.pending => pg.pending) /\ (new.over => pg.over)
    BY <2>3 DEF SameEnd
  <2>6. QED
    BY <1>1, <2>1, <2>3, <2>4, <2>5 DEF Follows
<1>4. QED
  BY <1>2, <1>3

\* A replay that starts changes neither the queue nor what follows from it.
LEMMA ReplayStarts ==
  ASSUME NEW p, NEW pg, IsPage(pg), \A i \in DOMAIN pg.queue : Queueable(p, pg.queue[i]),
         pg.timer \in {"none", "bot", "pause"}, pg.replaying <=> pg.timer # "none"
  PROVE  LET new == BotReplay(pg) IN
         /\ IsPage(new) /\ SameEnd(pg, new) /\ SameLink(pg, new)
         /\ new.turn = pg.turn /\ new.hand = pg.hand /\ new.queue = pg.queue
         /\ QueueOK(p, new)
         /\ After(p, new) <=> After(p, pg)
<1> DEFINE new == BotReplay(pg)
<1>1. /\ IsPage(new) /\ SameEnd(pg, new) /\ SameLink(pg, new)
      /\ new.turn = pg.turn /\ new.hand = pg.hand
      /\ IF pg.replaying \/ pg.queue = <<>> THEN SameReplay(pg, new)
         ELSE Replaying(new, pg.queue, pg.chain, TRUE, "bot")
  BY BotReplayPage
<1> HIDE DEF new
<1>2. new.queue = pg.queue
  BY <1>1 DEF SameReplay, Replaying
<1>3. CASE pg.replaying \/ pg.queue # <<>>
  <2>1. new.replaying /\ new.timer \in {"none", "bot", "pause"} /\ new.timer # "none"
    BY <1>1, <1>3 DEF SameReplay, Replaying
  <2>2. QueueOK(p, new)
    BY <1>2, <2>1 DEF QueueOK
  <2>3. QED
    BY <1>1, <1>2, <2>2 DEF After, new
<1>4. CASE ~pg.replaying /\ pg.queue = <<>>
  <2>1. ~new.replaying /\ new.timer = "none" /\ new.queue = <<>>
    BY <1>1, <1>4 DEF SameReplay, Replaying
  <2>2. QueueOK(p, new)
    BY <2>1 DEF QueueOK
  <2>3. QED
    BY <1>1, <1>2, <2>2 DEF After, new
<1>5. QED
  BY <1>3, <1>4

LEMMA HandledRound ==
  ASSUME NEW p, NEW pg, IsPage(pg), pg.queue \in Seq(Events(table)), QueueOK(p, pg),
         pg.reveal = None, NEW e \in Events(table), e.type = "round_completed"
  PROVE  Follows(p, pg, e, OnRoundCompleted(pg, e))
<1>1. ~CardBy(p, e) /\ ~CardTo(p, e) /\ ToSeat(p, e) /\ Queueable(p, e) /\ ~Revealing(pg)
  BY DEF CardBy, CardTo, ToSeat, Queueable, Revealing
<1>2. CASE pg.chain \/ pg.replaying
  <2> DEFINE mid == Queued(pg, e)  new == BotReplay(mid)  q == Append(pg.queue, e)
  <2>1. OnRoundCompleted(pg, e) = new
    BY <1>1, <1>2 DEF OnRoundCompleted
  <2>2. /\ IsPage(mid) /\ Replaying(mid, q, pg.chain, pg.replaying, pg.timer)
        /\ SameEnd(pg, mid) /\ SameLink(pg, mid) /\ mid.turn = pg.turn /\ mid.hand = pg.hand
    BY QueuedPage
  <2>3. /\ q \in Seq(Events(table)) /\ \A i \in DOMAIN q : Queueable(p, q[i])
        /\ AllTo(p, pg.queue) => AllTo(p, q)
        /\ EndsTo(p, pg.queue) => EndsTo(p, q)
    BY <1>1, QueueGrows
  <2>4. pg.timer \in {"none", "bot", "pause"} /\ (pg.replaying <=> pg.timer # "none")
    BY DEF QueueOK
  <2> HIDE DEF mid, q
  <2>5. /\ IsPage(new) /\ SameEnd(mid, new) /\ SameLink(mid, new)
        /\ new.turn = mid.turn /\ new.hand = mid.hand /\ new.queue = mid.queue
        /\ QueueOK(p, new)
        /\ After(p, new) <=> After(p, mid)
    BY <2>2, <2>3, <2>4, ReplayStarts DEF Replaying
  <2> HIDE DEF new
  <2>6. new.queue \in Seq(Events(table)) /\ (After(p, pg) => After(p, new))
    BY <2>2, <2>3, <2>5 DEF Replaying, After
  <2>7. (new.pending => pg.pending) /\ (new.over => pg.over) /\ SameLink(pg, new) /\ new.hand = pg.hand
    BY <2>2, <2>5 DEF SameEnd, SameLink
  <2>8. QED
    BY <1>1, <2>1, <2>5, <2>6, <2>7 DEF Follows
<1>3. CASE ~(pg.chain \/ pg.replaying)
  <2> DEFINE new == [pg EXCEPT !.winner = TRUE]
  <2>1. OnRoundCompleted(pg, e) = new
    BY <1>1, <1>3 DEF OnRoundCompleted
  <2>2. /\ IsPage(new) /\ SameReplay(pg, new) /\ new.turn = pg.turn
        /\ SameLink(pg, new) /\ SameEnd(pg, new) /\ new.hand = pg.hand
    BY DEF IsPage, SameReplay, Replaying, SameLink, SameEnd
  <2> HIDE DEF new
  <2>3. /\ QueueOK(p, new) /\ new.queue \in Seq(Events(table)) /\ (After(p, pg) => After(p, new))
        /\ (new.pending => pg.pending) /\ (new.over => pg.over)
    BY <2>2 DEF QueueOK, SameReplay, Replaying, After, SameEnd
  <2>4. QED
    BY <1>1, <2>1, <2>2, <2>3 DEF Follows
<1>4. QED
  BY <1>2, <1>3

\* The end of the game waits for the queue.
LEMMA HandledEnd ==
  ASSUME NEW p, NEW pg, IsPage(pg), pg.queue \in Seq(Events(table)), QueueOK(p, pg),
         pg.reveal = None, NEW e, e.type = "game_finished"
  PROVE  Follows(p, pg, e, OnGameFinished(pg))
<1>1. ~CardBy(p, e) /\ ~CardTo(p, e)
  BY DEF CardBy, CardTo
<1>2. CASE Defers(pg)
  <2> DEFINE mid == [pg EXCEPT !.pending = TRUE]  new == BotReplay(mid)
  <2>1. OnGameFinished(pg) = new
    BY <1>2 DEF OnGameFinished
  <2>2. /\ IsPage(mid) /\ SameReplay(pg, mid) /\ SameLink(pg, mid) /\ mid.turn = pg.turn
        /\ mid.hand = pg.hand /\ mid.over = pg.over
    BY DEF IsPage, SameReplay, Replaying, SameLink
  <2> HIDE DEF mid
  <2>3. /\ \A i \in DOMAIN mid.queue : Queueable(p, mid.queue[i])
        /\ mid.timer \in {"none", "bot", "pause"} /\ (mid.replaying <=> mid.timer # "none")
        /\ mid.queue \in Seq(Events(table)) /\ (After(p, pg) => After(p, mid))
    BY <2>2 DEF QueueOK, SameReplay, Replaying, After
  <2>4. /\ IsPage(new) /\ SameEnd(mid, new) /\ SameLink(mid, new)
        /\ new.turn = mid.turn /\ new.hand = mid.hand /\ new.queue = mid.queue
        /\ QueueOK(p, new)
        /\ After(p, new) <=> After(p, mid)
    BY <2>2, <2>3, ReplayStarts
  <2> HIDE DEF new
  <2>5. (new.over => pg.over) /\ SameLink(pg, new) /\ new.hand = pg.hand
    BY <2>2, <2>4 DEF SameEnd, SameLink
  <2>6. QED
    BY <1>1, <2>1, <2>3, <2>4, <2>5 DEF Follows
<1>3. CASE ~Defers(pg)
  <2> DEFINE can == Cancelled(pg)  new == [can EXCEPT !.over = TRUE]
  <2>1. OnGameFinished(pg) = new
    BY <1>3 DEF OnGameFinished
  <2>2. pg.queue = <<>> /\ (After(p, pg) <=> pg.turn = p)
    BY <1>3, HandledAtOnce DEF Defers
  <2>3. /\ IsPage(can) /\ Replaying(can, <<>>, FALSE, FALSE, "none")
        /\ can.turn = pg.turn /\ can.hand = pg.hand /\ can.pending = FALSE
        /\ can.reveal = None /\ can.connected = pg.connected /\ can.held = pg.held
    BY CancelledPage
  <2> HIDE DEF can
  <2>4. /\ IsPage(new) /\ Replaying(new, <<>>, FALSE, FALSE, "none")
        /\ new.turn = pg.turn /\ new.hand = pg.hand /\ new.pending = FALSE
        /\ SameLink(pg, new)
    BY <2>3 DEF IsPage, Replaying, SameLink
  <2> HIDE DEF new
  <2>5. QueueOK(p, new) /\ new.queue \in Seq(Events(table)) /\ (After(p, new) <=> new.turn = p)
    BY <2>4, NoQueue DEF Replaying
  <2>6. QED
    BY <1>1, <2>1, <2>2, <2>4, <2>5 DEF Follows
<1>4. QED
  BY <1>2, <1>3

LEMMA HandledPage ==
  ASSUME TableOK, NEW pg, IsPage(pg), pg.queue \in Seq(Events(table)), QueueOK(Me, pg),
         pg.reveal = None, NEW e \in Events(table), CardBy(Me, e) => ~pg.pending
  PROVE  Follows(Me, pg, e, Handled(pg, e))
<1>1. \/ e.type = "card_played" \/ e.type = "turn_changed"
      \/ e.type = "round_completed" \/ e.type = "game_finished"
  BY EventKinds
<1>2. CASE e.type = "card_played" /\ e.seat = Me
  <2>1. Handled(pg, e) = OnCardPlayed(pg, e)
    BY <1>2 DEF Handled
  <2>2. QED
    BY <1>2, <2>1, HandledMine DEF CardBy
<1>3. CASE e.type = "card_played" /\ e.seat # Me
  <2>1. Handled(pg, e) = OnCardPlayed(pg, e)
    BY <1>3 DEF Handled
  <2>2. QED
    BY <1>3, <2>1, HandledBots
<1>4. CASE e.type = "turn_changed"
  <2>1. Handled(pg, e) = OnTurnChanged(pg, e)
    BY <1>4 DEF Handled
  <2>2. QED
    BY <1>4, <2>1, HandledTurn
<1>5. CASE e.type = "round_completed"
  <2>1. Handled(pg, e) = OnRoundCompleted(pg, e)
    BY <1>5 DEF Handled
  <2>2. QED
    BY <1>5, <2>1, HandledRound
<1>6. CASE e.type = "game_finished"
  <2>1. Handled(pg, e) = OnGameFinished(pg)
    BY <1>6 DEF Handled
  <2>2. QED
    BY <1>6, <2>1, HandledEnd
<1>7. QED
  BY <1>1, <1>2, <1>3, <1>4, <1>5, <1>6

\* A timer goes off: what follows from the queue is what followed from it before.
LEMMA ReplayedPage ==
  ASSUME NEW pg, IsPage(pg), pg.queue \in Seq(Events(table)), QueueOK(Me, pg),
         pg.timer \in {"bot", "pause"}
  PROVE  LET new == ReplayNext(pg) IN
         /\ IsPage(new) /\ new.queue \in Seq(Events(table)) /\ QueueOK(Me, new) /\ SameLink(pg, new)
         /\ new.hand = pg.hand /\ (After(Me, pg) => After(Me, new))
         /\ (new.pending => pg.pending) /\ (new.over => pg.over \/ pg.queue = <<>>)
<1> DEFINE new == ReplayNext(pg)
<1>1. pg.replaying /\ \A i \in DOMAIN pg.queue : Queueable(Me, pg.queue[i])
  BY DEF QueueOK
<1>2. CASE pg.queue = <<>>
  <2>1. new = Drained(pg)
    BY <1>2 DEF ReplayNext
  <2> HIDE DEF new
  <2>2. /\ IsPage(new) /\ Replaying(new, pg.queue, FALSE, FALSE, "none") /\ SameLink(pg, new)
        /\ new.turn = pg.turn /\ new.hand = pg.hand /\ new.pending = FALSE
    BY <2>1, DrainedPage
  <2>3. Replaying(new, <<>>, new.chain, FALSE, "none")
    BY <1>2, <2>2 DEF Replaying
  <2>7. IsPage(new)
    BY <2>2
  <2>4. QueueOK(Me, new) /\ new.queue \in Seq(Events(table)) /\ (After(Me, new) <=> new.turn = Me)
    BY <2>3, <2>7, NoQueue
  <2>5. After(Me, pg) => pg.turn = Me
    BY <1>2 DEF After, EndsTo
  <2>6. QED
    BY <1>2, <2>2, <2>4, <2>5 DEF new
<1>3. CASE pg.queue # <<>>
  <2> DEFINE s == pg.queue  e == Head(s)  rest == Tail(s)
  <2>1. /\ rest \in Seq(Events(table)) /\ Len(s) \in Nat \ {0} /\ e = s[1] /\ e \in Events(table)
        /\ DOMAIN s = 1..Len(s) /\ DOMAIN rest = 1..(Len(s) - 1)
        /\ \A i \in 1..(Len(s) - 1) : rest[i] = s[i + 1]
    BY <1>3, TailAt
  <2>2. /\ AllTo(Me, s) <=> ToSeat(Me, e) /\ AllTo(Me, rest)
        /\ EndsTo(Me, s) <=> EndsTo(Me, rest) \/ (CardTo(Me, e) /\ AllTo(Me, rest))
    BY <1>3, TailTurn
  <2> HIDE DEF e, rest, s
  <2>3. Queueable(Me, e) /\ \A i \in DOMAIN rest : Queueable(Me, rest[i])
    <3>1. 1 \in DOMAIN s /\ \A i \in DOMAIN rest : i + 1 \in DOMAIN s
      BY <2>1
    <3>2. QED
      BY <1>1, <2>1, <3>1 DEF s
  <2>4. CASE e.type = "round_completed"
    <3>1. /\ IsPage(new) /\ Replaying(new, rest, pg.chain, pg.replaying, "pause")
          /\ SameEnd(pg, new) /\ SameLink(pg, new) /\ new.turn = pg.turn /\ new.hand = pg.hand
      BY <1>3, <2>4, ReplayedRound DEF e, s, rest
    <3> HIDE DEF new
    <3>2. QueueOK(Me, new) /\ new.queue \in Seq(Events(table))
      BY <1>1, <2>1, <2>3, <3>1 DEF QueueOK, Replaying
    <3>3. ~CardTo(Me, e)
      BY <2>4 DEF CardTo
    <3>4. After(Me, pg) => After(Me, new)
      BY <2>2, <3>1, <3>3 DEF After, Replaying, s
    <3>5. (new.pending => pg.pending) /\ (new.over => pg.over)
      BY <3>1 DEF SameEnd
    <3>6. QED
      BY <3>1, <3>2, <3>4, <3>5 DEF new
  <2>5. CASE e.type = "card_played"
    <3>1. e.seat # Me
      BY <2>3, <2>5 DEF Queueable, CardBy
    <3>2. /\ IsPage(new)
          /\ \E timer \in {"pause", "bot"} : Replaying(new, rest, pg.chain, pg.replaying, timer)
          /\ SameEnd(pg, new) /\ SameLink(pg, new) /\ new.turn = e.next /\ new.hand = pg.hand
      BY <1>3, <2>5, <3>1, ReplayedCard DEF e, s, rest
    <3> HIDE DEF new
    <3>3. new.queue = rest /\ new.replaying = pg.replaying /\ new.timer \in {"pause", "bot"}
      BY <3>2 DEF Replaying
    <3>4. QueueOK(Me, new) /\ new.queue \in Seq(Events(table))
      BY <1>1, <2>1, <2>3, <3>3 DEF QueueOK
    <3>5. (CardTo(Me, e) => e.next = Me) /\ (ToSeat(Me, e) => e.next = Me)
      BY <2>5 DEF CardTo, ToSeat
    <3>6. After(Me, pg) => After(Me, new)
      BY <2>2, <3>2, <3>3, <3>5 DEF After, s
    <3>7. (new.pending => pg.pending) /\ (new.over => pg.over)
      BY <3>2 DEF SameEnd
    <3>8. QED
      BY <3>2, <3>4, <3>6, <3>7 DEF new
  <2>6. QED
    BY <2>3, <2>4, <2>5 DEF Queueable
<1>4. QED
  BY <1>2, <1>3
------------------------------------------------------------------------------
\* Steps of the page.

\* Nothing moves but the page: its replay goes on, or its animations do.
LEMMA PageKeeps ==
  ASSUME Core, UNCHANGED <<table, srv, last, out, conn, wire, snap>>,
         IsPage(page'), page'.queue \in Seq(Events(table)), QueueOK(Me, page'), SameLink(page, page'),
         page'.hand = page.hand, After(Me, page) => After(Me, page'), page'.pending => page.pending
  PROVE  Core'
<1> USE DEF Core
<1>1. /\ table' = table /\ srv' = srv /\ last' = last /\ conn' = conn /\ snap' = snap
      /\ out' = out /\ wire' = wire
      /\ Me' = Me /\ Seat' = Seat /\ Rounds' = Rounds /\ MyPlays' = MyPlays
  BY DEF Me, Seat, Rounds, MyPlays
<1>2. TableOK' /\ Typed'
  BY <1>1 DEF TableOK, Typed
<1>3. TurnInv'
  <2>1. Coming => Coming'
    BY <1>1 DEF Coming, ComesTo
  <2>2. QED
    BY <1>1, <2>1 DEF TurnInv
<1>4. HandInv' /\ OverInv'
  BY <1>1 DEF HandInv, OverInv
<1>5. QueueInv' /\ LinkInv' /\ RoundInv'
  BY <1>1 DEF QueueInv, LinkInv, LinkOK, SameLink, RoundInv, Led
<1>6. QED
  BY <1>2, <1>3, <1>4, <1>5

LEMMA ReplayKeeps ==
  ASSUME Core, Replay
  PROVE  Core' /\ (page'.over => page.over \/ page.queue = <<>>)
<1>1. /\ IsPage(page) /\ page.queue \in Seq(Events(table)) /\ QueueOK(Me, page)
      /\ page.timer \in {"bot", "pause"} /\ page' = ReplayNext(page)
      /\ UNCHANGED <<table, srv, last, out, conn, wire, snap>>
  BY DEF Core, Typed, QueueInv, Replay, PageBecomes
<1>2. /\ IsPage(page') /\ page'.queue \in Seq(Events(table)) /\ QueueOK(Me, page') /\ SameLink(page, page')
      /\ page'.hand = page.hand /\ (After(Me, page) => After(Me, page'))
      /\ (page'.pending => page.pending) /\ (page'.over => page.over \/ page.queue = <<>>)
  BY <1>1, ReplayedPage
<1>3. QED
  BY <1>1, <1>2, PageKeeps

LEMMA ClearKeeps ==
  ASSUME Core, ClearDeck \/ ClearWinner
  PROVE  Core' /\ (page'.over => page.over)
<1>1. UNCHANGED <<table, srv, last, out, conn, wire, snap>>
  BY DEF ClearDeck, ClearWinner
<1>2. /\ IsPage(page) /\ page.queue \in Seq(Events(table)) /\ QueueOK(Me, page)
  BY DEF Core, Typed, QueueInv
<1>3. IsPage(page') /\ SameReplay(page, page') /\ SameEnd(page, page') /\ SameLink(page, page')
      /\ page'.hand = page.hand /\ page'.turn = page.turn
  <2>1. CASE ClearDeck
    BY <1>2, <2>1 DEF ClearDeck, PageBecomes, IsPage, SameReplay, Replaying, SameEnd, SameLink
  <2>2. CASE ClearWinner
    BY <1>2, <2>2 DEF ClearWinner, PageBecomes, IsPage, SameReplay, Replaying, SameEnd, SameLink
  <2>3. QED
    BY <2>1, <2>2
<1>4. /\ page'.queue \in Seq(Events(table)) /\ QueueOK(Me, page') /\ (After(Me, page) => After(Me, page'))
      /\ (page'.pending => page.pending) /\ (page'.over => page.over)
  BY <1>2, <1>3 DEF SameReplay, Replaying, QueueOK, After, SameEnd
<1>5. QED
  BY <1>1, <1>3, <1>4, PageKeeps

\* The next event is handled: what is on its way is one less, and the page has it.
LEMMA DeliverKeeps ==
  ASSUME Core, Deliver
  PROVE  Core' /\ (page'.over => page.over \/ page.queue = <<>>)
<1> USE DEF Core
<1>1. /\ table' = table /\ srv' = srv /\ last' = last /\ conn' = conn /\ snap' = snap /\ out' = out
      /\ Me' = Me /\ Seat' = Seat /\ Rounds' = Rounds /\ MyPlays' = MyPlays
  BY DEF Deliver, Me, Seat, Rounds, MyPlays
<1> DEFINE e == Head(wire)  rest == Tail(wire)
<1>2. wire # <<>> /\ wire' = rest /\ page' = Handled(page, e) /\ wire \in Seq(Events(table))
  BY DEF Deliver, PageBecomes, Typed
<1>3. e \in Events(table) /\ rest \in Seq(Events(table))
  BY <1>2, TailAt
<1>4. CardBy(Me, e) => e.card[2] \in Nat
  BY <1>3, EventKinds DEF CardBy
<1>5. /\ AllTo(Me, wire) <=> ToSeat(Me, e) /\ AllTo(Me, rest)
      /\ EndsTo(Me, wire) <=> EndsTo(Me, rest) \/ (CardTo(Me, e) /\ AllTo(Me, rest))
  BY <1>2, TailTurn
<1>6. /\ CardsBy(Me, rest) \subseteq CardsBy(Me, wire)
      /\ ~CardBy(Me, e) => CardsBy(Me, rest) = CardsBy(Me, wire)
      /\ CardBy(Me, e) => /\ e.card[2] \in CardsBy(Me, wire)
                          /\ CardsBy(Me, rest) = CardsBy(Me, wire) \ {e.card[2]}
      /\ Rising(Me, rest) /\ EndLast(Me, rest)
      /\ Finishes(wire) <=> e.type = "game_finished" \/ Finishes(rest)
      /\ e.type = "game_finished" => CardsBy(Me, rest) = {}
  <2>1. Rising(Me, wire) /\ EndLast(Me, wire)
    BY DEF HandInv, OverInv
  <2>2. QED
    BY <1>2, <1>4, <2>1, TailCards
<1> HIDE DEF e, rest
<1>7. Follows(Me, page, e, page')
  <2>1. IsPage(page) /\ page.queue \in Seq(Events(table)) /\ QueueOK(Me, page) /\ page.reveal = None
    BY DEF Typed, QueueInv, LinkInv, LinkOK
  <2>2. CardBy(Me, e) => ~page.pending
    BY <1>6 DEF OverInv
  <2>3. QED
    BY <1>2, <1>3, <2>1, <2>2, HandledPage
<1>8. TableOK' /\ Typed'
  BY <1>1, <1>2, <1>3, <1>7 DEF TableOK, Typed, Follows
<1>9. TurnInv'
  <2>1. Coming => Coming'
    BY <1>1, <1>2, <1>5, <1>7 DEF Coming, ComesTo, Follows
  <2>2. QED
    BY <1>1, <2>1 DEF TurnInv
<1>10. HandInv'
  <2>1. \A k \in CardsBy(Me, out[Me]) : k = MyPlays /\ k \notin CardsBy(Me, rest)
    BY <1>6 DEF HandInv
  <2>2. page'.hand = {k \in 1..Rounds : k > MyPlays} \union CardsBy(Me, rest) \union CardsBy(Me, out[Me])
    <3> DEFINE mine == CardsBy(Me, wire)  left == {k \in 1..Rounds : k > MyPlays}
               kept == CardsBy(Me, out[Me])
    <3>1. page.hand = left \union mine \union kept
      BY DEF HandInv
    <3>2. CASE ~CardBy(Me, e)
      BY <1>6, <1>7, <3>1, <3>2 DEF Follows
    <3>3. CASE CardBy(Me, e)
      <4>1. e.card[2] \in mine /\ CardsBy(Me, rest) = mine \ {e.card[2]}
            /\ page'.hand = page.hand \ {e.card[2]}
        BY <1>6, <1>7, <3>3 DEF Follows
      <4>2. e.card[2] \notin kept
        BY <4>1 DEF HandInv
      <4>3. e.card[2] \notin left
        <5>1. e.card[2] \in Nat /\ e.card[2] <= MyPlays
          BY <1>4, <3>3, <4>1 DEF HandInv
        <5>2. MyPlays \in Int
          BY DEF MyPlays, Typed
        <5>3. QED
          BY <5>1, <5>2
      <4> HIDE DEF mine, left, kept
      <4>4. page'.hand = left \union CardsBy(Me, rest) \union kept
        BY <3>1, <4>1, <4>2, <4>3
      <4>5. QED
        BY <4>4 DEF left, kept
    <3>4. QED
      BY <3>2, <3>3
  <2>3. QED
    BY <1>1, <1>2, <1>6, <2>1, <2>2 DEF HandInv
<1>11. OverInv'
  <2>1. page'.pending => page.pending \/ e.type = "game_finished"
    BY <1>7 DEF Follows
  <2>2. Finishes(rest) \/ page'.pending => srv.over /\ CardsBy(Me, out[Me]) = {}
    BY <1>6, <2>1 DEF OverInv
  <2>3. page'.pending => CardsBy(Me, rest) = {}
    BY <1>6, <2>1 DEF OverInv
  <2>4. QED
    BY <1>1, <1>2, <1>6, <2>2, <2>3 DEF OverInv
<1>12. QueueInv' /\ LinkInv' /\ RoundInv'
  BY <1>1, <1>7 DEF QueueInv, LinkInv, LinkOK, SameLink, Follows, RoundInv, Led
<1>13. QED
  BY <1>7, <1>8, <1>9, <1>10, <1>11, <1>12 DEF Follows
------------------------------------------------------------------------------
\* The invariant.

LEMMA InvInit ==
  ASSUME Init
  PROVE  Inv
<1>1. table \in Tables /\ drops \in Nat
  BY DEF Init
<1>2. ASSUME Calm PROVE Core
  <2>1. TableOK
    BY <1>1, <1>2, CalmTable
  <2>2. PICK p \in Seat : srv = [turn |-> p, round |-> 1, trick |-> <<>>, claim |-> table.claim,
                                over |-> FALSE]
    BY DEF Init
  <2>3. /\ last = p /\ out = [a \in {Scan} \union Seat |-> <<>>] /\ conn = "up" /\ wire = <<>>
        /\ snap = None /\ page = NewPage
    BY <2>2 DEF Init
  <2>4. /\ srv.turn = p /\ srv.round = 1 /\ srv.trick = <<>> /\ srv.claim = FALSE /\ srv.over = FALSE
        /\ Rounds \in Nat \ {0} /\ Me \in Seat /\ p \in Seat /\ table.n \in Nat \ {0, 1}
    BY <2>1, <2>2 DEF TableOK
  <2>5. \A a \in {Scan} \union Seat : out[a] = <<>>
    BY <2>3
  <2>6. /\ IsPage(page) /\ Replaying(page, <<>>, FALSE, FALSE, "none") /\ page.turn = p
        /\ page.hand = 1..Rounds /\ page.reveal = None /\ page.held = None
        /\ page.connected = TRUE /\ page.pending = FALSE
    BY <2>3, <2>4 DEF NewPage, IsPage, Replaying
  <2>7. Typed
    <3>1. srv \in [turn : Seat, round : 1..Rounds, trick : Seq(Seat), claim : {FALSE}, over : BOOLEAN]
      <4>1. 1 \in 1..Rounds /\ <<>> \in Seq(Seat) /\ table.claim = FALSE
        BY <2>1, <2>4 DEF TableOK
      <4>2. QED
        BY <2>2, <4>1
    <3>2. <<>> \in Seq(Events(table))
      OBVIOUS
    <3>3. out \in [{Scan} \union Seat -> Seq(Events(table))]
      BY <2>3, <3>2
    <3>4. QED
      BY <2>3, <2>4, <2>6, <3>1, <3>2, <3>3 DEF Typed, Replaying
  <2>8. AllTo(Me, <<>>) /\ ~EndsTo(Me, <<>>) /\ CardsBy(Me, <<>>) = {} /\ Rising(Me, <<>>)
        /\ EndLast(Me, <<>>) /\ CardFirst(<<>>) /\ ~Finishes(<<>>)
    BY DEF AllTo, EndsTo, CardsBy, Rising, EndLast, CardFirst, Finishes
  <2>9. TurnInv
    <3>1. \A a \in Seat : AllTo(Me, out[a])
      BY <2>5, <2>8
    <3>2. srv.turn = Me => Coming
      BY <2>3, <2>4, <2>6, <2>8 DEF Coming, ComesTo, After, Replaying
    <3>3. QED
      BY <2>3, <2>4, <3>1, <3>2 DEF TurnInv
  <2>10. HandInv
    <3>1. MyPlays = 0
      BY <2>4 DEF MyPlays, ToSet
    <3>2. {k \in 1..Rounds : k > MyPlays} = 1..Rounds
      BY <2>4, <3>1
    <3>3. QED
      BY <2>3, <2>4, <2>5, <2>6, <2>8, <3>2 DEF HandInv
  <2>11. OverInv
    BY <2>3, <2>4, <2>5, <2>6, <2>8 DEF OverInv
  <2>12. QueueInv /\ LinkInv
    BY <2>3, <2>5, <2>6 DEF QueueInv, QueueOK, LinkInv, LinkOK, Replaying
  <2>13. RoundInv
    <3>1. p \in 0..table.n - 1 /\ Me \in 0..table.n - 1
      BY <2>4 DEF Seat
    <3>2. Led(p)
      BY <2>4, <3>1 DEF Led, Dist, ToSet
    <3>3. QED
      BY <3>2 DEF RoundInv
  <2>14. QED
    BY <2>1, <2>7, <2>9, <2>10, <2>11, <2>12, <2>13 DEF Core
<1>3. QED
  BY <1>1, <1>2 DEF Inv

\* The other steps need a second human, a claim or a lost connection.
LEMMA CalmSteps ==
  ASSUME Core, Calm, Next
  PROVE  \/ /\ \E p \in Seat : Play(p) /\ (p # Me => out[last] = <<>>)
            /\ UNCHANGED <<table, conn, wire, snap, page, drops>>
         \/ \E a \in {Scan} \union Seat : Publish(a)
         \/ Deliver \/ Replay \/ ClearDeck \/ ClearWinner
         \/ drops' = drops + 1 /\ page' = [page EXCEPT !.connected = FALSE]
<1>1. /\ table.human = {Me} /\ srv.claim = FALSE /\ conn = "up" /\ snap = None /\ page.connected
      /\ page.timer # "reveal" /\ DOMAIN out = {Scan} \union Seat /\ Me \in Seat
  BY DEF Core, TableOK, Typed, LinkInv, LinkOK, QueueInv, QueueOK
<1>2. ASSUME NEW p \in Seat, BotPlays(p)
      PROVE  Play(p) /\ (p # Me => out[last] = <<>>) /\ UNCHANGED <<table, conn, wire, snap, page, drops>>
  BY <1>2 DEF BotPlays
<1>3. ASSUME NEW p \in Seat, OtherPlays(p) PROVE FALSE
  BY <1>1, <1>3 DEF OtherPlays
<1>4. ASSUME Click PROVE Play(Me) /\ UNCHANGED <<table, conn, wire, snap, page, drops>>
  BY <1>4 DEF Click
<1>5. ~Decline /\ ~ClaimVictory /\ ~Kick
  BY <1>1 DEF Decline, ClaimVictory, Kick
<1>6. ~Connect /\ ~ReadGame /\ ~SendSnapshot /\ ~Poll /\ ~Reveal
  BY <1>1 DEF Connect, ReadGame, SendSnapshot, Poll, Reveal, None
<1>7. Drop => drops' = drops + 1 /\ page' = [page EXCEPT !.connected = FALSE]
  BY DEF Drop
<1>8. QED
  BY <1>1, <1>2, <1>3, <1>4, <1>5, <1>6, <1>7 DEF Next, Timers

LEMMA CoreKeeps ==
  ASSUME Core, Calm, Next
  PROVE  /\ Calm' => Core'
         /\ page'.over => page.over \/ page.queue = <<>>
<1>1. CASE \E p \in Seat : Play(p) /\ (p # Me => out[last] = <<>>)
           /\ UNCHANGED <<table, conn, wire, snap, page, drops>>
  BY <1>1, PlayKeeps
<1>2. CASE \E a \in {Scan} \union Seat : Publish(a)
  <2>1. Core'
    BY <1>2, PublishKeeps
  <2>2. page' = page
    BY <1>2 DEF Publish
  <2>3. QED
    BY <2>1, <2>2
<1>3. CASE Deliver
  BY <1>3, DeliverKeeps
<1>4. CASE Replay
  BY <1>4, ReplayKeeps
<1>5. CASE ClearDeck \/ ClearWinner
  BY <1>5, ClearKeeps
<1>6. CASE drops' = drops + 1 /\ page' = [page EXCEPT !.connected = FALSE]
  <2>1. ~Calm'
    BY <1>6 DEF Calm
  <2>2. page'.over = page.over
    BY <1>6 DEF Core, Typed, IsPage
  <2>3. QED
    BY <2>1, <2>2
<1>7. QED
  BY <1>1, <1>2, <1>3, <1>4, <1>5, <1>6, CalmSteps

LEMMA InvNext ==
  ASSUME Inv, [Next]_vars
  PROVE  Inv'
<1>1. CASE Next
  <2>1. table' = table
    BY <1>1 DEF Next, Timers, BotPlays, OtherPlays, Click, Decline, ClaimVictory, Kick, Publish,
                Connect, ReadGame, SendSnapshot, Drop, Deliver, Poll, Replay, Reveal, ClearDeck,
                ClearWinner
  <2>2. drops' = drops \/ drops' = drops + 1
    BY <1>1 DEF Next, Timers, BotPlays, OtherPlays, Click, Decline, ClaimVictory, Kick, Publish,
                Connect, ReadGame, SendSnapshot, Drop, Deliver, Poll, Replay, Reveal, ClearDeck,
                ClearWinner
  <2>3. Calm' => Calm
    BY <2>1, <2>2 DEF Inv, Calm, Me
  <2>4. Calm' => Core'
    BY <1>1, <2>3, CoreKeeps DEF Inv
  <2>5. QED
    BY <2>1, <2>2, <2>4 DEF Inv
<1>2. CASE UNCHANGED vars
  <2>1. /\ table' = table /\ srv' = srv /\ last' = last /\ out' = out /\ conn' = conn
        /\ wire' = wire /\ snap' = snap /\ page' = page /\ drops' = drops
        /\ Me' = Me /\ Seat' = Seat /\ Rounds' = Rounds
    BY <1>2 DEF vars, Me, Seat, Rounds
  <2>2. /\ IsPage(page) /\ page.queue \in Seq(Events(table)) /\ QueueOK(Me, page) => (Core => Core')
    BY <2>1, PageKeeps DEF SameLink
  <2>3. Core => Core'
    BY <2>2 DEF Core, Typed, QueueInv
  <2>4. QED
    BY <2>1, <2>3 DEF Inv, Calm
<1>3. QED
  BY <1>1, <1>2

\* At a table with one human whose connection holds, what is on its way, what is queued and
\* what is shown add up to what the server has.
THEOREM InvAlways == Spec => []Inv
<1>1. Init => Inv
  BY InvInit
<1>2. Inv /\ [Next]_vars => Inv'
  BY InvNext
<1>3. QED
  BY <1>1, <1>2, PTL DEF Spec
------------------------------------------------------------------------------
LEMMA SettlesByInv ==
  ASSUME Inv
  PROVE  TableSettles
<1> SUFFICES ASSUME Settled, Calm
             PROVE  page.turn = srv.turn /\ page.hand = (1..Rounds) \ (1..MyPlays)
  BY DEF TableSettles
<1>1. Core
  BY DEF Inv
<1>2. /\ srv.turn = Me /\ ~srv.over /\ page.timer = "none" /\ wire = <<>>
      /\ \A a \in Seat : out[a] = <<>>
      /\ last \in Seat /\ Me \in Seat
  BY <1>1 DEF Settled, InFlight, Core, Typed, TableOK
<1>3. ~HasCard(<<>>) /\ ~EndsTo(Me, <<>>) /\ CardsBy(Me, <<>>) = {}
  BY DEF HasCard, EndsTo, CardsBy
<1>4. page.turn = Me
  <2>1. Coming
    BY <1>1, <1>2, <1>3 DEF Core, TurnInv
  <2>2. ~page.replaying /\ \A i \in DOMAIN page.queue : ~CardTo(Me, page.queue[i])
    BY <1>1, <1>2 DEF Core, QueueInv, QueueOK
  <2>3. ~EndsTo(Me, page.queue)
    BY <2>2 DEF EndsTo
  <2>4. QED
    BY <1>2, <1>3, <2>1, <2>3 DEF Coming, ComesTo, After
<1>5. page.hand = {k \in 1..Rounds : k > MyPlays}
  BY <1>1, <1>2, <1>3 DEF Core, HandInv
<1>6. MyPlays \in Int
  BY <1>1 DEF Core, Typed, MyPlays
<1>7. Rounds \in Nat
  BY <1>1 DEF Core, TableOK
<1>8. {k \in 1..Rounds : k > MyPlays} = (1..Rounds) \ (1..MyPlays)
  BY <1>6, <1>7
<1>9. QED
  BY <1>2, <1>4, <1>5, <1>8

\* Once everything has arrived and every timer has gone off, the page shows what the server
\* has: the turn of the player to move, and the cards not played.
THEOREM PageSettles == Spec => []TableSettles
BY InvAlways, SettlesByInv, PTL

\* The end of a game shows after its last card: when it shows, no card waits in the queue.
THEOREM EndComesLast == Spec => OverComesLast
<1>1. ASSUME Inv, Next, page'.over, ~page.over, Calm
      PROVE  page.queue = <<>>
  BY <1>1, CoreKeeps DEF Inv
<1>2. Inv /\ [Next]_vars => [(page'.over /\ ~page.over /\ Calm) => page.queue = <<>>]_vars
  BY <1>1
<1>3. QED
  BY <1>2, InvAlways, PTL DEF Spec, OverComesLast
==============================================================================
