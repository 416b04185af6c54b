------------------------- MODULE DeliveryAlertsProofs -------------------------
(***************************************************************************)
(* Proofs about DeliveryAlerts and PopupDeck.                              *)
(*                                                                         *)
(*   1  induction over the natural numbers, as a statement about sets, and *)
(*      what the three loops of the model compute                          *)
(*   2  the deck: every operation keeps its keys in order                  *)
(*   3  the burst of alerts                                                *)
(*   4  the badge counts what it should, and the ledger forgets nothing    *)
(*   5  cards, groups and reservations: no alert is stranded, no message   *)
(*      is on two cards                                                    *)
(*   6  the breaker: no request waits for nothing                          *)
(***************************************************************************)
EXTENDS DeliveryAlerts, TLAPS, FiniteSetTheorems, SequenceTheorems,
        WellFoundedInduction

-----------------------------------------------------------------------------
(***************************************************************************)
(* Induction.  The library's induction theorems have an operator as a      *)
(* parameter; that < is well-founded on Nat has none, and gives the        *)
(* principle for sets.                                                     *)
(***************************************************************************)
LEMMA LeastNumber ==
  ASSUME NEW T, T \subseteq Nat, T # {}
  PROVE  \E x \in T : \A y \in T : ~(y < x)
<1> DEFINE R == OpToRel(<, Nat)
<1>1. IsWellFoundedOn(R, Nat)
  BY NatLessThanWellFounded
<1>2. \E x \in T : \A y \in T : ~(<<y, x>> \in R)
  <2> HIDE DEF R
  <2> QED
    BY <1>1, WFMin
<1>3. PICK x \in T : \A y \in T : ~(<<y, x>> \in R)
  BY <1>2
<1>4. \A y \in T : ~(y < x)
  BY <1>3 DEF OpToRel
<1> QED
  BY <1>4

LEMMA SetInduction ==
  ASSUME NEW S, 0 \in S, \A n \in Nat : n \in S => n + 1 \in S
  PROVE  Nat \subseteq S
<1> DEFINE T == {n \in Nat : n \notin S}
<1>1. SUFFICES ASSUME T # {} PROVE FALSE
  OBVIOUS
<1>2. PICK x \in T : \A y \in T : ~(y < x)
  BY <1>1, LeastNumber
<1>3. x \in Nat /\ x # 0 /\ x - 1 \in Nat /\ x - 1 < x /\ (x - 1) + 1 = x
  BY <1>2
<1>4. x - 1 \in S
  BY <1>2, <1>3
<1> QED
  BY <1>2, <1>3, <1>4

\* Up to a bound, which is what a loop over a list needs.
LEMMA BoundedInduction ==
  ASSUME NEW N \in Nat, NEW S, 0 \in S,
         \A n \in 1..N : n - 1 \in S => n \in S
  PROVE  0..N \subseteq S
<1> DEFINE T == {n \in Nat : n <= N => n \in S}
<1>1. 0 \in T
  OBVIOUS
<1>2. \A n \in Nat : n \in T => n + 1 \in T
  <2> SUFFICES ASSUME NEW n \in Nat, n \in T, n + 1 <= N PROVE n + 1 \in S
    OBVIOUS
  <2>1. n \in S /\ n + 1 \in 1..N /\ (n + 1) - 1 = n
    OBVIOUS
  <2> QED
    BY <2>1
<1>3. Nat \subseteq T
  <2> HIDE DEF T
  <2> QED
    BY <1>1, <1>2, SetInduction
<1> QED
  BY <1>3

-----------------------------------------------------------------------------
(***************************************************************************)
(* Kept: a loop with an accumulator.  Its recursive function exists, and   *)
(* so has the values its equation gives.                                   *)
(***************************************************************************)
LEMMA KeptLoop ==
  ASSUME NEW T, NEW s \in Seq(T), NEW S
  PROVE  \E kept : /\ Kept(s, S) = kept[Len(s)] /\ kept[0] = <<>>
                   /\ \A n \in 1..Len(s) :
                        kept[n] = IF s[n] \in S THEN Append(kept[n - 1], s[n])
                                  ELSE kept[n - 1]
<1> DEFINE Ok(f, k) == f = [n \in 0..k |->
                IF n = 0 THEN <<>>
                ELSE IF s[n] \in S THEN Append(f[n - 1], s[n]) ELSE f[n - 1]]
           P == {k \in Nat : \E f : Ok(f, k)}
<1>1. 0 \in P
  <2>1. Ok([n \in 0..0 |-> <<>>], 0)
    OBVIOUS
  <2> QED
    BY <2>1
<1>2. \A k \in Nat : k \in P => k + 1 \in P
  <2>1. ASSUME NEW k \in Nat, NEW f, Ok(f, k) PROVE \E g : Ok(g, k + 1)
    <3> DEFINE g == [n \in 0..(k + 1) |->
                       IF n = k + 1
                       THEN IF s[k + 1] \in S THEN Append(f[k], s[k + 1]) ELSE f[k]
                       ELSE f[n]]
    <3>1. \A n \in 0..k : g[n] = f[n]
      OBVIOUS
    <3>2. ASSUME NEW n \in 0..(k + 1)
          PROVE  g[n] = IF n = 0 THEN <<>>
                        ELSE IF s[n] \in S THEN Append(g[n - 1], s[n]) ELSE g[n - 1]
      <4>1. CASE n = k + 1
        BY <4>1, <3>1
      <4>2. CASE n # k + 1
        <5>1. n \in 0..k /\ (n # 0 => n - 1 \in 0..k)
          BY <4>2
        <5>2. f[n] = IF n = 0 THEN <<>>
                     ELSE IF s[n] \in S THEN Append(f[n - 1], s[n]) ELSE f[n - 1]
          BY <5>1, <2>1
        <5> QED
          BY <5>1, <5>2, <3>1
      <4> QED
        BY <4>1, <4>2
    <3>3. Ok(g, k + 1)
      BY <3>2
    <3> QED
      BY <3>3
  <2> HIDE DEF Ok
  <2> QED
    BY <2>1
<1>3. Len(s) \in P
  <2> HIDE DEF P
  <2> QED
    BY <1>1, <1>2, SetInduction, LenProperties
<1> DEFINE h == CHOOSE f : Ok(f, Len(s))
<1>4. Ok(h, Len(s))
  BY <1>3
<1>5. Kept(s, S) = h[Len(s)]
  BY DEF Kept
<1>6. h[0] = <<>> /\ \A n \in 1..Len(s) :
        h[n] = IF s[n] \in S THEN Append(h[n - 1], s[n]) ELSE h[n - 1]
  <2> HIDE DEF h
  <2>1. Len(s) \in Nat
    BY LenProperties
  <2>2. \A n \in 0..Len(s) :
          h[n] = IF n = 0 THEN <<>>
                 ELSE IF s[n] \in S THEN Append(h[n - 1], s[n]) ELSE h[n - 1]
    BY <1>4
  <2> QED
    BY <2>1, <2>2
<1> QED
  BY <1>5, <1>6

\* What is kept is of the list and of the set.
LEMMA KeptRange ==
  ASSUME NEW T, NEW s \in Seq(T), NEW S
  PROVE  Kept(s, S) \in Seq(Range(s) \cap S)
<1>1. PICK kept : /\ Kept(s, S) = kept[Len(s)] /\ kept[0] = <<>>
                  /\ \A n \in 1..Len(s) :
                       kept[n] = IF s[n] \in S THEN Append(kept[n - 1], s[n])
                                 ELSE kept[n - 1]
  BY KeptLoop
<1> DEFINE W == Range(s) \cap S
           P == {n \in 0..Len(s) : kept[n] \in Seq(W)}
<1>2. Len(s) \in Nat
  BY LenProperties
<1>3. 0 \in P
  <2> HIDE DEF W
  <2>1. <<>> \in Seq(W)
    OBVIOUS
  <2>2. kept[0] \in Seq(W)
    <3>1. kept[0] = <<>>
      BY <1>1
    <3> QED
      BY <2>1, <3>1, Zenon
  <2>3. 0 \in 0..Len(s)
    BY <1>2
  <2> QED
    BY <2>2, <2>3
<1>4. \A n \in 1..Len(s) : n - 1 \in P => n \in P
  <2> SUFFICES ASSUME NEW n \in 1..Len(s), kept[n - 1] \in Seq(W)
               PROVE  kept[n] \in Seq(W)
    BY <1>2
  <2>1. s[n] \in Range(s)
    BY DEF Range
  <2>2. CASE s[n] \in S
    <3>1. kept[n] = Append(kept[n - 1], s[n]) /\ s[n] \in W
      BY <1>1, <2>1, <2>2
    <3> QED
      BY <3>1
  <2>3. CASE s[n] \notin S
    BY <1>1, <2>3
  <2> QED
    BY <2>2, <2>3
<1>5. Len(s) \in P
  <2> HIDE DEF P
  <2>1. 0..Len(s) \subseteq P
    BY <1>2, <1>3, <1>4, BoundedInduction
  <2> QED
    BY <1>2, <2>1
<1> QED
  BY <1>1, <1>5

-----------------------------------------------------------------------------
(***************************************************************************)
(* The deck.  One request queues, is refused or is shown.                  *)
(***************************************************************************)
DeckRecord ==
  [cards : SUBSET KeyType, waiting : Seq(KeyType), keys : SUBSET KeyType,
   made : Nat, cooling : BOOLEAN, resume : {"none", "set", "due"},
   posted : SUBSET ({"presented", "rejected"} \X KeyType),
   res : {"none", "shown", "queued", "refused"}]

PostedKeys(d) == {call[2] : call \in d.posted}
Awaited(d) == Range(d.waiting) \cup PostedKeys(d)

Queues(d, e, key) ==
  /\ e.res = "queued" /\ e.waiting = Append(d.waiting, key)
  /\ e.keys = d.keys \cup {key} /\ e.cards = d.cards /\ e.posted = d.posted

Refuses(d, e, key, notify) ==
  /\ e.res = "refused" /\ e.waiting = d.waiting
  /\ e.keys \in {d.keys, d.keys \ {key}} /\ e.cards = d.cards
  /\ e.posted = IF notify THEN d.posted \cup {<<"rejected", key>>} ELSE d.posted

Shows(d, e, key) ==
  /\ e.res = "shown" /\ e.waiting = d.waiting
  /\ e.keys = d.keys \cup {key} /\ e.cards = d.cards \cup {key}
  /\ e.posted = d.posted \cup {<<"presented", key>>}

\* Whoever engages the breaker schedules its resume.
Timing(d, e) ==
  /\ e.resume = d.resume \/ (d.resume = "none" /\ e.resume = "set")
  /\ e.cooling => d.cooling \/ e.resume # "none"

LEMMA EngageEffect ==
  ASSUME NEW d \in DeckRecord
  PROVE  LET e == Engage(d)
         IN  /\ e \in DeckRecord /\ Timing(d, e) /\ e.cooling = TRUE
             /\ e.waiting = d.waiting /\ e.keys = d.keys /\ e.cards = d.cards
             /\ e.posted = d.posted
BY DEF Engage, ScheduleResume, DeckRecord, Timing

LEMMA EnqueueEffect ==
  ASSUME NEW d \in DeckRecord, NEW key \in KeyType
  PROVE  LET e == Enqueue(d, key)
         IN  /\ e \in DeckRecord
             /\ e.cooling = d.cooling /\ e.resume = d.resume
             /\ Queues(d, e, key) \/ Refuses(d, e, key, FALSE)
             /\ e.posted = d.posted
<1> DEFINE e == Enqueue(d, key)
<1>1. CASE Len(d.waiting) >= MaxWaiting
  <2>1. e = [d EXCEPT !.res = "refused"]
    BY <1>1 DEF Enqueue
  <2>2. e \in DeckRecord
    BY <2>1 DEF DeckRecord
  <2> QED
    BY <2>1, <2>2 DEF DeckRecord, Refuses
<1>2. CASE ~(Len(d.waiting) >= MaxWaiting)
  <2>1. e = [d EXCEPT !.waiting = Append(@, key), !.keys = @ \cup {key},
                      !.res = "queued"]
    BY <1>2 DEF Enqueue
  <2>2. Append(d.waiting, key) \in Seq(KeyType) /\ d.keys \cup {key} \in SUBSET KeyType
    BY DEF DeckRecord
  <2>3. e \in DeckRecord
    BY <2>1, <2>2 DEF DeckRecord
  <2> QED
    BY <2>1, <2>3 DEF DeckRecord, Queues
<1> QED
  BY <1>1, <1>2

LEMMA RejectEffect ==
  ASSUME NEW d \in DeckRecord, NEW key \in KeyType, NEW notify \in BOOLEAN
  PROVE  LET e == Reject(d, key, notify)
         IN  /\ e \in DeckRecord /\ Refuses(d, e, key, notify)
             /\ e.cooling = d.cooling /\ e.resume = d.resume /\ e.keys = d.keys
<1> DEFINE e == Reject(d, key, notify)
           p == IF notify THEN d.posted \cup {<<"rejected", key>>} ELSE d.posted
<1>1. p \in SUBSET ({"presented", "rejected"} \X KeyType)
  BY DEF DeckRecord
<1>2. e = [d EXCEPT !.posted = p, !.res = "refused"]
  BY DEF Reject, DeckRecord
<1> HIDE DEF p
<1>3. e \in DeckRecord
  BY <1>1, <1>2 DEF DeckRecord
<1>4. /\ e.posted = p /\ e.res = "refused" /\ e.waiting = d.waiting
      /\ e.keys = d.keys /\ e.cards = d.cards
      /\ e.cooling = d.cooling /\ e.resume = d.resume
  BY <1>2 DEF DeckRecord
<1>5. Refuses(d, e, key, notify)
  BY <1>4 DEF Refuses, p
<1> QED
  BY <1>3, <1>4, <1>5

LEMMA ShowNowEffect ==
  ASSUME NEW d \in DeckRecord, NEW key \in KeyType, NEW notify \in BOOLEAN,
         NEW fails \in BOOLEAN
  PROVE  LET e == ShowNow(d, key, notify, fails)
         IN  /\ e \in DeckRecord /\ Timing(d, e)
             /\ \/ Queues(d, e, key) /\ e.cooling
                \/ Refuses(d, e, key, notify)
                \/ Shows(d, e, key)
<1> DEFINE e == ShowNow(d, key, notify, fails)
<1>1. CASE BreakerEngaged(d)
  <2> DEFINE g == Engage(d)
             q == Enqueue(g, key)
  <2>1. /\ g \in DeckRecord /\ Timing(d, g) /\ g.cooling = TRUE
        /\ g.waiting = d.waiting /\ g.keys = d.keys /\ g.cards = d.cards
        /\ g.posted = d.posted
    BY EngageEffect
  <2>2. /\ q \in DeckRecord /\ q.cooling = TRUE /\ q.resume = g.resume
        /\ Queues(g, q, key) \/ Refuses(g, q, key, FALSE)
    BY <2>1, EnqueueEffect
  <2>3. e = IF q.res = "refused" THEN Reject(q, key, notify) ELSE q
    BY <1>1 DEF ShowNow
  <2> HIDE DEF g, q, e
  <2>4. CASE Queues(g, q, key)
    <3>1. e = q
      BY <2>3, <2>4 DEF Queues
    <3>2. Queues(d, e, key)
      BY <2>1, <2>4, <3>1 DEF Queues
    <3>3. Timing(d, e)
      BY <2>1, <2>2, <3>1 DEF Timing
    <3>4. e.cooling
      BY <2>2, <3>1
    <3> QED
      BY <2>2, <3>1, <3>2, <3>3, <3>4 DEF e
  <2>5. CASE Refuses(g, q, key, FALSE)
    <3>1. e = Reject(q, key, notify)
      BY <2>3, <2>5 DEF Refuses
    <3>2. /\ e \in DeckRecord
          /\ Refuses(q, e, key, notify) /\ e.cooling = q.cooling
          /\ e.resume = q.resume /\ e.keys = q.keys
      BY <2>2, <3>1, RejectEffect
    <3>3. Refuses(d, e, key, notify)
      BY <3>2, <2>1, <2>5 DEF Refuses
    <3>4. Timing(d, e)
      BY <3>2, <2>1, <2>2 DEF Timing
    <3> QED
      BY <3>2, <3>3, <3>4 DEF e
  <2> QED
    BY <2>2, <2>4, <2>5 DEF e
<1>2. CASE ~BreakerEngaged(d) /\ fails
  <2> DEFINE g == [d EXCEPT !.keys = @ \ {key}]
  <2>1. /\ g \in DeckRecord /\ g.cooling = d.cooling /\ g.resume = d.resume
        /\ g.waiting = d.waiting /\ g.keys = d.keys \ {key}
        /\ g.cards = d.cards /\ g.posted = d.posted
    BY DEF DeckRecord
  <2>2. e = Reject(g, key, notify)
    BY <1>2 DEF ShowNow
  <2> HIDE DEF g, e
  <2>3. /\ e \in DeckRecord /\ Refuses(g, e, key, notify)
        /\ e.cooling = g.cooling /\ e.resume = g.resume /\ e.keys = g.keys
    BY <2>1, <2>2, RejectEffect
  <2>4. Refuses(d, e, key, notify) /\ Timing(d, e)
    BY <2>1, <2>3 DEF Refuses, Timing
  <2> QED
    BY <2>3, <2>4 DEF e
<1>3. CASE ~BreakerEngaged(d) /\ ~fails
  <2>1. e = Create(d, key)
    BY <1>3 DEF ShowNow
  <2>2. e \in DeckRecord
    <3>1. /\ d.cards \cup {key} \in SUBSET KeyType /\ d.keys \cup {key} \in SUBSET KeyType
          /\ d.made + 1 \in Nat
      BY DEF DeckRecord
    <3>2. d.posted \cup {<<"presented", key>>} \in SUBSET ({"presented", "rejected"} \X KeyType)
      BY DEF DeckRecord
    <3> QED
      BY <2>1, <3>1, <3>2 DEF Create, DeckRecord
  <2>3. Shows(d, e, key) /\ Timing(d, e)
    BY <2>1 DEF Create, DeckRecord, Shows, Timing
  <2> QED
    BY <2>2, <2>3
<1> QED
  BY <1>1, <1>2, <1>3

(***************************************************************************)
(* What every operation keeps: a key waits once, and a key that waits, has *)
(* its card shown, or has been refused, is in one of the three only.       *)
(***************************************************************************)
DeckInv(d) ==
  /\ d \in DeckRecord
  /\ \A i, j \in DOMAIN d.waiting : d.waiting[i] = d.waiting[j] => i = j
  /\ \A key \in Range(d.waiting) : <<"presented", key>> \notin d.posted
  /\ \A key \in KeyType : <<"rejected", key>> \in d.posted =>
       key \notin d.keys /\ key \notin Range(d.waiting)
         /\ <<"presented", key>> \notin d.posted

\* What a drain does with the requests behind the cards.
Moved(d, e) ==
  /\ Awaited(e) = Awaited(d) /\ Range(e.waiting) \subseteq Range(d.waiting)
  /\ e.keys \subseteq d.keys \cup Range(d.waiting)
  /\ e.cards \subseteq d.cards \cup Range(d.waiting)
  /\ d.posted \subseteq e.posted
  /\ \A key \in KeyType : <<"rejected", key>> \in e.posted =>
       <<"rejected", key>> \in d.posted \/ key \in Range(d.waiting)
  /\ \A key \in e.cards \ d.cards : <<"presented", key>> \in e.posted

LEMMA MovedTwice ==
  ASSUME NEW c, NEW d, NEW e, Moved(c, d), Moved(d, e), Timing(c, d), Timing(d, e)
  PROVE  Moved(c, e) /\ Timing(c, e)
<1>1. Timing(c, e)
  BY DEF Timing
<1>2. Awaited(e) = Awaited(c) /\ Range(e.waiting) \subseteq Range(c.waiting)
  BY DEF Moved
<1>3. /\ e.keys \subseteq c.keys \cup Range(c.waiting)
      /\ e.cards \subseteq c.cards \cup Range(c.waiting)
      /\ c.posted \subseteq e.posted
  BY DEF Moved
<1>4. \A key \in KeyType : <<"rejected", key>> \in e.posted =>
        <<"rejected", key>> \in c.posted \/ key \in Range(c.waiting)
  BY DEF Moved
<1>5. \A key \in e.cards \ c.cards : <<"presented", key>> \in e.posted
  BY DEF Moved
<1> QED
  BY <1>1, <1>2, <1>3, <1>4, <1>5 DEF Moved

\* The head of a list, its tail, and a rotation.
LEMMA HeadTail ==
  ASSUME NEW T, NEW s \in Seq(T), s # <<>>,
         \A i, j \in DOMAIN s : s[i] = s[j] => i = j
  PROVE  /\ Head(s) \in T /\ Tail(s) \in Seq(T)
         /\ Range(s) = Range(Tail(s)) \cup {Head(s)} /\ Head(s) \notin Range(Tail(s))
         /\ Len(Tail(s)) = Len(s) - 1
         /\ \A i, j \in DOMAIN Tail(s) : Tail(s)[i] = Tail(s)[j] => i = j
<1> DEFINE t == Tail(s)
           n == Len(s)
<1>1. n \in Nat /\ n # 0 /\ DOMAIN s = 1..n /\ \A i \in 1..n : s[i] \in T
  OBVIOUS
<1>2. Head(s) = s[1] /\ t \in Seq(T) /\ Len(t) = n - 1
  OBVIOUS
<1>3. DOMAIN t = 1..(n - 1) /\ \A i \in 1..(n - 1) : t[i] = s[i + 1]
  OBVIOUS
<1> HIDE DEF t, n
<1>4. \A i, j \in DOMAIN t : t[i] = t[j] => i = j
  <2> SUFFICES ASSUME NEW i \in DOMAIN t, NEW j \in DOMAIN t, t[i] = t[j] PROVE i = j
    OBVIOUS
  <2>1. i + 1 \in 1..n /\ j + 1 \in 1..n /\ s[i + 1] = s[j + 1]
    BY <1>1, <1>3
  <2> QED
    BY <2>1, <1>1, <1>3
<1>5. s[1] \notin Range(t)
  <2> SUFFICES ASSUME NEW i \in DOMAIN t, t[i] = s[1] PROVE FALSE
    BY DEF Range
  <2>1. i \in Nat /\ i # 0 /\ i + 1 \in 1..n /\ 1 \in 1..n /\ s[i + 1] = s[1]
    BY <1>1, <1>3
  <2>2. i + 1 = 1
    BY <2>1, <1>1
  <2> QED
    BY <2>1, <2>2
<1>6. Range(s) \subseteq Range(t) \cup {s[1]}
  <2> SUFFICES ASSUME NEW i \in 1..n PROVE s[i] \in Range(t) \cup {s[1]}
    BY <1>1 DEF Range
  <2>1. CASE i # 1
    <3>1. i - 1 \in 1..(n - 1) /\ (i - 1) + 1 = i
      BY <1>1, <2>1
    <3> QED
      BY <3>1, <1>3 DEF Range
  <2> QED
    BY <2>1
<1>7. Range(t) \cup {s[1]} \subseteq Range(s)
  <2>1. s[1] \in Range(s)
    BY <1>1 DEF Range
  <2>2. ASSUME NEW i \in DOMAIN t PROVE t[i] \in Range(s)
    <3>1. i + 1 \in 1..n /\ t[i] = s[i + 1]
      BY <1>1, <1>3
    <3> QED
      BY <3>1, <1>1 DEF Range
  <2> QED
    BY <2>1, <2>2 DEF Range
<1> QED
  BY <1>1, <1>2, <1>4, <1>5, <1>6, <1>7 DEF t, n

LEMMA AppendRange ==
  ASSUME NEW T, NEW s \in Seq(T), NEW x \in T, x \notin Range(s),
         \A i, j \in DOMAIN s : s[i] = s[j] => i = j
  PROVE  /\ Range(Append(s, x)) = Range(s) \cup {x}
         /\ \A i, j \in DOMAIN Append(s, x) : Append(s, x)[i] = Append(s, x)[j] => i = j
<1> DEFINE t == Append(s, x)
           n == Len(s)
<1>1. n \in Nat /\ DOMAIN s = 1..n
  OBVIOUS
<1>2. DOMAIN t = 1..(n + 1) /\ t[n + 1] = x /\ \A i \in 1..n : t[i] = s[i]
  OBVIOUS
<1> HIDE DEF t, n
<1>3. \A i \in 1..(n + 1) : i \in 1..n \/ i = n + 1
  BY <1>1
<1>4. Range(t) = Range(s) \cup {x}
  <2>1. Range(t) \subseteq Range(s) \cup {x}
    BY <1>1, <1>2, <1>3 DEF Range
  <2>2. x \in Range(t)
    <3>1. n + 1 \in DOMAIN t
      BY <1>1, <1>2
    <3> QED
      BY <3>1, <1>2 DEF Range
  <2>3. ASSUME NEW i \in 1..n PROVE s[i] \in Range(t)
    <3>1. i \in DOMAIN t
      BY <1>1, <1>2
    <3> QED
      BY <3>1, <1>2 DEF Range
  <2> QED
    BY <2>1, <2>2, <2>3, <1>1 DEF Range
<1>5. ASSUME NEW i \in DOMAIN t, NEW j \in DOMAIN t, t[i] = t[j] PROVE i = j
  <2>1. \A k \in 1..n : t[k] # x
    BY <1>1, <1>2 DEF Range
  <2>2. CASE i \in 1..n /\ j \in 1..n
    BY <1>1, <1>2, <1>5, <2>2
  <2>3. CASE i = n + 1 \/ j = n + 1
    BY <1>2, <1>3, <1>5, <2>1, <2>3
  <2> QED
    BY <1>2, <1>3, <2>2, <2>3
<1> QED
  BY <1>4, <1>5 DEF t

LEMMA PostedOne ==
  ASSUME NEW d, NEW e, NEW key,
         \/ e.posted = d.posted \cup {<<"presented", key>>}
         \/ e.posted = d.posted \cup {<<"rejected", key>>}
  PROVE  PostedKeys(e) = PostedKeys(d) \cup {key}
<1>1. PICK x : e.posted = d.posted \cup {<<x, key>>}
  OBVIOUS
<1>2. PostedKeys(e) \subseteq PostedKeys(d) \cup {key}
  BY <1>1 DEF PostedKeys
<1>3. \A k \in PostedKeys(d) : k \in PostedKeys(e)
  BY <1>1 DEF PostedKeys
<1>4. key \in PostedKeys(e)
  <2>1. <<x, key>> \in e.posted /\ <<x, key>>[2] = key
    BY <1>1
  <2> QED
    BY <2>1, Zenon DEF PostedKeys
<1> QED
  BY <1>2, <1>3, <1>4

LEMMA PostedKey ==
  ASSUME NEW d, NEW x, NEW key, <<x, key>> \in d.posted
  PROVE  key \in PostedKeys(d)
BY DEF PostedKeys

Fresh(d, key) == key \notin d.keys /\ key \notin Awaited(d)

LEMMA RequestKeeps ==
  ASSUME NEW d, DeckInv(d), NEW key \in KeyType, Fresh(d, key),
         NEW e \in DeckRecord, NEW notify \in BOOLEAN,
         Queues(d, e, key) \/ Refuses(d, e, key, notify) \/ Shows(d, e, key)
  PROVE  DeckInv(e)
<1> USE DEF DeckInv
<1>1. /\ key \notin Range(d.waiting) /\ key \notin d.keys
      /\ <<"presented", key>> \notin d.posted /\ <<"rejected", key>> \notin d.posted
  BY PostedKey DEF Fresh, Awaited
<1>2. d.waiting \in Seq(KeyType) /\ d.cards \subseteq KeyType
  BY DEF DeckRecord
<1>3. CASE Queues(d, e, key)
  <2>1. Range(e.waiting) = Range(d.waiting) \cup {key}
    BY <1>1, <1>2, <1>3, AppendRange DEF Queues
  <2>2. \A i, j \in DOMAIN e.waiting : e.waiting[i] = e.waiting[j] => i = j
    <3>1. e.waiting = Append(d.waiting, key)
      BY <1>3 DEF Queues
    <3> QED
      BY <1>1, <1>2, <3>1, AppendRange
  <2>3. e.keys = d.keys \cup {key} /\ e.posted = d.posted
    BY <1>3 DEF Queues
  <2> QED
    BY <1>1, <2>1, <2>2, <2>3
<1>4. CASE Refuses(d, e, key, notify)
  <2>1. e.keys \subseteq d.keys /\ e.waiting = d.waiting
    BY <1>4 DEF Refuses
  <2>2. e.posted = d.posted \/ e.posted = d.posted \cup {<<"rejected", key>>}
    BY <1>4 DEF Refuses
  <2> QED
    BY <1>1, <2>1, <2>2
<1>5. CASE Shows(d, e, key)
  BY <1>1, <1>5 DEF Shows
<1> QED
  BY <1>3, <1>4, <1>5

(***************************************************************************)
(* One round of the drain, and the loop.                                   *)
(***************************************************************************)
Round(s, t) ==
  /\ DeckInv(t.deck) /\ Moved(s.deck, t.deck) /\ Timing(s.deck, t.deck)
  /\ \/ t = s /\ (s.stop \/ s.deck.waiting = <<>> \/ Cardinality(s.deck.cards) >= MaxCards)
     \/ t.stop /\ t.deck.cooling
     \/ ~t.stop /\ Len(t.deck.waiting) = Len(s.deck.waiting) - 1

LEMMA MovedSame ==
  ASSUME NEW d
  PROVE  Moved(d, d) /\ Timing(d, d)
BY DEF Moved, Timing

LEMMA DrainRound ==
  ASSUME NEW s, DeckInv(s.deck), NEW fails \in BOOLEAN
  PROVE  Round(s, DrainOne(s, fails))
<1> DEFINE d == s.deck
           key == Head(d.waiting)
           c == [d EXCEPT !.waiting = Tail(@), !.keys = @ \ {key}]
           e == ShowNow(c, key, TRUE, fails)
           t == DrainOne(s, fails)
<1>1. CASE s.stop \/ d.waiting = <<>> \/ Cardinality(d.cards) >= MaxCards
  <2>1. t = s
    BY <1>1 DEF DrainOne
  <2> QED
    BY <1>1, <2>1, MovedSame DEF Round
<1>2. CASE ~s.stop /\ d.waiting # <<>> /\ ~(Cardinality(d.cards) >= MaxCards)
  <2>1. t = [deck |-> e, stop |-> e.res = "queued"]
    BY <1>2 DEF DrainOne
  <2> HIDE DEF t
  <2>2. d \in DeckRecord /\ d.waiting \in Seq(KeyType)
    BY DEF DeckInv, DeckRecord
  <2>3. /\ key \in KeyType /\ Tail(d.waiting) \in Seq(KeyType)
        /\ Range(d.waiting) = Range(Tail(d.waiting)) \cup {key}
        /\ key \notin Range(Tail(d.waiting))
        /\ Len(Tail(d.waiting)) = Len(d.waiting) - 1
        /\ \A i, j \in DOMAIN Tail(d.waiting) :
             Tail(d.waiting)[i] = Tail(d.waiting)[j] => i = j
    BY <1>2, <2>2, HeadTail DEF DeckInv
  <2>4. /\ c \in DeckRecord /\ c.waiting = Tail(d.waiting) /\ c.keys = d.keys \ {key}
        /\ c.cards = d.cards /\ c.posted = d.posted
        /\ c.cooling = d.cooling /\ c.resume = d.resume
    BY <2>2, <2>3 DEF DeckRecord
  <2>5. /\ e \in DeckRecord /\ Timing(c, e)
        /\ \/ Queues(c, e, key) /\ e.cooling
           \/ Refuses(c, e, key, TRUE)
           \/ Shows(c, e, key)
    <3> HIDE DEF c, key
    <3> QED
      BY <2>3, <2>4, ShowNowEffect
  <2> HIDE DEF c, e, key
  <2>6. DeckInv(c) /\ Fresh(c, key)
    <3>1. /\ key \in Range(d.waiting) /\ <<"presented", key>> \notin d.posted
          /\ <<"rejected", key>> \notin d.posted
      BY <2>3 DEF DeckInv
    <3>2. key \notin PostedKeys(c)
      <4> SUFFICES ASSUME NEW call \in d.posted, call[2] = key PROVE FALSE
        BY <2>4 DEF PostedKeys
      <4>1. call \in {"presented", "rejected"} \X KeyType
        BY <2>2 DEF DeckRecord
      <4>2. call = <<"presented", key>> \/ call = <<"rejected", key>>
        BY <4>1
      <4> QED
        BY <3>1, <4>2
    <3>3. Fresh(c, key)
      BY <2>3, <2>4, <3>2 DEF Fresh, Awaited
    <3> QED
      BY <2>3, <2>4, <3>3 DEF DeckInv
  <2>7. DeckInv(e)
    BY <2>3, <2>5, <2>6, RequestKeeps
  <2>8. Timing(d, e)
    BY <2>4, <2>5 DEF Timing
  <2>9. Moved(d, e) /\ (e.res # "queued" => Len(e.waiting) = Len(d.waiting) - 1)
        /\ (e.res = "queued" => e.cooling)
    <3>0. PostedKeys(c) = PostedKeys(d)
      BY <2>4 DEF PostedKeys
    <3>1. CASE Queues(c, e, key) /\ e.cooling
      <4>1. Range(e.waiting) = Range(c.waiting) \cup {key}
        <5>1. e.waiting = Append(c.waiting, key)
          BY <3>1 DEF Queues
        <5>2. /\ c.waiting \in Seq(KeyType) /\ key \notin Range(c.waiting)
              /\ \A i, j \in DOMAIN c.waiting : c.waiting[i] = c.waiting[j] => i = j
          BY <2>6 DEF DeckInv, DeckRecord, Fresh, Awaited
        <5>3. Range(Append(c.waiting, key)) = Range(c.waiting) \cup {key}
          BY <2>3, <5>2, AppendRange
        <5> QED
          BY <5>1, <5>3
      <4>2. PostedKeys(e) = PostedKeys(d)
        BY <3>1, <2>4 DEF Queues, PostedKeys
      <4>3. Awaited(e) = Awaited(d) /\ Range(e.waiting) \subseteq Range(d.waiting)
        BY <4>1, <4>2, <2>3, <2>4 DEF Awaited
      <4>4. /\ e.keys = c.keys \cup {key} /\ e.cards = c.cards /\ e.posted = c.posted
            /\ e.res = "queued"
        BY <3>1 DEF Queues
      <4> QED
        BY <3>1, <4>3, <4>4, <2>3, <2>4 DEF Moved
    <3>2. CASE Refuses(c, e, key, TRUE)
      <4>1. /\ e.keys \subseteq c.keys /\ e.cards = c.cards /\ e.waiting = c.waiting
            /\ e.posted = c.posted \cup {<<"rejected", key>>} /\ e.res = "refused"
        BY <3>2 DEF Refuses
      <4>2. PostedKeys(e) = PostedKeys(d) \cup {key}
        <5>0. e.posted = c.posted \cup {<<"rejected", key>>}
          BY <4>1
        <5>1. PostedKeys(e) = PostedKeys(c) \cup {key}
          BY <5>0, PostedOne, ZenonT(60)
        <5> QED
          BY <3>0, <5>1
      <4>3. Awaited(e) = Awaited(d) /\ Range(e.waiting) \subseteq Range(d.waiting)
        BY <4>1, <4>2, <2>3, <2>4 DEF Awaited
      <4> QED
        BY <4>1, <4>3, <2>3, <2>4 DEF Moved
    <3>3. CASE Shows(c, e, key)
      <4>1. /\ e.keys = c.keys \cup {key} /\ e.cards = c.cards \cup {key}
            /\ e.waiting = c.waiting
            /\ e.posted = c.posted \cup {<<"presented", key>>} /\ e.res = "shown"
        BY <3>3 DEF Shows
      <4>2. PostedKeys(e) = PostedKeys(d) \cup {key}
        <5>0. e.posted = c.posted \cup {<<"presented", key>>}
          BY <4>1
        <5>1. PostedKeys(e) = PostedKeys(c) \cup {key}
          BY <5>0, PostedOne, ZenonT(60)
        <5> QED
          BY <3>0, <5>1
      <4>3. Awaited(e) = Awaited(d) /\ Range(e.waiting) \subseteq Range(d.waiting)
        BY <4>1, <4>2, <2>3, <2>4 DEF Awaited
      <4> QED
        BY <4>1, <4>3, <2>3, <2>4 DEF Moved
    <3> QED
      BY <2>5, <3>1, <3>2, <3>3
  <2>10. t.deck = e /\ (t.stop <=> e.res = "queued")
    BY <2>1
  <2>11. \/ t.stop /\ t.deck.cooling
         \/ ~t.stop /\ Len(t.deck.waiting) = Len(d.waiting) - 1
    <3>1. CASE e.res = "queued"
      BY <2>9, <2>10, <3>1
    <3>2. CASE e.res # "queued"
      BY <2>9, <2>10, <3>2
    <3> QED
      BY <3>1, <3>2
  <2> QED
    BY <2>7, <2>8, <2>9, <2>10, <2>11 DEF Round, t
<1> QED
  BY <1>1, <1>2

LEMMA DrainLoop ==
  ASSUME NEW d, Len(d.waiting) \in Nat, NEW fails
  PROVE  \E drained :
           /\ DrainPending(d, fails) = drained[Len(d.waiting)].deck
           /\ drained[0] = [deck |-> d, stop |-> FALSE]
           /\ \A n \in 1..Len(d.waiting) : drained[n] = DrainOne(drained[n - 1], fails)
<1> DEFINE L == Len(d.waiting)
           Ok(f, k) == f = [n \in 0..k |->
                IF n = 0 THEN [deck |-> d, stop |-> FALSE]
                ELSE DrainOne(f[n - 1], fails)]
           P == {k \in Nat : \E f : Ok(f, k)}
<1>1. 0 \in P
  <2>1. Ok([n \in 0..0 |-> [deck |-> d, stop |-> FALSE]], 0)
    OBVIOUS
  <2> QED
    BY <2>1
<1>2. \A k \in Nat : k \in P => k + 1 \in P
  <2>1. ASSUME NEW k \in Nat, NEW f, Ok(f, k) PROVE \E g : Ok(g, k + 1)
    <3> DEFINE g == [n \in 0..(k + 1) |->
                       IF n = k + 1 THEN DrainOne(f[k], fails) ELSE f[n]]
    <3>1. \A n \in 0..k : g[n] = f[n]
      OBVIOUS
    <3>2. ASSUME NEW n \in 0..(k + 1)
          PROVE  g[n] = IF n = 0 THEN [deck |-> d, stop |-> FALSE]
                        ELSE DrainOne(g[n - 1], fails)
      <4>1. CASE n = k + 1
        BY <4>1, <3>1
      <4>2. CASE n # k + 1
        <5>1. n \in 0..k /\ (n # 0 => n - 1 \in 0..k)
          BY <4>2
        <5>2. f[n] = IF n = 0 THEN [deck |-> d, stop |-> FALSE]
                     ELSE DrainOne(f[n - 1], fails)
          BY <5>1, <2>1
        <5> QED
          BY <5>1, <5>2, <3>1
      <4> QED
        BY <4>1, <4>2
    <3>3. Ok(g, k + 1)
      BY <3>2
    <3> QED
      BY <3>3
  <2> HIDE DEF Ok
  <2> QED
    BY <2>1
<1>3. L \in P
  <2> HIDE DEF P
  <2> QED
    BY <1>1, <1>2, SetInduction
<1> DEFINE h == CHOOSE f : Ok(f, L)
<1>4. Ok(h, L)
  BY <1>3
<1>5. DrainPending(d, fails) = h[L].deck
  BY DEF DrainPending
<1>6. h[0] = [deck |-> d, stop |-> FALSE]
      /\ \A n \in 1..L : h[n] = DrainOne(h[n - 1], fails)
  <2> HIDE DEF h
  <2>1. \A n \in 0..L : h[n] = IF n = 0 THEN [deck |-> d, stop |-> FALSE]
                                ELSE DrainOne(h[n - 1], fails)
    BY <1>4
  <2>2. L \in Nat
    OBVIOUS
  <2> HIDE DEF L
  <2>3. h[0] = [deck |-> d, stop |-> FALSE]
    <3>1. 0 \in 0..L
      BY <2>2
    <3> QED
      BY <2>1, <3>1, Zenon
  <2>4. \A n \in 1..L : h[n] = DrainOne(h[n - 1], fails)
    BY <2>1, <2>2
  <2> QED
    BY <2>3, <2>4
<1> QED
  BY <1>5, <1>6

\* However many requests fail or are put back, the drain loses none, and it
\* ends with nobody behind the cards, a card, or an engaged breaker.
LEMMA DrainEffect ==
  ASSUME NEW d, DeckInv(d), NEW fails \in BOOLEAN
  PROVE  LET e == DrainPending(d, fails)
         IN  /\ DeckInv(e) /\ Moved(d, e) /\ Timing(d, e)
             /\ e.waiting = <<>> \/ e.cards # {} \/ e.cooling
<1> DEFINE L == Len(d.waiting)
<1>1. L \in Nat
  BY DEF DeckInv, DeckRecord
<1>2. PICK drained :
        /\ DrainPending(d, fails) = drained[L].deck
        /\ drained[0] = [deck |-> d, stop |-> FALSE]
        /\ \A n \in 1..L : drained[n] = DrainOne(drained[n - 1], fails)
  BY <1>1, DrainLoop
<1> DEFINE Good(n, s) ==
             /\ DeckInv(s.deck) /\ Moved(d, s.deck) /\ Timing(d, s.deck)
             /\ \/ s.stop /\ s.deck.cooling
                \/ ~s.stop /\ Cardinality(s.deck.cards) >= MaxCards
                \/ ~s.stop /\ Len(s.deck.waiting) <= L - n
           P == {n \in 0..L : Good(n, drained[n])}
<1> HIDE DEF L
<1>3. 0 \in P
  <2>1. drained[0].deck = d /\ drained[0].stop = FALSE
    BY <1>2
  <2>2. Len(d.waiting) <= L - 0
    BY <1>1 DEF L
  <2>3. Good(0, drained[0])
    BY <2>1, <2>2, MovedSame
  <2> QED
    BY <1>1, <2>3
<1>4. ASSUME NEW n \in 1..L, n - 1 \in P PROVE n \in P
  <2> DEFINE s == drained[n - 1]
             t == drained[n]
  <2>1. Good(n - 1, s) /\ t = DrainOne(s, fails)
    BY <1>2, <1>4
  <2> HIDE DEF s, t
  <2>2. Round(s, t)
    BY <2>1, DrainRound
  <2>3. DeckInv(t.deck) /\ Moved(d, t.deck) /\ Timing(d, t.deck)
    BY <2>1, <2>2, MovedTwice DEF Round
  <2>4. Len(s.deck.waiting) \in Nat /\ n \in Int /\ L - (n - 1) = (L - n) + 1 /\ L - n >= 0
    BY <1>1, <2>1 DEF DeckInv, DeckRecord
  <2>5. \/ t.stop /\ t.deck.cooling
        \/ ~t.stop /\ Cardinality(t.deck.cards) >= MaxCards
        \/ ~t.stop /\ Len(t.deck.waiting) <= L - n
    <3>1. CASE t = s /\ (s.stop \/ s.deck.waiting = <<>> \/ Cardinality(s.deck.cards) >= MaxCards)
      <4>1. CASE s.deck.waiting = <<>>
        <5>1. Len(s.deck.waiting) = 0
          BY <4>1
        <5>2. Len(s.deck.waiting) <= L - n
          BY <1>1, <5>1, <2>4
        <5> QED
          BY <3>1, <5>2, <2>1
      <4> QED
        BY <3>1, <4>1, <2>1
    <3>2. CASE t.stop /\ t.deck.cooling
      BY <3>2
    <3>3. CASE ~t.stop /\ Len(t.deck.waiting) = Len(s.deck.waiting) - 1
      <4>1. CASE t = s /\ (s.stop \/ s.deck.waiting = <<>> \/ Cardinality(s.deck.cards) >= MaxCards)
        BY <3>1, <4>1
      <4>2. CASE Len(s.deck.waiting) <= L - (n - 1)
        <5>1. Len(t.deck.waiting) <= L - n
          BY <1>1, <3>3, <4>2, <2>4
        <5> QED
          BY <3>3, <5>1
      <4>3. CASE ~s.stop /\ Cardinality(s.deck.cards) >= MaxCards
        <5>1. t = s
          BY <2>1, <4>3 DEF DrainOne
        <5> QED
          BY <5>1, <4>3
      <4>4. CASE s.stop /\ s.deck.cooling
        <5>1. t = s
          BY <2>1, <4>4 DEF DrainOne
        <5> QED
          BY <5>1, <4>4
      <4> QED
        BY <2>1, <4>2, <4>3, <4>4
    <3> QED
      BY <2>2, <3>1, <3>2, <3>3 DEF Round
  <2>6. Good(n, t)
    BY <2>3, <2>5
  <2>7. n \in 0..L
    BY <1>1
  <2> QED
    BY <2>6, <2>7 DEF t
<1>5. L \in P
  <2> HIDE DEF P
  <2>1. 0..L \subseteq P
    BY <1>1, <1>3, <1>4, BoundedInduction
  <2> QED
    BY <1>1, <2>1
<1> DEFINE e == drained[L].deck
<1>6. Good(L, drained[L])
  BY <1>5
<1>7. e.waiting = <<>> \/ e.cards # {} \/ e.cooling
  <2>1. CASE Cardinality(e.cards) >= MaxCards
    <3>1. e.cards = {} => Cardinality(e.cards) = 0
      BY FS_EmptySet
    <3> QED
      BY <2>1, <3>1, PopupDeckAssumption
  <2>2. CASE Len(e.waiting) <= L - L
    <3>1. e.waiting \in Seq(KeyType)
      BY <1>6 DEF DeckInv, DeckRecord
    <3>2. L - L = 0 /\ Len(e.waiting) \in Nat
      BY <1>1, <3>1
    <3>3. Len(e.waiting) = 0
      BY <2>2, <3>2
    <3> QED
      BY <3>1, <3>3
  <2> QED
    BY <1>6, <2>1, <2>2
<1> QED
  BY <1>2, <1>6, <1>7

(***************************************************************************)
(* The operations that the window calls.                                   *)
(***************************************************************************)
LEMMA ShowEffect ==
  ASSUME NEW d, DeckInv(d), NEW key \in KeyType, key \in Awaited(d) => key \in d.keys,
         NEW fails \in BOOLEAN
  PROVE  LET e == Show(d, key, fails)
         IN  /\ DeckInv(e) /\ Timing(d, e)
             /\ \/ /\ key \in d.keys /\ e.res = "queued" /\ e.waiting = d.waiting
                   /\ e.keys = d.keys /\ e.cards = d.cards /\ e.posted = d.posted
                \/ /\ Fresh(d, key)
                   /\ \/ Queues(d, e, key) /\ (e.cooling \/ e.cards # {})
                      \/ Refuses(d, e, key, FALSE)
                      \/ Shows(d, e, key)
<1> DEFINE e == Show(d, key, fails)
<1>0. d \in DeckRecord
  BY DEF DeckInv
<1>1. CASE key \in d.keys
  <2>1. e = [d EXCEPT !.res = "queued"]
    BY <1>1 DEF Show
  <2>2. e \in DeckRecord
    BY <1>0, <2>1 DEF DeckRecord
  <2>3. /\ e.res = "queued" /\ e.waiting = d.waiting /\ e.keys = d.keys
        /\ e.cards = d.cards /\ e.posted = d.posted
        /\ e.cooling = d.cooling /\ e.resume = d.resume
    BY <1>0, <2>1 DEF DeckRecord
  <2> HIDE DEF e
  <2>4. DeckInv(e) /\ Timing(d, e)
    BY <2>2, <2>3 DEF DeckInv, Timing
  <2> QED
    BY <1>1, <2>3, <2>4 DEF e
<1>2. CASE key \notin d.keys
  <2>1. Fresh(d, key)
    BY <1>2 DEF Fresh
  <2>2. CASE Cardinality(d.cards) >= MaxCards
    <3>1. e = Enqueue(d, key)
      BY <1>2, <2>2 DEF Show
    <3> HIDE DEF e
    <3>2. /\ e \in DeckRecord /\ e.cooling = d.cooling /\ e.resume = d.resume
          /\ Queues(d, e, key) \/ Refuses(d, e, key, FALSE)
      BY <1>0, <3>1, EnqueueEffect
    <3>3. e.cards # {}
      <4>1. e.cards = d.cards
        BY <3>2 DEF Queues, Refuses
      <4>2. Cardinality({}) = 0
        BY FS_EmptySet
      <4> QED
        BY <4>1, <4>2, <2>2, PopupDeckAssumption
    <3>4. DeckInv(e) /\ Timing(d, e)
      BY <2>1, <3>2, RequestKeeps DEF Timing
    <3> QED
      BY <2>1, <3>2, <3>3, <3>4 DEF e
  <2>3. CASE ~(Cardinality(d.cards) >= MaxCards)
    <3>1. e = ShowNow(d, key, FALSE, fails)
      BY <1>2, <2>3 DEF Show
    <3> HIDE DEF e
    <3>2. /\ e \in DeckRecord /\ Timing(d, e)
          /\ \/ Queues(d, e, key) /\ e.cooling
             \/ Refuses(d, e, key, FALSE)
             \/ Shows(d, e, key)
      BY <1>0, <3>1, ShowNowEffect
    <3>3. DeckInv(e)
      BY <2>1, <3>2, RequestKeeps
    <3> QED
      BY <2>1, <3>2, <3>3 DEF e
  <2> QED
    BY <2>2, <2>3
<1> QED
  BY <1>1, <1>2

\* A card that goes away, or a resume that has fired, and the drain after it.
Lesser(d, c) ==
  /\ c \in DeckRecord /\ c.cards \subseteq d.cards /\ c.keys \subseteq d.keys
  /\ c.waiting = d.waiting /\ c.posted = d.posted /\ c.cooling = d.cooling

LEMMA LesserDrain ==
  ASSUME NEW d, DeckInv(d), NEW c, Lesser(d, c), NEW e, DeckInv(c) => Moved(c, e)
  PROVE  DeckInv(c) /\ Moved(d, e)
<1>1. DeckInv(c)
  BY DEF DeckInv, Lesser
<1>2. Awaited(c) = Awaited(d)
  BY DEF Lesser, Awaited, PostedKeys
<1>3. Moved(d, e)
  BY <1>1, <1>2 DEF Moved, Lesser
<1> QED
  BY <1>1, <1>3

LEMMA GoneEffect ==
  ASSUME NEW d, DeckInv(d), NEW key, NEW fails \in BOOLEAN
  PROVE  LET e == Gone(d, key, fails)
         IN  /\ DeckInv(e) /\ Moved(d, e) /\ Timing(d, e)
             /\ e.waiting = <<>> \/ e.cards # {} \/ e.cooling
<1> DEFINE c == [d EXCEPT !.cards = @ \ {key}, !.keys = @ \ {key}]
           e == DrainPending(c, fails)
<1>1. d \in DeckRecord
  BY DEF DeckInv
<1>2. Lesser(d, c) /\ c.resume = d.resume
  BY <1>1 DEF Lesser, DeckRecord
<1>3. e = Gone(d, key, fails)
  BY DEF Gone
<1> HIDE DEF c
<1>4. DeckInv(c) => /\ DeckInv(e) /\ Moved(c, e) /\ Timing(c, e)
                    /\ e.waiting = <<>> \/ e.cards # {} \/ e.cooling
  BY DrainEffect
<1> HIDE DEF e
<1>5. DeckInv(c) /\ Moved(d, e)
  BY <1>2, <1>4, LesserDrain
<1>6. Timing(d, e)
  BY <1>2, <1>4, <1>5 DEF Timing, Lesser
<1> QED
  BY <1>3, <1>4, <1>5, <1>6

LEMMA ResumedEffect ==
  ASSUME NEW d, DeckInv(d), NEW fails \in BOOLEAN
  PROVE  LET e == Resumed(d, fails)
         IN  /\ DeckInv(e) /\ Moved(d, e)
             /\ e.cooling => d.cooling \/ e.resume # "none"
             /\ e.resume \in {"none", "set"}
             /\ e.waiting = <<>> \/ e.cards # {} \/ e.cooling
<1> DEFINE c == [d EXCEPT !.resume = "none"]
           e == DrainPending(c, fails)
<1>1. d \in DeckRecord
  BY DEF DeckInv
<1>2. Lesser(d, c) /\ c.resume = "none"
  BY <1>1 DEF Lesser, DeckRecord
<1>3. e = Resumed(d, fails)
  BY DEF Resumed
<1> HIDE DEF c
<1>4. DeckInv(c) => /\ DeckInv(e) /\ Moved(c, e) /\ Timing(c, e)
                    /\ e.waiting = <<>> \/ e.cards # {} \/ e.cooling
  BY DrainEffect
<1> HIDE DEF e
<1>5. DeckInv(c) /\ Moved(d, e)
  BY <1>2, <1>4, LesserDrain
<1>6. (e.cooling => d.cooling \/ e.resume # "none") /\ e.resume \in {"none", "set"}
  BY <1>2, <1>4, <1>5 DEF Timing, Lesser
<1> QED
  BY <1>3, <1>4, <1>5, <1>6

LEMMA CooledEffect ==
  ASSUME NEW d, DeckInv(d)
  PROVE  LET e == Cooled(d)
         IN  /\ DeckInv(e) /\ Moved(d, e) /\ e.cooling = FALSE /\ e.cards = d.cards
             /\ e.waiting = d.waiting
             /\ e.resume = IF d.resume = "set" THEN "due" ELSE d.resume
<1> DEFINE e == Cooled(d)
           r == IF d.resume = "set" THEN "due" ELSE d.resume
<1>1. d \in DeckRecord /\ r \in {"none", "set", "due"}
  BY DEF DeckInv, DeckRecord
<1>2. e = [d EXCEPT !.cooling = FALSE, !.resume = r]
  BY <1>1 DEF Cooled, DeckRecord
<1> HIDE DEF r, e
<1>3. e \in DeckRecord
  BY <1>1, <1>2 DEF DeckRecord
<1>4. /\ e.cooling = FALSE /\ e.resume = r /\ e.cards = d.cards /\ e.keys = d.keys
      /\ e.waiting = d.waiting /\ e.posted = d.posted
  BY <1>1, <1>2 DEF DeckRecord
<1>5. DeckInv(e) /\ Moved(d, e)
  BY <1>3, <1>4 DEF DeckInv, Moved, Awaited, PostedKeys
<1> QED
  BY <1>4, <1>5 DEF e, r

LEMMA ForgottenEffect ==
  ASSUME NEW d, DeckInv(d), d.made > 0
  PROVE  LET e == Forgotten(d)
         IN  /\ DeckInv(e) /\ Moved(d, e) /\ e.cooling = d.cooling /\ e.cards = d.cards
             /\ e.waiting = d.waiting /\ e.resume = d.resume
<1> DEFINE e == Forgotten(d)
<1>1. d \in DeckRecord /\ d.made - 1 \in Nat
  BY DEF DeckInv, DeckRecord
<1>2. e = [d EXCEPT !.made = d.made - 1]
  BY <1>1 DEF Forgotten, DeckRecord
<1> HIDE DEF e
<1>3. e \in DeckRecord
  BY <1>1, <1>2 DEF DeckRecord
<1>4. /\ e.cooling = d.cooling /\ e.resume = d.resume /\ e.cards = d.cards
      /\ e.keys = d.keys /\ e.waiting = d.waiting /\ e.posted = d.posted
  BY <1>1, <1>2 DEF DeckRecord
<1>5. DeckInv(e) /\ Moved(d, e)
  BY <1>3, <1>4 DEF DeckInv, Moved, Awaited, PostedKeys
<1> QED
  BY <1>4, <1>5 DEF e

\* A delivered callback is gone, and with it the key it was about: it was
\* in one place.
LEMMA DeliveredEffect ==
  ASSUME NEW d, DeckInv(d), NEW key \in KeyType, NEW x \in {"presented", "rejected"},
         <<x, key>> \in d.posted
  PROVE  LET e == Delivered(d, <<x, key>>)
         IN  /\ DeckInv(e) /\ Awaited(e) = Awaited(d) \ {key} /\ key \in Awaited(d)
             /\ e.waiting = d.waiting /\ e.cards = d.cards /\ e.keys = d.keys
             /\ e.cooling = d.cooling /\ e.resume = d.resume
             /\ e.posted \subseteq d.posted
             /\ x = "rejected" => key \notin d.keys
<1> DEFINE e == Delivered(d, <<x, key>>)
<1>1. d \in DeckRecord
  BY DEF DeckInv
<1>2. e = [d EXCEPT !.posted = @ \ {<<x, key>>}]
  BY DEF Delivered
<1> HIDE DEF e
<1>3. e \in DeckRecord
  BY <1>1, <1>2 DEF DeckRecord
<1>4. /\ e.posted = d.posted \ {<<x, key>>}
      /\ e.cooling = d.cooling /\ e.resume = d.resume /\ e.cards = d.cards
      /\ e.keys = d.keys /\ e.waiting = d.waiting
  BY <1>1, <1>2 DEF DeckRecord
<1>5. DeckInv(e)
  BY <1>3, <1>4 DEF DeckInv
<1>6. key \notin Range(d.waiting)
  BY DEF DeckInv
<1>7. x = "rejected" => key \notin d.keys
  BY DEF DeckInv
<1>8. \A y : <<y, key>> \in d.posted => y = x
  <2> SUFFICES ASSUME NEW y, <<y, key>> \in d.posted PROVE y = x
    OBVIOUS
  <2>1. y \in {"presented", "rejected"}
    BY <1>1 DEF DeckRecord
  <2> QED
    BY <2>1 DEF DeckInv
<1>9. PostedKeys(e) = PostedKeys(d) \ {key}
  <2>1. \A call \in d.posted : call = <<call[1], call[2]>>
    BY <1>1 DEF DeckRecord
  <2>2. ASSUME NEW call \in d.posted, call[2] = key PROVE call = <<x, key>>
    BY <1>8, <2>1, <2>2
  <2>3. PostedKeys(e) \subseteq PostedKeys(d) \ {key}
    BY <1>4, <2>2 DEF PostedKeys
  <2>4. ASSUME NEW call \in d.posted, call[2] # key PROVE call[2] \in PostedKeys(e)
    <3>1. call # <<x, key>>
      BY <2>4
    <3> QED
      BY <1>4, <3>1 DEF PostedKeys
  <2>5. PostedKeys(d) \ {key} \subseteq PostedKeys(e)
    BY <2>4 DEF PostedKeys
  <2> QED
    BY <2>3, <2>5
<1>10. Awaited(e) = Awaited(d) \ {key}
  BY <1>4, <1>6, <1>9 DEF Awaited
<1>11. key \in Awaited(d)
  BY PostedKey DEF Awaited
<1> QED
  BY <1>4, <1>5, <1>7, <1>10, <1>11 DEF e

-----------------------------------------------------------------------------
(***************************************************************************)
(* The badge and the ledger.                                               *)
(***************************************************************************)
LEMMA PageOf ==
  ASSUME NEW T, NEW l \in Seq(T), NEW S
  PROVE  LET k == Kept(l, S)
         IN  SubSeq(k, 1, IF Len(k) < PageSize THEN Len(k) ELSE PageSize)
               \in Seq(Range(l))
<1> DEFINE k == Kept(l, S)
           n == IF Len(k) < PageSize THEN Len(k) ELSE PageSize
<1>1. k \in Seq(Range(l) \cap S)
  BY KeptRange
<1> HIDE DEF k
<1>2. k \in Seq(Range(l)) /\ Len(k) \in Nat
  BY <1>1
<1>3. n \in Nat /\ n <= Len(k)
  BY <1>2, DeliveryAlertsAssumption
<1>4. SubSeq(k, 1, n) \in Seq(Range(l))
  <2> HIDE DEF n
  <2> QED
    BY <1>2, <1>3, SubSeqProperties
<1> QED
  BY <1>4 DEF k

\* The part of the invariant that is about counting.  A message is owed from
\* its event on until its conversation is acknowledged, so that whatever an
\* event or a page still holds has been counted or can be counted once.
Due(c) == {m \in owed[c] : m \in unreadDone /\ m \notin seen}

Ledgered ==
  /\ stored \subseteq Message /\ recorded \subseteq stored
  /\ ledger \in Seq(recorded)
  /\ seen \subseteq unreadDone /\ unreadDone \subseteq recorded

Swept ==
  /\ sweep \in [page : Seq(recorded), counted : BOOLEAN]
  /\ \A m \in Events \cup Range(sweep.page) :
       m \in unreadDone \/ m \in owed[ChatOf[m]]

Owing ==
  /\ unread \in [Chat -> Nat]
  /\ owed \in [Chat -> SUBSET recorded]
  /\ \A c \in Chat : /\ IsFiniteSet(owed[c])
                     /\ \A m \in owed[c] : ChatOf[m] = c
                     /\ unread[c] = Cardinality(Due(c))

Badge == Ledgered /\ Swept /\ Owing

LEMMA BadgeInit == Init => Badge
<1> SUFFICES ASSUME Init PROVE Badge
  OBVIOUS
<1> USE DEF Init
<1>1. Ledgered
  BY DEF Ledgered
<1>2. Events = {} /\ Range(sweep.page) = {}
  BY DEF Events, Range, EmptySweep
<1>3. Swept
  BY <1>2 DEF Swept, EmptySweep
<1>4. ASSUME NEW c \in Chat PROVE IsFiniteSet(owed[c]) /\ Due(c) = {} /\ unread[c] = 0
  BY FS_EmptySet DEF Due
<1>5. Cardinality({}) = 0
  BY FS_EmptySet
<1>6. Owing
  BY <1>4, <1>5 DEF Owing
<1> QED
  BY <1>1, <1>3, <1>6 DEF Badge

LEMMA BadgeKept ==
  ASSUME Badge, UNCHANGED <<stored, recorded, ledger, unreadDone, unread, owed, seen>>,
         sweep' = sweep \/ sweep' = EmptySweep
  PROVE  Badge'
<1>1. Ledgered'
  BY DEF Badge, Ledgered
<1>2. EmptySweep \in [page : Seq(recorded), counted : BOOLEAN] /\ Range(EmptySweep.page) = {}
  BY DEF Range, EmptySweep
<1>3. Swept'
  <2>1. sweep' \in [page : Seq(recorded'), counted : BOOLEAN]
    BY <1>2 DEF Badge, Swept
  <2>2. Events' = Events
    BY DEF Events
  <2>3. Range(sweep'.page) \subseteq Range(sweep.page)
    BY <1>2
  <2> QED
    BY <2>1, <2>2, <2>3 DEF Badge, Swept
<1>4. Owing'
  BY DEF Badge, Owing, Due
<1> QED
  BY <1>1, <1>3, <1>4 DEF Badge

\* A fresh event is owed, and not counted yet; any other upsert only adds rows.
LEMMA BadgeRecord ==
  ASSUME Badge, NEW m \in Message, NEW e \in BOOLEAN, NEW a \in BOOLEAN,
         RecordEvent(m, e, a), UNCHANGED <<unreadDone, unread, seen, sweep>>
  PROVE  Badge'
<1> DEFINE fresh == e /\ m \notin recorded /\ (m \notin stored \/ a)
           c == ChatOf[m]
<1> USE DEF Badge
<1>0. c \in Chat
  BY DeliveryAlertsAssumption
<1>1. CASE fresh
  <2>1. /\ stored' = stored \cup {m} /\ ledger' = Append(ledger, m)
        /\ recorded' = recorded \cup {m}
        /\ owed' = [owed EXCEPT ![c] = @ \cup {m}]
    BY <1>1 DEF RecordEvent
  <2>2. ledger \in Seq(recorded') /\ ledger' \in Seq(recorded')
    BY <2>1 DEF Ledgered
  <2>3. Ledgered'
    BY <2>1, <2>2 DEF Ledgered
  <2>4. Events' \subseteq Events \cup {m}
    BY <2>1, <2>2 DEF Events, Range
  <2>5. owed' \in [Chat -> SUBSET recorded']
    BY <2>1 DEF Owing
  <2>6. owed'[c] = owed[c] \cup {m} /\ \A x \in Chat : x # c => owed'[x] = owed[x]
    BY <1>0, <2>1 DEF Owing
  <2>7. Swept'
    <3>1. sweep' \in [page : Seq(recorded'), counted : BOOLEAN]
      BY <2>1 DEF Swept
    <3>2. ASSUME NEW x \in Events' \cup Range(sweep'.page)
          PROVE  x \in unreadDone \/ x \in owed'[ChatOf[x]]
      <4>1. CASE x = m
        BY <2>6, <4>1
      <4>2. CASE x # m
        <5>1. x \in Events \cup Range(sweep.page)
          BY <2>4, <4>2
        <5>2. x \in Message
          <6>1. Events \subseteq recorded /\ Range(sweep.page) \subseteq recorded
            BY DEF Events, Range, Ledgered, Swept
          <6> QED
            BY <5>1, <6>1 DEF Ledgered
        <5>3. ChatOf[x] \in Chat
          BY <5>2, DeliveryAlertsAssumption
        <5> QED
          BY <5>1, <5>3, <2>6 DEF Swept
      <4> QED
        BY <4>1, <4>2
    <3> QED
      BY <3>1, <3>2 DEF Swept
  <2>8. ASSUME NEW x \in Chat
        PROVE  /\ IsFiniteSet(owed'[x]) /\ \A y \in owed'[x] : ChatOf[y] = x
               /\ Due(x)' = Due(x)
    <3>1. CASE x = c
      <4>1. IsFiniteSet(owed[c] \cup {m})
        BY <1>0, FS_AddElement DEF Owing
      <4>2. Due(c)' = Due(c)
        BY <1>1, <2>6 DEF Due, Ledgered
      <4> QED
        BY <3>1, <4>1, <4>2, <2>6, <1>0 DEF Owing
    <3>2. CASE x # c
      BY <3>2, <2>6 DEF Owing, Due
    <3> QED
      BY <3>1, <3>2
  <2>9. Owing'
    BY <2>5, <2>8 DEF Owing
  <2> QED
    BY <2>3, <2>7, <2>9
<1>2. CASE ~fresh
  <2>1. /\ stored' = stored \cup {m} /\ ledger' = ledger
        /\ recorded' = recorded /\ owed' = owed
    BY <1>2 DEF RecordEvent
  <2>2. Ledgered'
    BY <2>1 DEF Ledgered
  <2>3. Swept'
    BY <2>1 DEF Swept, Events
  <2>4. Owing'
    BY <2>1 DEF Owing, Due
  <2> QED
    BY <2>2, <2>3, <2>4
<1> QED
  BY <1>1, <1>2

\* The agent's other writes to the tables of the badge.
LEMMA BadgeMarked ==
  ASSUME Badge, NEW m \in Message, SendReturns(m)
  PROVE  Badge'
<1> USE DEF Badge, SendReturns, screen, history
<1>1. recorded \subseteq recorded' /\ ledger' = ledger
  OBVIOUS
<1>2. Ledgered'
  <2>1. ledger' \in Seq(recorded')
    BY <1>1 DEF Ledgered
  <2> QED
    BY <2>1 DEF Ledgered
<1>3. Swept'
  <2>1. sweep' \in [page : Seq(recorded'), counted : BOOLEAN]
    BY DEF Swept
  <2> QED
    BY <2>1 DEF Swept, Events
<1>4. Owing'
  <2>1. owed' \in [Chat -> SUBSET recorded']
    BY DEF Owing
  <2>2. \A c \in Chat : Due(c)' = Due(c)
    BY DEF Due
  <2> QED
    BY <2>1, <2>2 DEF Owing
<1> QED
  BY <1>2, <1>3, <1>4

\* A start prunes what is done.
LEMMA BadgePruned ==
  ASSUME Badge, AgentRestarts
  PROVE  Badge'
<1> USE DEF Badge, AgentRestarts, screen, history
<1> DEFINE S == Message \ (unreadDone \cap alertDone \cap old)
<1>1. ledger' \in Seq(Events \cap S)
  BY KeptRange DEF Ledgered, Events
<1>2. Events' \subseteq Events
  BY <1>1 DEF Events, Range
<1>3. Events \subseteq recorded
  BY DEF Ledgered, Events, Range
<1>4. ledger' \in Seq(recorded)
  BY <1>1, <1>3
<1>5. Ledgered'
  BY <1>4 DEF Ledgered
<1>6. Swept'
  BY <1>2 DEF Swept
<1>7. Owing'
  BY DEF Owing, Due
<1> QED
  BY <1>5, <1>6, <1>7

\* A sweep begins with a page of the ledger.
LEMMA BadgePage ==
  ASSUME Ledgered', Owing', NEW S,
         \A m \in Events' : m \in unreadDone' \/ m \in owed'[ChatOf[m]],
         sweep' = [page |-> LET k == Kept(ledger', S)
                            IN  SubSeq(k, 1, IF Len(k) < PageSize THEN Len(k)
                                             ELSE PageSize),
                   counted |-> FALSE]
  PROVE  Badge'
<1> DEFINE k == Kept(ledger', S)
           page == SubSeq(k, 1, IF Len(k) < PageSize THEN Len(k) ELSE PageSize)
<1>1. ledger' \in Seq(recorded')
  BY DEF Ledgered
<1>2. page \in Seq(Range(ledger'))
  BY <1>1, PageOf
<1>3. sweep'.page = page /\ sweep'.counted = FALSE /\ sweep' = [page |-> page, counted |-> FALSE]
  OBVIOUS
<1> HIDE DEF page
<1>4. Range(page) \subseteq Events'
  BY <1>2 DEF Events, Range
<1>5. Events' \subseteq recorded'
  BY <1>1 DEF Events, Range
<1>6. page \in Seq(recorded')
  BY <1>2, <1>5 DEF Events
<1>7. Swept'
  BY <1>3, <1>4, <1>6 DEF Swept
<1> QED
  BY <1>7 DEF Badge

LEMMA BadgeBegins ==
  ASSUME Badge, BeginSweep
  PROVE  Badge'
<1> USE DEF Badge, BeginSweep, tables, history
<1>1. Ledgered' /\ Owing'
  BY DEF Ledgered, Owing, Due
<1>2. \A m \in Events' : m \in unreadDone' \/ m \in owed'[ChatOf[m]]
  BY DEF Swept, Events
<1>3. sweep' = [page |-> LET k == Kept(ledger', Message \ (alertDone \cap unreadDone))
                         IN  SubSeq(k, 1, IF Len(k) < PageSize THEN Len(k)
                                          ELSE PageSize),
                counted |-> FALSE]
  BY DEF Page, Pending
<1> QED
  BY <1>1, <1>2, <1>3, BadgePage

\* What opening, reading and hiding a conversation do to the counts.
LEMMA BadgeAcknowledge ==
  ASSUME Badge, NEW chats \in SUBSET Chat, Acknowledge(chats),
         UNCHANGED <<stored, recorded, ledger, seen>>
  PROVE  /\ Ledgered' /\ Owing'
         /\ \A m \in Events' : m \in unreadDone' \/ m \in owed'[ChatOf[m]]
<1> USE DEF Badge
<1>1. /\ unread' = [c \in Chat |-> IF c \in chats THEN 0 ELSE unread[c]]
      /\ unreadDone' = unreadDone \cup {m \in Events : ChatOf[m] \in chats}
      /\ owed' = [c \in Chat |-> IF c \in chats THEN {} ELSE owed[c]]
  BY DEF Acknowledge
<1>2. Events \subseteq recorded
  BY DEF Events, Ledgered, Range
<1>3. Ledgered'
  BY <1>1, <1>2 DEF Ledgered
<1>4. ASSUME NEW c \in Chat
      PROVE  /\ owed'[c] \in SUBSET recorded' /\ IsFiniteSet(owed'[c])
             /\ \A m \in owed'[c] : ChatOf[m] = c
             /\ unread'[c] \in Nat /\ unread'[c] = Cardinality(Due(c)')
  <2>1. CASE c \in chats
    <3>1. owed'[c] = {} /\ unread'[c] = 0
      BY <1>1, <2>1
    <3>2. Due(c)' = {}
      BY <3>1 DEF Due
    <3> QED
      BY <3>1, <3>2, FS_EmptySet
  <2>2. CASE c \notin chats
    <3>1. owed'[c] = owed[c] /\ unread'[c] = unread[c]
      BY <1>1, <2>2
    <3>2. Due(c)' = Due(c)
      BY <1>1, <2>2, <3>1 DEF Due, Owing
    <3> QED
      BY <3>1, <3>2 DEF Owing
  <2> QED
    BY <2>1, <2>2
<1>5. owed' \in [Chat -> SUBSET recorded']
  BY <1>1, <1>4
<1>6. unread' \in [Chat -> Nat]
  BY <1>1, <1>4
<1>7. Owing'
  BY <1>4, <1>5, <1>6 DEF Owing
<1>8. ASSUME NEW m \in Events' PROVE m \in unreadDone' \/ m \in owed'[ChatOf[m]]
  <2>1. m \in Events /\ ChatOf[m] \in Chat
    BY <1>2, DeliveryAlertsAssumption DEF Events, Ledgered
  <2> QED
    BY <1>1, <2>1 DEF Swept
<1> QED
  BY <1>3, <1>7, <1>8

LEMMA BadgeRead ==
  ASSUME Badge, NEW chats \in SUBSET Chat, Acknowledge(chats), sweep' = sweep,
         sweep.page = <<>>, UNCHANGED <<stored, recorded, ledger, seen>>
  PROVE  Badge'
<1>1. /\ Ledgered' /\ Owing'
      /\ \A m \in Events' : m \in unreadDone' \/ m \in owed'[ChatOf[m]]
  BY BadgeAcknowledge
<1>2. Range(sweep'.page) = {} /\ sweep' \in [page : Seq(recorded'), counted : BOOLEAN]
  BY DEF Badge, Swept, Range
<1>3. Swept'
  BY <1>1, <1>2 DEF Swept
<1> QED
  BY <1>1, <1>3 DEF Badge

LEMMA BadgeOpened ==
  ASSUME Badge, NEW c \in Chat, OpenConversation(c) \/ RestoreChat(c)
  PROVE  Badge'
<1>1. /\ Acknowledge({c}) /\ UNCHANGED <<stored, recorded, ledger, alertDone, seen>>
      /\ sweep' = [page |-> Page', counted |-> FALSE]
  BY DEF OpenConversation, RestoreChat
<1>2. /\ Ledgered' /\ Owing'
      /\ \A m \in Events' : m \in unreadDone' \/ m \in owed'[ChatOf[m]]
  BY <1>1, BadgeAcknowledge
<1>3. sweep' = [page |-> LET k == Kept(ledger', Message \ (alertDone' \cap unreadDone'))
                         IN  SubSeq(k, 1, IF Len(k) < PageSize THEN Len(k)
                                          ELSE PageSize),
                counted |-> FALSE]
  BY <1>1 DEF Page, Pending
<1> QED
  BY <1>2, <1>3, BadgePage

\* The count goes up by the one message that is counted.
LEMMA BadgeCounts ==
  ASSUME Badge, SweepCounts
  PROVE  Badge'
<1> USE DEF Badge
<1>1. /\ sweep.page \in Seq(recorded) /\ sweep.page # <<>>
      /\ sweep \in [page : Seq(recorded), counted : BOOLEAN]
  BY DEF SweepCounts, Swept
<1>2. PICK m \in recorded : m = Head(sweep.page) /\ m \in Range(sweep.page)
  BY <1>1 DEF Range
<1>3. PICK c \in Chat : c = ChatOf[m]
  BY <1>2, DeliveryAlertsAssumption DEF Ledgered
<1>4. /\ UNCHANGED <<stored, recorded, ledger, owed>>
      /\ sweep' = [sweep EXCEPT !.counted = TRUE] /\ CountUnread(m)
  BY <1>2 DEF SweepCounts
<1>5. sweep' \in [page : Seq(recorded'), counted : BOOLEAN] /\ sweep'.page = sweep.page
  BY <1>1, <1>4
<1>6. /\ unreadDone' = unreadDone \cup {m} /\ seen \subseteq seen'
      /\ seen' \subseteq unreadDone'
  BY <1>4 DEF CountUnread, Ledgered
<1>7. Ledgered'
  BY <1>2, <1>4, <1>6 DEF Ledgered
<1>8. Swept'
  BY <1>4, <1>5, <1>6 DEF Swept, Events
<1>9. CASE m \in unreadDone
  <2>1. UNCHANGED <<unreadDone, unread, seen>>
    BY <1>4, <1>9 DEF CountUnread
  <2>2. Owing'
    BY <1>4, <2>1 DEF Owing, Due
  <2> QED
    BY <1>7, <1>8, <2>2
<1>10. CASE m \notin unreadDone
  <2>1. m \in owed[c]
    BY <1>2, <1>3, <1>10 DEF Swept
  <2>2. ASSUME NEW x \in Chat, x # c PROVE Due(x)' = Due(x) /\ unread'[x] = unread[x]
    <3>1. m \notin owed[x]
      BY <1>3, <2>2 DEF Owing
    <3>2. unread'[x] = unread[x]
      BY <1>3, <1>4, <1>10, <2>2 DEF CountUnread, Owing
    <3>3. seen' = seen \/ seen' = seen \cup {m}
      BY <1>4, <1>10 DEF CountUnread
    <3> QED
      BY <1>4, <1>6, <3>1, <3>2, <3>3 DEF Due
  <2>3. unread'[c] \in Nat /\ unread'[c] = Cardinality(Due(c)')
    <3>0. IsFiniteSet(Due(c)) /\ m \notin Due(c) /\ unread[c] \in Nat
          /\ unread[c] = Cardinality(Due(c))
      <4>1. IsFiniteSet(owed[c]) /\ Due(c) \subseteq owed[c]
        BY <1>3 DEF Owing, Due
      <4>2. IsFiniteSet(Due(c))
        BY <4>1, FS_Subset
      <4>3. m \notin Due(c)
        BY <1>10 DEF Due
      <4> QED
        BY <1>3, <4>2, <4>3 DEF Owing
    <3>1. CASE OnScreen(c)
      <4>1. seen' = seen \cup {m} /\ unread' = unread
        BY <1>3, <1>4, <1>10, <3>1 DEF CountUnread
      <4>2. \A y \in owed[c] : (y \in unreadDone' /\ y \notin seen')
                              <=> (y \in unreadDone /\ y \notin seen)
        BY <1>6, <1>10, <4>1
      <4>3. Due(c)' = Due(c)
        <5>1. Due(c)' = {y \in owed[c] : y \in unreadDone' /\ y \notin seen'}
          BY <1>4 DEF Due
        <5>2. \A y : y \in Due(c)' <=> y \in Due(c)
          BY <4>2, <5>1 DEF Due
        <5> QED
          BY <5>2, Zenon
      <4> QED
        BY <3>0, <4>1, <4>3
    <3>2. CASE ~OnScreen(c)
      <4>1. seen' = seen /\ unread' = [unread EXCEPT ![c] = @ + 1]
        BY <1>3, <1>4, <1>10, <3>2 DEF CountUnread
      <4>2. Due(c)' = Due(c) \cup {m}
        <5>1. m \notin seen
          BY <1>10 DEF Ledgered
        <5>2. \A y \in owed[c] : (y \in unreadDone' /\ y \notin seen')
                                <=> (y \in unreadDone /\ y \notin seen) \/ y = m
          BY <1>6, <4>1, <5>1
        <5>3. Due(c)' = {y \in owed[c] : y \in unreadDone' /\ y \notin seen'}
          BY <1>4 DEF Due
        <5>4. \A y : y \in Due(c)' <=> y \in Due(c) \cup {m}
          BY <2>1, <5>2, <5>3 DEF Due
        <5> QED
          BY <5>4, Zenon
      <4>3. Cardinality(Due(c)') = Cardinality(Due(c)) + 1
        BY <3>0, <4>2, FS_AddElement
      <4>4. unread'[c] = unread[c] + 1
        BY <1>3, <4>1 DEF Owing
      <4> QED
        BY <3>0, <4>3, <4>4
    <3> QED
      BY <3>1, <3>2
  <2>4. unread' \in [Chat -> Nat]
    <3>1. DOMAIN unread' = Chat /\ unread' = [x \in Chat |-> unread'[x]]
      BY <1>4 DEF CountUnread, Owing
    <3>2. \A x \in Chat : unread'[x] \in Nat
      BY <2>2, <2>3 DEF Owing
    <3> QED
      BY <3>1, <3>2
  <2>5. \A x \in Chat : unread'[x] = Cardinality(Due(x)')
    BY <2>2, <2>3 DEF Owing
  <2>6. owed' \in [Chat -> SUBSET recorded']
        /\ \A x \in Chat : IsFiniteSet(owed'[x]) /\ \A y \in owed'[x] : ChatOf[y] = x
    BY <1>4 DEF Owing
  <2>7. Owing'
    BY <2>4, <2>5, <2>6, Zenon DEF Owing
  <2> QED
    BY <1>7, <1>8, <2>7
<1> QED
  BY <1>9, <1>10

LEMMA BadgeAnnounces ==
  ASSUME Badge, SweepAnnounces
  PROVE  Badge'
<1> USE DEF Badge
<1>1. /\ UNCHANGED <<stored, recorded, ledger, unreadDone, unread, owed, seen>>
      /\ sweep' = [page |-> Tail(sweep.page), counted |-> FALSE]
      /\ sweep.page # <<>>
  BY DEF SweepAnnounces, history
<1>2. sweep.page \in Seq(recorded)
  BY DEF Swept
<1>3. /\ Tail(sweep.page) \in Seq(recorded)
      /\ Range(Tail(sweep.page)) \subseteq Range(sweep.page)
  <2>1. \A i \in DOMAIN Tail(sweep.page) :
          i + 1 \in DOMAIN sweep.page /\ Tail(sweep.page)[i] = sweep.page[i + 1]
    BY <1>1, <1>2
  <2> QED
    BY <1>1, <1>2, <2>1 DEF Range
<1>4. sweep' \in [page : Seq(recorded'), counted : BOOLEAN] /\ sweep'.page = Tail(sweep.page)
  BY <1>1, <1>3
<1>5. Ledgered' /\ Owing'
  BY <1>1 DEF Ledgered, Owing, Due
<1>6. Swept'
  BY <1>1, <1>3, <1>4 DEF Swept, Events
<1> QED
  BY <1>5, <1>6

LEMMA BadgeNext == Badge /\ [Next]_vars => Badge'
<1> SUFFICES ASSUME Badge, [Next]_vars PROVE Badge'
  OBVIOUS
<1> USE DEF tables, screen, history
<1>1. CASE \E m \in Message, e, a \in BOOLEAN : Upsert(m, e, a)
  BY <1>1, BadgeRecord DEF Upsert
<1>2. CASE \E m \in Message : SendReturns(m)
  BY <1>2, BadgeMarked
<1>3. CASE AgentRestarts
  BY <1>3, BadgePruned
<1>4. CASE \/ \E m \in Message : Ages(m)
           \/ \E c \in Chat : AgentRevives(c)
           \/ SweepFails \/ RestoreAll \/ ActivationChanges \/ RecoverMessages
           \/ WindowEnds \/ WindowStarts \/ UNCHANGED vars
  <2>1. /\ UNCHANGED <<stored, recorded, ledger, unreadDone, unread, owed, seen>>
        /\ sweep' = sweep \/ sweep' = EmptySweep
    BY <1>4 DEF Ages, AgentRevives, SweepFails, RestoreAll, ActivationChanges,
                RecoverMessages, WindowEnds, WindowStarts, vars
  <2> QED
    BY <2>1, BadgeKept
<1>5. CASE BeginSweep
  BY <1>5, BadgeBegins
<1>6. CASE SweepCounts
  BY <1>6, BadgeCounts
<1>7. CASE SweepAnnounces
  BY <1>7, BadgeAnnounces
<1>8. CASE CardStep
  <2>1. UNCHANGED <<stored, recorded, ledger, unreadDone, unread, owed, seen, sweep>>
    BY <1>8 DEF CardStep, FlushToasts, Callback, CardPresented, CardRejected,
                CardCloses, BreakerCools, BreakerResumes, WindowSlides, DeckStep
  <2> QED
    BY <2>1, BadgeKept
<1>9. CASE \E c \in Chat : OpenConversation(c) \/ RestoreChat(c)
  BY <1>9, BadgeOpened
<1>10. CASE MarkRead(Chat) \/ (\E c \in Chat : MarkRead({c}) \/ HideChat(c))
  <2>1. PICK chats \in SUBSET Chat :
          /\ Acknowledge(chats) /\ sweep' = sweep /\ sweep.page = <<>>
          /\ UNCHANGED <<stored, recorded, ledger, seen>>
    <3>1. CASE MarkRead(Chat)
      BY <3>1 DEF MarkRead, Act, Idle
    <3>2. CASE \E c \in Chat : MarkRead({c}) \/ HideChat(c)
      <4>1. PICK c \in Chat : MarkRead({c}) \/ HideChat(c)
        BY <3>2
      <4>2. {c} \in SUBSET Chat /\ Acknowledge({c}) /\ sweep' = sweep
            /\ sweep.page = <<>> /\ UNCHANGED <<stored, recorded, ledger, seen>>
        BY <4>1 DEF MarkRead, HideChat, Act, Idle
      <4> QED
        BY <4>2
    <3> QED
      BY <1>10, <3>1, <3>2
  <2> QED
    BY <2>1, BadgeRead
<1> QED
  BY <1>1, <1>2, <1>3, <1>4, <1>5, <1>6, <1>7, <1>8, <1>9, <1>10
  DEF Next, AgentStep, SweepStep, UserStep

\* The badge of a conversation is exact: every event swept since its last
\* acknowledgement counts once, however sweeps, crashes, second upserts and
\* the user's steps fall (apply_unread_event, mark_read, hide_chat).
THEOREM UnreadCountIsExact == Spec => []UnreadIsExact
<1>1. Badge => UnreadIsExact
  BY DEF Badge, Owing, UnreadIsExact, Due
<1> QED
  BY <1>1, BadgeInit, BadgeNext, PTL DEF Spec

\* An event is recorded once for good: no later upsert, repair or restart of
\* the agent puts the message into the ledger again (delivery_event_recorded).
THEOREM EventsAreRecordedOnce == Spec => RecordedOnce
<1>1. Badge /\ [Next]_vars => [\A m \in recorded \ Events : m \notin Range(ledger')]_vars
  <2> SUFFICES ASSUME Badge, Next, NEW m \in recorded \ Events PROVE m \notin Range(ledger')
    BY DEF vars, tables, Events
  <2>1. CASE \E x \in Message, e, a \in BOOLEAN : Upsert(x, e, a)
    <3>1. PICK x \in Message, e \in BOOLEAN, a \in BOOLEAN : Upsert(x, e, a)
      BY <2>1
    <3>2. ledger' = ledger \/ (x \notin recorded /\ ledger' = Append(ledger, x))
      BY <3>1 DEF Upsert, RecordEvent
    <3>3. Range(Append(ledger, x)) \subseteq Events \cup {x}
      <4>1. ledger \in Seq(recorded)
        BY DEF Badge, Ledgered
      <4>2. \A i \in DOMAIN Append(ledger, x) :
              \/ i \in DOMAIN ledger /\ Append(ledger, x)[i] = ledger[i]
              \/ Append(ledger, x)[i] = x
        BY <4>1
      <4> QED
        BY <4>2 DEF Events, Range
    <3> QED
      BY <3>2, <3>3 DEF Events
  <2>2. CASE AgentRestarts
    <3>1. ledger \in Seq(recorded)
      BY DEF Badge, Ledgered
    <3>2. ledger' \in Seq(Range(ledger) \cap (Message \ (unreadDone \cap alertDone \cap old)))
      BY <2>2, <3>1, KeptRange DEF AgentRestarts
    <3> QED
      BY <3>2 DEF Events, Range
  <2>3. CASE ledger' = ledger
    BY <2>3 DEF Events
  <2> QED
    BY <2>1, <2>2, <2>3
    DEF Next, AgentStep, SweepStep, UserStep, CardStep, SendReturns, Ages,
        AgentRevives, BeginSweep, SweepCounts, SweepAnnounces, SweepFails,
        FlushToasts, Callback, CardPresented, CardRejected, CardCloses,
        BreakerCools, BreakerResumes, WindowSlides, DeckStep, OpenConversation,
        HideChat, RestoreChat, MarkRead, RestoreAll, ActivationChanges,
        RecoverMessages, WindowEnds, WindowStarts, tables
<1> QED
  BY <1>1, BadgeInit, BadgeNext, PTL DEF Spec, RecordedOnce

-----------------------------------------------------------------------------
(***************************************************************************)
(* The burst: which groups of messages it presents, and under which keys.  *)
(***************************************************************************)
BurstGroups(q) == {Burst(q)[i][2] : i \in 1..Len(Burst(q))}

LEMMA SingleKey ==
  ASSUME NEW m \in Message
  PROVE  /\ Key(<<m>>) = <<m, m, 1>> /\ Range(<<m>>) = {m}
         /\ Key(<<m>>) \in KeyType
<1>1. Len(<<m>>) = 1 /\ <<m>>[1] = m /\ DOMAIN <<m>> = 1..1
  OBVIOUS
<1>2. Last(<<m>>) = m
  BY <1>1 DEF Last
<1>3. Range(<<m>>) = {m}
  BY <1>1 DEF Range
<1>4. <<m, m, 1>> \in KeyType
  BY DEF KeyType
<1> QED
  BY <1>1, <1>2, <1>3, <1>4 DEF Key

LEMMA ListKey ==
  ASSUME NEW s \in Seq(Message), Len(s) > 1
  PROVE  /\ Key(s) \in KeyType /\ Key(s)[1] \in Range(s) /\ Key(s)[3] > 1
<1>1. Len(s) \in Nat \ {0} /\ 1 \in 1..Len(s) /\ Len(s) \in 1..Len(s) /\ DOMAIN s = 1..Len(s)
  OBVIOUS
<1>2. s[1] \in Message /\ s[Len(s)] \in Message /\ s[1] \in Range(s)
  BY <1>1 DEF Range
<1>3. Key(s) = <<s[1], s[Len(s)], Len(s)>>
  BY DEF Key, Last
<1> QED
  BY <1>1, <1>2, <1>3 DEF KeyType

\* A code is alone; so is an ordinary message of a small burst; the ordinary
\* messages of a large burst are one group.
LEMMA BurstItems ==
  ASSUME NEW q \in Seq(Message)
  PROVE  LET rest == Kept(q, Message \ Codes)
         IN  /\ rest \in Seq(Range(q) \cap (Message \ Codes))
             /\ Len(Burst(q)) \in Nat
             /\ \A g \in BurstGroups(q) :
                  \/ \E m \in Range(q) \cap Codes : g = <<m>>
                  \/ /\ Len(rest) <= MaxIndividual
                     /\ \E m \in Range(q) : g = <<m>>
                  \/ Len(rest) > MaxIndividual /\ g = rest
<1> DEFINE codes == Kept(q, Codes)
           rest == Kept(q, Message \ Codes)
           rev == Reverse(codes)
           one == [i \in 1..Len(rev) |-> <<"popup", <<rev[i]>>>>]
           two == IF Len(rest) <= MaxIndividual
                  THEN [i \in 1..Len(rest) |-> <<mode, <<rest[i]>>>>]
                  ELSE <<<<mode, rest>>>>
<1>1. codes \in Seq(Range(q) \cap Codes) /\ rest \in Seq(Range(q) \cap (Message \ Codes))
  BY KeptRange
<1>2. Burst(q) = one \o two
  BY DEF Burst
<1> HIDE DEF codes, rest
<1>3. rev \in Seq(Range(q) \cap Codes)
  <2>1. Len(codes) \in Nat /\ \A i \in 1..Len(codes) : (Len(codes) - i) + 1 \in 1..Len(codes)
    BY <1>1
  <2>2. \A i \in 1..Len(codes) : codes[i] \in Range(q) \cap Codes
    BY <1>1
  <2> QED
    BY <2>1, <2>2 DEF Reverse
<1> HIDE DEF rev
<1>4. one \in Seq(Range(one)) /\ Len(one) = Len(rev) /\ Len(rev) \in Nat
  <2>1. Len(rev) \in Nat
    BY <1>3
  <2>2. Len(one) = Len(rev) /\ DOMAIN one = 1..Len(rev)
    BY <2>1
  <2> HIDE DEF one
  <2>3. \A i \in 1..Len(rev) : one[i] \in Range(one)
    BY <2>2 DEF Range
  <2>4. one = [i \in 1..Len(rev) |-> one[i]]
    BY DEF one
  <2> QED
    BY <2>1, <2>2, <2>3, <2>4
<1>5. /\ Len(two) \in Nat /\ DOMAIN two = 1..Len(two) /\ two \in Seq(Range(two))
  <2>1. CASE Len(rest) <= MaxIndividual
    <3>1. Len(rest) \in Nat
      BY <1>1
    <3>2. two = [i \in 1..Len(rest) |-> two[i]] /\ DOMAIN two = 1..Len(rest)
      BY <2>1
    <3> HIDE DEF two
    <3>3. \A i \in 1..Len(rest) : two[i] \in Range(two)
      BY <3>2 DEF Range
    <3> QED
      BY <3>1, <3>2, <3>3
  <2>2. CASE ~(Len(rest) <= MaxIndividual)
    <3>1. two = <<<<mode, rest>>>>
      BY <2>2
    <3> HIDE DEF two
    <3> QED
      BY <3>1 DEF Range
  <2> QED
    BY <2>1, <2>2
<1>6. /\ Len(Burst(q)) = Len(one) + Len(two)
      /\ \A i \in 1..(Len(one) + Len(two)) :
           Burst(q)[i] = IF i <= Len(one) THEN one[i] ELSE two[i - Len(one)]
  <2> DEFINE T == Range(one) \cup Range(two)
  <2> HIDE DEF one, two
  <2>1. one \in Seq(T) /\ two \in Seq(T)
    BY <1>4, <1>5
  <2> HIDE DEF T
  <2> QED
    BY <1>2, <2>1, ConcatProperties
<1>7. Len(Burst(q)) \in Nat
  BY <1>4, <1>5, <1>6
<1>8. ASSUME NEW i \in 1..Len(Burst(q))
      PROVE  LET g == Burst(q)[i][2]
             IN  \/ \E m \in Range(q) \cap Codes : g = <<m>>
                 \/ /\ Len(rest) <= MaxIndividual
                    /\ \E m \in Range(q) : g = <<m>>
                 \/ Len(rest) > MaxIndividual /\ g = rest
  <2>1. CASE i <= Len(one)
    <3>1. i \in 1..Len(rev) /\ Burst(q)[i] = one[i]
      <4> HIDE DEF one, two
      <4>1. i \in Nat /\ i >= 1 /\ i \in 1..(Len(one) + Len(two))
        BY <1>4, <1>5, <1>6
      <4> QED
        BY <1>4, <1>5, <1>6, <2>1, <4>1
    <3>2. Burst(q)[i][2] = <<rev[i]>> /\ rev[i] \in Range(q) \cap Codes
      BY <1>3, <3>1
    <3> QED
      BY <3>2
  <2>2. CASE ~(i <= Len(one))
    <3>1. PICK j \in 1..Len(two) : Burst(q)[i] = two[j]
      <4> HIDE DEF one, two
      <4>1. i - Len(one) \in 1..Len(two)
        BY <1>4, <1>5, <1>6, <2>2
      <4> QED
        BY <1>4, <1>5, <1>6, <2>2, <4>1
    <3>2. CASE Len(rest) <= MaxIndividual
      <4>1. Len(two) = Len(rest) /\ j \in 1..Len(rest)
        BY <1>1, <3>2
      <4>2. Burst(q)[i][2] = <<rest[j]>> /\ rest[j] \in Range(q)
        BY <1>1, <3>1, <3>2, <4>1
      <4> QED
        BY <3>2, <4>2
    <3>3. CASE ~(Len(rest) <= MaxIndividual)
      <4>1. Len(rest) > MaxIndividual
        BY <1>1, <3>3, DeliveryAlertsAssumption
      <4>2. two = <<<<mode, rest>>>>
        BY <3>3
      <4>3. j = 1
        BY <4>2
      <4>4. Burst(q)[i][2] = rest
        BY <3>1, <4>2, <4>3
      <4> QED
        BY <4>1, <4>4
    <3> QED
      BY <3>2, <3>3
  <2> QED
    BY <2>1, <2>2
<1>9. \A g \in BurstGroups(q) :
        \/ \E m \in Range(q) \cap Codes : g = <<m>>
        \/ Len(rest) <= MaxIndividual /\ \E m \in Range(q) : g = <<m>>
        \/ Len(rest) > MaxIndividual /\ g = rest
  BY <1>8 DEF BurstGroups
<1> QED
  BY <1>1, <1>7, <1>9 DEF rest

\* Two groups of a burst have the same key or no message in common.
LEMMA BurstShape ==
  ASSUME NEW q \in Seq(Message), NEW g \in BurstGroups(q)
  PROVE  /\ Range(g) \subseteq Range(q) /\ Key(g) \in KeyType
         /\ Key(g)[1] \in Range(g)
         /\ \A h \in BurstGroups(q) : IF Key(g) = Key(h) THEN Range(g) = Range(h)
                                      ELSE Range(g) \cap Range(h) = {}
<1> DEFINE rest == Kept(q, Message \ Codes)
           W == Range(q) \cap (Message \ Codes)
<1>1. /\ rest \in Seq(W)
      /\ \A h \in BurstGroups(q) :
           \/ \E m \in Range(q) \cap Codes : h = <<m>>
           \/ Len(rest) <= MaxIndividual /\ \E m \in Range(q) : h = <<m>>
           \/ Len(rest) > MaxIndividual /\ h = rest
  BY BurstItems
<1>2. Range(q) \subseteq Message
  BY DEF Range
<1> HIDE DEF rest
<1>3. /\ \A m \in Range(q) : /\ Key(<<m>>) = <<m, m, 1>> /\ Range(<<m>>) = {m}
                             /\ Key(<<m>>) \in KeyType
  BY <1>2, SingleKey
<1>4. /\ Len(rest) \in Nat /\ Range(rest) \subseteq W /\ rest \in Seq(Message)
      /\ MaxIndividual \in Nat \ {0}
  BY <1>1, DeliveryAlertsAssumption DEF Range
<1>5. ASSUME Len(rest) > MaxIndividual
      PROVE  Key(rest) \in KeyType /\ Key(rest)[1] \in Range(rest) /\ Key(rest)[3] > 1
  <2>1. Len(rest) > 1
    BY <1>4, <1>5
  <2> QED
    BY <1>4, <2>1, ListKey
<1>6. CASE \E m \in Range(q) : g = <<m>>
  <2>1. PICK m \in Range(q) : g = <<m>>
    BY <1>6
  <2>2. Key(g) = <<m, m, 1>> /\ Range(g) = {m} /\ Key(g) \in KeyType
    BY <1>3, <2>1
  <2>3. ASSUME NEW h \in BurstGroups(q)
        PROVE  IF Key(g) = Key(h) THEN Range(g) = Range(h)
               ELSE Range(g) \cap Range(h) = {}
    <3>1. CASE \E x \in Range(q) : h = <<x>>
      <4>1. PICK x \in Range(q) : h = <<x>>
        BY <3>1
      <4>2. Key(h) = <<x, x, 1>> /\ Range(h) = {x}
        BY <1>3, <4>1
      <4> QED
        BY <2>2, <4>2
    <3>2. CASE Len(rest) > MaxIndividual /\ h = rest
      <4>1. Key(h)[3] > 1
        BY <1>5, <3>2
      <4>2. Key(g)[3] = 1
        BY <2>2
      <4>3. Key(g) # Key(h)
        BY <4>1, <4>2
      <4>4. m \in Codes
        <5>1. <<m>> # rest
          <6>1. Key(<<m>>)[3] = 1 /\ Key(rest)[3] > 1
            BY <1>5, <2>1, <3>2, <4>2
          <6> QED
            BY <6>1
        <5>2. ~(Len(rest) <= MaxIndividual)
          BY <1>4, <3>2
        <5>3. \E x \in Range(q) \cap Codes : g = <<x>>
          BY <1>1, <2>1, <5>1, <5>2
        <5>4. PICK x \in Range(q) \cap Codes : g = <<x>>
          BY <5>3
        <5>5. Range(g) = {x}
          BY <1>3, <5>4
        <5> QED
          BY <2>2, <5>4, <5>5
      <4> QED
        BY <1>4, <2>2, <3>2, <4>3, <4>4
    <3> QED
      BY <1>1, <3>1, <3>2
  <2> QED
    BY <2>1, <2>2, <2>3
<1>7. CASE Len(rest) > MaxIndividual /\ g = rest
  <2>1. /\ Key(g) \in KeyType /\ Key(g)[1] \in Range(g) /\ Key(g)[3] > 1
        /\ Range(g) \subseteq W
    BY <1>4, <1>5, <1>7
  <2>2. ASSUME NEW h \in BurstGroups(q)
        PROVE  IF Key(g) = Key(h) THEN Range(g) = Range(h)
               ELSE Range(g) \cap Range(h) = {}
    <3>1. CASE h = rest
      BY <1>7, <3>1
    <3>2. CASE h # rest
      <4>1. ~(Len(rest) <= MaxIndividual)
        BY <1>4, <1>7
      <4>2. PICK x \in Range(q) \cap Codes : h = <<x>>
        BY <1>1, <3>2, <4>1
      <4>3. Key(h) = <<x, x, 1>> /\ Range(h) = {x}
        BY <1>3, <4>2
      <4>4. Key(h)[3] = 1
        BY <4>3
      <4>5. Key(g) # Key(h)
        BY <2>1, <4>4
      <4>6. Range(g) \cap Range(h) = {}
        BY <2>1, <4>2, <4>3
      <4> QED
        BY <4>5, <4>6
    <3> QED
      BY <3>1, <3>2
  <2> QED
    BY <2>1, <2>2
<1> QED
  BY <1>1, <1>6, <1>7

\* The loop over the burst.
LEMMA PresentedLoop ==
  ASSUME NEW q, Len(Burst(q)) \in Nat, NEW env
  PROVE  \E f : /\ Presented(q, env) = f[Len(Burst(q))]
                /\ f[0] = [deck |-> deck, groups |-> groups, popping |-> popping,
                           done |-> alertDone, raised |-> FALSE]
                /\ \A n \in 1..Len(Burst(q)) :
                     f[n] = IF f[n - 1].raised THEN f[n - 1]
                            ELSE Present(f[n - 1], Burst(q)[n][1], Burst(q)[n][2], env)
<1> DEFINE items == Burst(q)
           L == Len(items)
           start == [deck |-> deck, groups |-> groups, popping |-> popping,
                     done |-> alertDone, raised |-> FALSE]
           Ok(f, k) == f = [n \in 0..k |->
                IF n = 0 THEN start
                ELSE IF f[n - 1].raised THEN f[n - 1]
                     ELSE Present(f[n - 1], items[n][1], items[n][2], env)]
           P == {k \in Nat : \E f : Ok(f, k)}
<1> HIDE DEF start, items
<1>1. 0 \in P
  <2>1. Ok([n \in 0..0 |-> start], 0)
    OBVIOUS
  <2> QED
    BY <2>1
<1>2. \A k \in Nat : k \in P => k + 1 \in P
  <2>1. ASSUME NEW k \in Nat, NEW f, Ok(f, k) PROVE \E g : Ok(g, k + 1)
    <3> DEFINE g == [n \in 0..(k + 1) |->
                       IF n = k + 1
                       THEN IF f[k].raised THEN f[k]
                            ELSE Present(f[k], items[k + 1][1], items[k + 1][2], env)
                       ELSE f[n]]
    <3>1. \A n \in 0..k : g[n] = f[n]
      OBVIOUS
    <3>2. ASSUME NEW n \in 0..(k + 1)
          PROVE  g[n] = IF n = 0 THEN start
                        ELSE IF g[n - 1].raised THEN g[n - 1]
                             ELSE Present(g[n - 1], items[n][1], items[n][2], env)
      <4>1. CASE n = k + 1
        BY <4>1, <3>1
      <4>2. CASE n # k + 1
        <5>1. n \in 0..k /\ (n # 0 => n - 1 \in 0..k)
          BY <4>2
        <5>2. f[n] = IF n = 0 THEN start
                     ELSE IF f[n - 1].raised THEN f[n - 1]
                          ELSE Present(f[n - 1], items[n][1], items[n][2], env)
          BY <5>1, <2>1
        <5> QED
          BY <5>1, <5>2, <3>1
      <4> QED
        BY <4>1, <4>2
    <3>3. Ok(g, k + 1)
      BY <3>2
    <3> QED
      BY <3>3
  <2> HIDE DEF Ok
  <2> QED
    BY <2>1
<1>3. L \in P
  <2>1. L \in Nat
    BY DEF items
  <2> HIDE DEF P, L
  <2> QED
    BY <1>1, <1>2, <2>1, SetInduction
<1> DEFINE h == CHOOSE f : Ok(f, L)
<1>4. Ok(h, L)
  BY <1>3
<1>5. Presented(q, env) = h[L]
  BY DEF Presented, items, start
<1>6. h[0] = start
      /\ \A n \in 1..L : h[n] = IF h[n - 1].raised THEN h[n - 1]
                                ELSE Present(h[n - 1], items[n][1], items[n][2], env)
  <2>2. L \in Nat
    BY DEF items
  <2> HIDE DEF h
  <2>1. \A n \in 0..L : h[n] = IF n = 0 THEN start
                               ELSE IF h[n - 1].raised THEN h[n - 1]
                                    ELSE Present(h[n - 1], items[n][1], items[n][2], env)
    BY <1>4
  <2> HIDE DEF L
  <2>3. h[0] = start
    <3>1. 0 \in 0..L
      BY <2>2
    <3> QED
      BY <2>1, <3>1, Zenon
  <2>4. \A n \in 1..L : h[n] = IF h[n - 1].raised THEN h[n - 1]
                               ELSE Present(h[n - 1], items[n][1], items[n][2], env)
    BY <2>1, <2>2
  <2> QED
    BY <2>3, <2>4
<1> QED
  BY <1>5, <1>6 DEF items, start

Whole(s) == s = [deck |-> s.deck, groups |-> s.groups, popping |-> s.popping,
                 done |-> s.done, raised |-> s.raised]

With(f, key, v) == [k \in DOMAIN f \cup {key} |-> IF k = key THEN v ELSE f[k]]

\* A toast; a card or its place in the queue; a card that was refused.
Outcome(s, t, d, key, G) ==
  /\ Whole(t) /\ t.done \in {s.done, s.done \cup G}
  /\ \/ t.deck = s.deck /\ t.groups = s.groups /\ t.popping = s.popping
     \/ /\ d.res # "refused" /\ t.deck = d /\ t.done = s.done
        /\ t.groups = With(s.groups, key, G) /\ t.popping = s.popping \cup G
     \/ /\ d.res = "refused" /\ t.deck = d
        /\ t.groups = Without(s.groups, key) /\ t.popping = s.popping \ G

LEMMA PresentEffect ==
  ASSUME NEW s, Whole(s), NEW style, NEW guids, NEW env
  PROVE  Outcome(s, Present(s, style, guids, env),
                 Show(s.deck, Key(guids), env.fails), Key(guids), Range(guids))
<1> USE DEF Outcome
<1> DEFINE key == Key(guids)
           d == Show(s.deck, key, env.fails)
           t == Present(s, style, guids, env)
           G == With(s.groups, key, Range(guids))
<1>1. ASSUME NEW u, Whole(u)
      PROVE  LET v == Toast(u, guids, env)
             IN  /\ Whole(v) /\ v.done \in {u.done, u.done \cup Range(guids)}
                 /\ v.deck = u.deck /\ v.groups = u.groups /\ v.popping = u.popping
  BY <1>1 DEF Toast, Whole
<1>2. CASE style = "system" /\ env.tray
  <2>1. t = Toast(s, guids, env)
    BY <1>2 DEF Present
  <2> QED
    BY <1>1, <2>1
<1>3. CASE ~(style = "system" /\ env.tray) /\ d.res # "refused"
  <2>0. [s EXCEPT !.deck = d].groups = s.groups /\ [s EXCEPT !.deck = d].popping = s.popping
    BY DEF Whole
  <2>1. t = [[s EXCEPT !.deck = d] EXCEPT !.groups = G,
               !.popping = s.popping \cup Range(guids)]
    BY <1>3, <2>0 DEF Present, With
  <2> HIDE DEF d, G
  <2>2. t = [deck |-> d, groups |-> G, popping |-> s.popping \cup Range(guids),
             done |-> s.done, raised |-> s.raised]
    BY <2>1 DEF Whole
  <2> HIDE DEF t
  <2>3. Whole(t)
    BY <2>2 DEF Whole
  <2>4. t.done = s.done /\ t.deck = d /\ t.groups = G /\ t.popping = s.popping \cup Range(guids)
    BY <2>2
  <2> QED
    BY <1>3, <2>3, <2>4 DEF G, d, t
<1>4. CASE ~(style = "system" /\ env.tray) /\ d.res = "refused"
  <2> DEFINE u == [deck |-> d, groups |-> Without(s.groups, key),
                   popping |-> s.popping \ Range(guids), done |-> s.done,
                   raised |-> s.raised]
  <2>0. [[s EXCEPT !.deck = d] EXCEPT !.groups = Without(@, key),
                                      !.popping = @ \ Range(guids)] = u
    <3> DEFINE r == [s EXCEPT !.deck = d]
    <3> HIDE DEF d, key, u, t
    <3>1. /\ Whole(r) /\ r.deck = d /\ r.groups = s.groups /\ r.popping = s.popping
          /\ r.done = s.done /\ r.raised = s.raised
      BY DEF Whole
    <3> HIDE DEF r
    <3> DEFINE w == Without(r.groups, key)
               z == [r EXCEPT !.groups = w]
    <3> HIDE DEF w
    <3>2. /\ Whole(z) /\ z.deck = r.deck /\ z.groups = w /\ z.popping = r.popping
          /\ z.done = r.done /\ z.raised = r.raised
      BY <3>1 DEF Whole
    <3> HIDE DEF z
    <3> DEFINE x == z.popping \ Range(guids)
    <3> HIDE DEF x
    <3>3. [z EXCEPT !.popping = x]
            = [deck |-> z.deck, groups |-> z.groups, popping |-> x,
               done |-> z.done, raised |-> z.raised]
      BY <3>2 DEF Whole
    <3>4. [r EXCEPT !.groups = Without(r.groups, key), !.popping = r.popping \ Range(guids)] = u
      BY <3>1, <3>2, <3>3 DEF u, w, x, z
    <3> QED
      BY <3>4 DEF r
  <2>1. t = IF style # "system" /\ env.tray THEN Toast(u, guids, env) ELSE u
    BY <1>4, <2>0 DEF Present
  <2>2. Whole(u)
    BY DEF Whole
  <2> HIDE DEF d
  <2>3. /\ u.deck = d /\ u.groups = Without(s.groups, key)
        /\ u.popping = s.popping \ Range(guids) /\ u.done = s.done
    OBVIOUS
  <2> HIDE DEF u
  <2>4. CASE style # "system" /\ env.tray
    <3>1. t = Toast(u, guids, env)
      BY <2>1, <2>4
    <3> HIDE DEF t
    <3>2. /\ Whole(t) /\ t.done \in {u.done, u.done \cup Range(guids)}
          /\ t.deck = u.deck /\ t.groups = u.groups /\ t.popping = u.popping
      BY <1>1, <2>2, <3>1
    <3> QED
      BY <1>4, <2>3, <3>2 DEF d, t
  <2>5. CASE ~(style # "system" /\ env.tray)
    BY <1>4, <2>1, <2>2, <2>3, <2>5 DEF d
  <2> QED
    BY <2>4, <2>5
<1> QED
  BY <1>2, <1>3, <1>4

\* Where a request goes, as seen from the outside.
LEMMA RequestAwaited ==
  ASSUME NEW d, DeckInv(d), NEW key \in KeyType, Fresh(d, key), NEW e
  PROVE  /\ Queues(d, e, key) \/ Shows(d, e, key) => Awaited(e) = Awaited(d) \cup {key}
         /\ Queues(d, e, key) => Range(e.waiting) = Range(d.waiting) \cup {key}
         /\ Refuses(d, e, key, FALSE) => Awaited(e) = Awaited(d)
<1>1. ASSUME Queues(d, e, key)
      PROVE  /\ Awaited(e) = Awaited(d) \cup {key}
             /\ Range(e.waiting) = Range(d.waiting) \cup {key}
  <2>1. /\ d.waiting \in Seq(KeyType) /\ key \notin Range(d.waiting)
        /\ \A i, j \in DOMAIN d.waiting : d.waiting[i] = d.waiting[j] => i = j
    BY DEF DeckInv, DeckRecord, Fresh, Awaited
  <2>2. Range(Append(d.waiting, key)) = Range(d.waiting) \cup {key}
    BY <2>1, AppendRange
  <2>3. Range(e.waiting) = Range(d.waiting) \cup {key} /\ PostedKeys(e) = PostedKeys(d)
    BY <1>1, <2>2 DEF Queues, PostedKeys
  <2> QED
    BY <2>3 DEF Awaited
<1>2. ASSUME Shows(d, e, key) PROVE Awaited(e) = Awaited(d) \cup {key}
  <2>1. e.posted = d.posted \cup {<<"presented", key>>} /\ e.waiting = d.waiting
    BY <1>2 DEF Shows
  <2>2. PostedKeys(e) = PostedKeys(d) \cup {key}
    BY <2>1, PostedOne, ZenonT(60)
  <2> QED
    BY <2>1, <2>2 DEF Awaited
<1>3. ASSUME Refuses(d, e, key, FALSE) PROVE Awaited(e) = Awaited(d)
  BY <1>3 DEF Refuses, Awaited, PostedKeys
<1> QED
  BY <1>1, <1>2, <1>3

-----------------------------------------------------------------------------
(***************************************************************************)
(* Reservations.  Every group is awaited by a request behind the cards or  *)
(* by a callback; it holds messages that are reserved or done, and the     *)
(* first of them, which is what _on_popup_presented falls back on.  A      *)
(* message collected for the next burst is in no group.                    *)
(***************************************************************************)
Collected == Range(toasts)

Grouped ==
  \A key \in DOMAIN groups :
    /\ groups[key] \subseteq popping \cup alertDone
    /\ key[1] \in groups[key] \cup alertDone
    /\ groups[key] \cap Collected = {} /\ key[1] \notin Collected

Apart == \A k, l \in DOMAIN groups : k # l => groups[k] \cap groups[l] = {}

OnScreenOnly ==
  \A key \in deck.keys \ DOMAIN groups : key[1] \in alertDone /\ key[1] \notin Collected

Held == \A m \in popping \ alertDone : \E key \in DOMAIN groups : m \in groups[key]

Reserved ==
  /\ DeckInv(deck) /\ DOMAIN groups = Awaited(deck)
  /\ Grouped /\ Apart /\ OnScreenOnly /\ Held
  /\ popping \cap Collected = {}

\* The same in the middle of a burst, where the collected messages have
\* groups of their own.
OfBurst(key) == \E g \in BurstGroups(toasts) : key = Key(g)

InBurst(s, key) ==
  key \in s.deck.keys
    /\ \E g \in BurstGroups(toasts) : key = Key(g) /\ s.groups[key] = Range(g)

BurstGrouped(s) ==
  \A key \in DOMAIN s.groups :
    /\ s.groups[key] \subseteq s.popping \cup s.done
    /\ key[1] \in s.groups[key] \cup s.done
    /\ \/ key \in DOMAIN groups /\ s.groups[key] = groups[key]
       \/ InBurst(s, key)

BurstReserved(s) ==
  /\ DeckInv(s.deck) /\ DOMAIN s.groups = Awaited(s.deck) /\ BurstGrouped(s)
  /\ \A key \in s.deck.keys \ DOMAIN s.groups :
       key[1] \in s.done /\ key[1] \notin Collected
  /\ \A m \in s.popping \ s.done : \E key \in DOMAIN s.groups : m \in s.groups[key]

BurstBounds(s) ==
  /\ alertDone \subseteq s.done /\ s.done \subseteq alertDone \cup Collected
  /\ popping \subseteq s.popping /\ s.popping \subseteq popping \cup Collected

BurstDeck(s) ==
  /\ Timing(deck, s.deck) /\ deck.cards \subseteq s.deck.cards
  /\ \A key \in s.deck.cards \ deck.cards :
       <<"presented", key>> \in s.deck.posted /\ OfBurst(key)
  /\ \A key \in Range(s.deck.waiting) : key \in Range(deck.waiting) \/ OfBurst(key)
  /\ \A key \in KeyType : <<"rejected", key>> \in s.deck.posted =>
       <<"rejected", key>> \in deck.posted
  /\ s.deck.waiting # <<>> => \/ deck.waiting # <<>> \/ deck.cooling
                              \/ s.deck.cards # {} \/ s.deck.resume # "none"

Underway(s) == Whole(s) /\ BurstReserved(s) /\ BurstBounds(s) /\ BurstDeck(s)

\* What the invariant says of the key of a group of the burst: its deck
\* knows it exactly if it awaits it, and then with these messages; every
\* other group is apart from it.
LEMMA BurstKey ==
  ASSUME Reserved, toasts \in Seq(Message), NEW s, BurstReserved(s),
         NEW g \in BurstGroups(toasts)
  PROVE  /\ Key(g) \in KeyType /\ Key(g)[1] \in Range(g) /\ Range(g) \subseteq Collected
         /\ Key(g) \in s.deck.keys <=> Key(g) \in DOMAIN s.groups
         /\ Key(g) \in DOMAIN s.groups => s.groups[Key(g)] = Range(g)
         /\ \A k \in DOMAIN s.groups : k # Key(g) => s.groups[k] \cap Range(g) = {}
<1>1. /\ Range(g) \subseteq Collected /\ Key(g) \in KeyType /\ Key(g)[1] \in Range(g)
      /\ \A h \in BurstGroups(toasts) : IF Key(g) = Key(h) THEN Range(g) = Range(h)
                                        ELSE Range(g) \cap Range(h) = {}
  BY BurstShape DEF Collected
<1>2. ASSUME Key(g) \in DOMAIN s.groups
      PROVE  Key(g) \in s.deck.keys /\ s.groups[Key(g)] = Range(g)
  <2>1. ~(Key(g) \in DOMAIN groups)
    BY <1>1 DEF Reserved, Grouped
  <2>2. InBurst(s, Key(g))
    BY <1>2, <2>1 DEF BurstReserved, BurstGrouped
  <2> QED
    BY <1>1, <2>2 DEF InBurst
<1>3. Key(g) \in s.deck.keys => Key(g) \in DOMAIN s.groups
  BY <1>1 DEF BurstReserved
<1>4. ASSUME NEW k \in DOMAIN s.groups, k # Key(g)
      PROVE  s.groups[k] \cap Range(g) = {}
  <2>1. CASE k \in DOMAIN groups /\ s.groups[k] = groups[k]
    BY <1>1, <2>1 DEF Reserved, Grouped
  <2>2. CASE InBurst(s, k)
    BY <1>1, <1>4, <2>2 DEF InBurst
  <2> QED
    BY <2>1, <2>2 DEF BurstReserved, BurstGrouped
<1> QED
  BY <1>1, <1>2, <1>3, <1>4

\* A round that only shows a toast, or that finds the card under way.
LEMMA BurstToast ==
  ASSUME Reserved, NEW s, Underway(s), NEW t, Whole(t), NEW G \in SUBSET Collected,
         t.done \in {s.done, s.done \cup G},
         t.deck = s.deck, t.groups = s.groups,
         s.popping \subseteq t.popping, t.popping \subseteq s.popping \cup G,
         \A m \in t.popping \ s.popping : \E key \in DOMAIN s.groups : m \in s.groups[key]
  PROVE  Underway(t)
<1>1. BurstBounds(t)
  BY DEF Underway, BurstBounds
<1>2. BurstDeck(t)
  BY DEF Underway, BurstDeck
<1>3. BurstGrouped(t)
  BY DEF Underway, BurstReserved, BurstGrouped, InBurst
<1>4. BurstReserved(t)
  BY <1>3 DEF Underway, BurstReserved
<1> QED
  BY <1>1, <1>2, <1>4 DEF Underway

\* The deck of a round in which the request was new to it.
LEMMA BurstDeckRound ==
  ASSUME NEW s, BurstDeck(s), NEW g \in BurstGroups(toasts), Key(g) \in KeyType,
         NEW t, DeckInv(s.deck), Timing(s.deck, t.deck), Fresh(s.deck, Key(g)),
         \/ Queues(s.deck, t.deck, Key(g)) /\ (t.deck.cooling \/ t.deck.cards # {})
         \/ Refuses(s.deck, t.deck, Key(g), FALSE)
         \/ Shows(s.deck, t.deck, Key(g))
  PROVE  BurstDeck(t)
<1>0. OfBurst(Key(g))
  BY DEF OfBurst
<1>1. Timing(deck, t.deck)
  BY DEF BurstDeck, Timing
<1>2. /\ deck.cards \subseteq t.deck.cards
      /\ t.deck.cards \subseteq s.deck.cards \cup {Key(g)}
      /\ s.deck.posted \subseteq t.deck.posted
      /\ Key(g) \in t.deck.cards \ s.deck.cards => <<"presented", Key(g)>> \in t.deck.posted
  BY DEF BurstDeck, Queues, Refuses, Shows
<1>3. ASSUME NEW key \in t.deck.cards \ deck.cards
      PROVE  <<"presented", key>> \in t.deck.posted /\ OfBurst(key)
  <2>1. CASE key \in s.deck.cards
    BY <1>2, <1>3, <2>1 DEF BurstDeck
  <2>2. CASE key \notin s.deck.cards
    BY <1>0, <1>2, <1>3, <2>2
  <2> QED
    BY <2>1, <2>2
<1>4. Range(t.deck.waiting) \subseteq Range(s.deck.waiting) \cup {Key(g)}
  BY RequestAwaited DEF Queues, Refuses, Shows
<1>5. \A key \in KeyType : <<"rejected", key>> \in t.deck.posted =>
        <<"rejected", key>> \in deck.posted
  <2>1. \A key \in KeyType : <<"rejected", key>> \in t.deck.posted =>
          <<"rejected", key>> \in s.deck.posted
    BY DEF Queues, Refuses, Shows
  <2> QED
    BY <2>1 DEF BurstDeck
<1>6. t.deck.waiting # <<>> => \/ deck.waiting # <<>> \/ deck.cooling
                               \/ t.deck.cards # {} \/ t.deck.resume # "none"
  <2>1. CASE Queues(s.deck, t.deck, Key(g)) /\ (t.deck.cooling \/ t.deck.cards # {})
    <3>1. t.deck.cooling => deck.cooling \/ t.deck.resume # "none"
      BY <1>1 DEF Timing
    <3> QED
      BY <2>1, <3>1
  <2>2. CASE t.deck.waiting = s.deck.waiting
    <3>1. s.deck.resume # "none" => t.deck.resume # "none"
      BY DEF Timing
    <3>2. s.deck.cards # {} => t.deck.cards # {}
      BY DEF Queues, Refuses, Shows
    <3> QED
      BY <2>2, <3>1, <3>2 DEF BurstDeck
  <2> QED
    BY <2>1, <2>2 DEF Refuses, Shows
<1>7. \A key \in Range(t.deck.waiting) : key \in Range(deck.waiting) \/ OfBurst(key)
  BY <1>0, <1>4 DEF BurstDeck
<1> QED
  BY <1>1, <1>2, <1>3, <1>5, <1>6, <1>7 DEF BurstDeck

\* A request that the deck takes, or refuses.
LEMMA BurstTaken ==
  ASSUME Reserved, toasts \in Seq(Message), NEW s, Underway(s),
         NEW g \in BurstGroups(toasts), NEW t, Whole(t), t.done = s.done,
         DeckInv(t.deck), Awaited(t.deck) = Awaited(s.deck) \cup {Key(g)},
         t.deck.keys = s.deck.keys \cup {Key(g)},
         t.groups = With(s.groups, Key(g), Range(g)),
         t.popping = s.popping \cup Range(g), BurstDeck(t)
  PROVE  Underway(t)
<1> DEFINE key == Key(g)
<1>1. /\ key[1] \in Range(g) /\ Range(g) \subseteq Collected
      /\ key \in DOMAIN s.groups => s.groups[key] = Range(g)
  BY BurstKey DEF Underway
<1>2. /\ DOMAIN t.groups = DOMAIN s.groups \cup {key} /\ t.groups[key] = Range(g)
      /\ \A k \in DOMAIN s.groups : k # key => t.groups[k] = s.groups[k]
  BY DEF With
<1> HIDE DEF key
<1>3. \A k \in DOMAIN s.groups : t.groups[k] = s.groups[k]
  BY <1>1, <1>2
<1>4. BurstBounds(t)
  BY <1>1 DEF Underway, BurstBounds
<1>5. BurstGrouped(t)
  <2> SUFFICES ASSUME NEW k \in DOMAIN t.groups
               PROVE  /\ t.groups[k] \subseteq t.popping \cup t.done
                      /\ k[1] \in t.groups[k] \cup t.done
                      /\ \/ k \in DOMAIN groups /\ t.groups[k] = groups[k]
                         \/ InBurst(t, k)
    BY DEF BurstGrouped
  <2>1. CASE k = key
    <3>1. InBurst(t, k)
      BY <1>2, <2>1 DEF InBurst, key
    <3> QED
      BY <1>1, <1>2, <2>1, <3>1
  <2>2. CASE k # key
    <3>1. k \in DOMAIN s.groups /\ t.groups[k] = s.groups[k]
      BY <1>2, <1>3, <2>2
    <3>2. InBurst(s, k) => InBurst(t, k)
      BY <3>1 DEF InBurst
    <3> QED
      BY <3>1, <3>2 DEF Underway, BurstReserved, BurstGrouped
  <2> QED
    BY <2>1, <2>2
<1>6. ASSUME NEW m \in t.popping \ t.done PROVE \E k \in DOMAIN t.groups : m \in t.groups[k]
  <2>1. CASE m \in Range(g)
    BY <1>2, <2>1
  <2>2. CASE m \notin Range(g)
    <3>1. m \in s.popping \ s.done
      BY <2>2
    <3>2. PICK k \in DOMAIN s.groups : m \in s.groups[k]
      BY <3>1 DEF Underway, BurstReserved
    <3> QED
      BY <1>2, <1>3, <3>2
  <2> QED
    BY <2>1, <2>2
<1>7. BurstReserved(t)
  <2>1. DOMAIN t.groups = Awaited(t.deck)
    BY <1>2 DEF Underway, BurstReserved, key
  <2>2. \A k \in t.deck.keys \ DOMAIN t.groups : k[1] \in t.done /\ k[1] \notin Collected
    BY <1>2 DEF Underway, BurstReserved, key
  <2> QED
    BY <1>5, <1>6, <2>1, <2>2 DEF BurstReserved
<1> QED
  BY <1>4, <1>7 DEF Underway

LEMMA BurstRefused ==
  ASSUME Reserved, toasts \in Seq(Message), NEW s, Underway(s),
         NEW g \in BurstGroups(toasts), NEW t, Whole(t),
         t.done \in {s.done, s.done \cup Range(g)},
         Fresh(s.deck, Key(g)), DeckInv(t.deck), Awaited(t.deck) = Awaited(s.deck),
         t.deck.keys \subseteq s.deck.keys, s.deck.keys \subseteq t.deck.keys \cup {Key(g)},
         t.groups = Without(s.groups, Key(g)),
         t.popping = s.popping \ Range(g), BurstDeck(t)
  PROVE  Underway(t)
<1> DEFINE key == Key(g)
<1>1. /\ Range(g) \subseteq Collected /\ key \notin DOMAIN s.groups
      /\ \A k \in DOMAIN s.groups : s.groups[k] \cap Range(g) = {}
  <2>1. key \notin DOMAIN s.groups
    BY DEF Underway, BurstReserved, Fresh
  <2> QED
    BY <2>1, BurstKey DEF Underway
<1>2. DOMAIN t.groups = DOMAIN s.groups /\ \A k \in DOMAIN s.groups : t.groups[k] = s.groups[k]
  BY <1>1 DEF Without
<1>3. key \notin s.deck.keys
  BY DEF Fresh
<1> HIDE DEF key
<1>4. BurstBounds(t)
  BY <1>1 DEF Underway, BurstBounds, Reserved
<1>5. BurstGrouped(t)
  <2> SUFFICES ASSUME NEW k \in DOMAIN s.groups
               PROVE  /\ s.groups[k] \subseteq t.popping \cup t.done
                      /\ k[1] \in s.groups[k] \cup t.done
                      /\ \/ k \in DOMAIN groups /\ t.groups[k] = groups[k]
                         \/ InBurst(t, k)
    BY <1>2 DEF BurstGrouped
  <2>1. s.groups[k] \subseteq s.popping \cup s.done /\ k[1] \in s.groups[k] \cup s.done
    BY DEF Underway, BurstReserved, BurstGrouped
  <2>2. InBurst(s, k) => InBurst(t, k)
    BY <1>2, <1>3 DEF InBurst, key
  <2>3. \/ k \in DOMAIN groups /\ t.groups[k] = groups[k]
        \/ InBurst(t, k)
    BY <1>2, <2>2 DEF Underway, BurstReserved, BurstGrouped
  <2> QED
    BY <1>1, <2>1, <2>3
<1>6. BurstReserved(t)
  <2>1. DOMAIN t.groups = Awaited(t.deck)
    BY <1>2 DEF Underway, BurstReserved
  <2>2. \A k \in t.deck.keys \ DOMAIN t.groups : k[1] \in t.done /\ k[1] \notin Collected
    BY <1>2 DEF Underway, BurstReserved
  <2>3. \A m \in t.popping \ t.done : \E k \in DOMAIN t.groups : m \in t.groups[k]
    BY <1>2 DEF Underway, BurstReserved
  <2> QED
    BY <1>5, <2>1, <2>2, <2>3 DEF BurstReserved
<1> QED
  BY <1>4, <1>6 DEF Underway

LEMMA BurstRound ==
  ASSUME Reserved, toasts \in Seq(Message), NEW s, Underway(s),
         NEW style, NEW g \in BurstGroups(toasts),
         NEW env \in [tray : BOOLEAN, fails : BOOLEAN, busy : BOOLEAN]
  PROVE  Underway(Present(s, style, g, env))
<1> DEFINE key == Key(g)
           d == Show(s.deck, key, env.fails)
           t == Present(s, style, g, env)
<1>1. Outcome(s, t, d, key, Range(g))
  BY PresentEffect DEF Underway
<1>2. /\ key \in KeyType /\ Range(g) \subseteq Collected /\ DeckInv(s.deck)
      /\ key \in s.deck.keys <=> key \in DOMAIN s.groups
      /\ key \in DOMAIN s.groups => s.groups[key] = Range(g)
      /\ DOMAIN s.groups = Awaited(s.deck)
  <2>1. BurstReserved(s)
    BY DEF Underway
  <2>2. DeckInv(s.deck) /\ DOMAIN s.groups = Awaited(s.deck)
    BY <2>1 DEF BurstReserved
  <2>3. /\ key \in KeyType /\ Range(g) \subseteq Collected
        /\ key \in s.deck.keys <=> key \in DOMAIN s.groups
        /\ key \in DOMAIN s.groups => s.groups[key] = Range(g)
    BY <2>1, BurstKey
  <2> QED
    BY <2>2, <2>3
<1>3. env.fails \in BOOLEAN
  OBVIOUS
<1>4. /\ DeckInv(d) /\ Timing(s.deck, d)
      /\ \/ /\ key \in s.deck.keys /\ d.res = "queued" /\ d.waiting = s.deck.waiting
            /\ d.keys = s.deck.keys /\ d.cards = s.deck.cards /\ d.posted = s.deck.posted
         \/ /\ Fresh(s.deck, key)
            /\ \/ Queues(s.deck, d, key) /\ (d.cooling \/ d.cards # {})
               \/ Refuses(s.deck, d, key, FALSE)
               \/ Shows(s.deck, d, key)
  BY <1>2, <1>3, ShowEffect
<1> HIDE DEF d, t
<1>5. CASE t.deck = s.deck /\ t.groups = s.groups /\ t.popping = s.popping
  <2>1. Whole(t) /\ t.done \in {s.done, s.done \cup Range(g)}
    BY <1>1 DEF Outcome
  <2> QED
    BY <1>2, <1>5, <2>1, BurstToast DEF t
<1>6. CASE /\ d.res # "refused" /\ t.deck = d /\ t.done = s.done
           /\ t.groups = With(s.groups, key, Range(g))
           /\ t.popping = s.popping \cup Range(g)
  <2>1. CASE Fresh(s.deck, key)
    <3>1. \/ Queues(s.deck, d, key) /\ (d.cooling \/ d.cards # {})
          \/ Shows(s.deck, d, key)
      BY <1>4, <1>6, <2>1 DEF Fresh, Refuses
    <3>2. BurstDeck(t)
      BY <1>2, <1>4, <1>6, <2>1, <3>1, BurstDeckRound DEF Underway
    <3>3. Awaited(d) = Awaited(s.deck) \cup {key} /\ d.keys = s.deck.keys \cup {key}
      <4>1. Awaited(d) = Awaited(s.deck) \cup {key}
        <5>1. Queues(s.deck, d, key) \/ Shows(s.deck, d, key)
          BY <3>1
        <5>2. key \in KeyType /\ DeckInv(s.deck)
          BY <1>2
        <5> HIDE DEF key
        <5> QED
          BY <2>1, <5>1, <5>2, RequestAwaited
      <4>2. d.keys = s.deck.keys \cup {key}
        BY <3>1 DEF Queues, Shows
      <4> QED
        BY <4>1, <4>2
    <3> QED
      BY <1>1, <1>4, <1>6, <3>2, <3>3, BurstTaken DEF t, Outcome
  <2>2. CASE ~Fresh(s.deck, key)
    <3>1. /\ key \in s.deck.keys /\ d.waiting = s.deck.waiting /\ d.keys = s.deck.keys
          /\ d.cards = s.deck.cards /\ d.posted = s.deck.posted
      BY <1>4, <2>2
    <3>2. BurstDeck(t)
      <4>1. Timing(deck, d)
        BY <1>4 DEF Underway, BurstDeck, Timing
      <4>2. s.deck.resume # "none" => d.resume # "none"
        BY <1>4 DEF Timing
      <4> QED
        BY <1>6, <3>1, <4>1, <4>2 DEF Underway, BurstDeck
    <3>3. Awaited(d) = Awaited(s.deck) \cup {key}
      BY <1>2, <3>1 DEF Awaited, PostedKeys
    <3>4. d.keys = s.deck.keys \cup {key}
      BY <3>1
    <3> QED
      BY <1>1, <1>4, <1>6, <3>2, <3>3, <3>4, BurstTaken DEF t, Outcome
  <2> QED
    BY <2>1, <2>2
<1>7. CASE /\ d.res = "refused" /\ t.deck = d /\ t.groups = Without(s.groups, key)
           /\ t.popping = s.popping \ Range(g)
  <2>1. Fresh(s.deck, key) /\ Refuses(s.deck, d, key, FALSE)
    BY <1>4, <1>7 DEF Queues, Shows
  <2>2. BurstDeck(t)
    BY <1>2, <1>4, <1>7, <2>1, BurstDeckRound DEF Underway
  <2>3. Awaited(d) = Awaited(s.deck)
    BY <1>2, <2>1, RequestAwaited
  <2>4. d.keys \subseteq s.deck.keys /\ s.deck.keys \subseteq d.keys \cup {key}
    BY <2>1 DEF Refuses
  <2> QED
    BY <1>1, <1>4, <1>7, <2>1, <2>2, <2>3, <2>4, BurstRefused DEF t, Outcome
<1> QED
  BY <1>1, <1>5, <1>6, <1>7 DEF Outcome

LEMMA BurstEffect ==
  ASSUME Reserved, toasts \in Seq(Message),
         NEW env \in [tray : BOOLEAN, fails : BOOLEAN, busy : BOOLEAN]
  PROVE  Underway(Presented(toasts, env))
<1> DEFINE L == Len(Burst(toasts))
<1>1. L \in Nat
  BY BurstItems
<1>2. PICK f : /\ Presented(toasts, env) = f[L]
               /\ f[0] = [deck |-> deck, groups |-> groups, popping |-> popping,
                          done |-> alertDone, raised |-> FALSE]
               /\ \A n \in 1..L :
                    f[n] = IF f[n - 1].raised THEN f[n - 1]
                           ELSE Present(f[n - 1], Burst(toasts)[n][1],
                                        Burst(toasts)[n][2], env)
  BY <1>1, PresentedLoop
<1>3. \A n \in 1..L : Burst(toasts)[n][2] \in BurstGroups(toasts)
  BY DEF BurstGroups
<1> HIDE DEF L
<1> DEFINE P == {n \in 0..L : Underway(f[n])}
<1>4. 0 \in P
  <2>1. 0 \in 0..L
    BY <1>1
  <2>2. Underway(f[0])
    <3>1. /\ f[0].deck = deck /\ f[0].groups = groups /\ f[0].popping = popping
          /\ f[0].done = alertDone /\ Whole(f[0])
      BY <1>2 DEF Whole
    <3>2. BurstReserved(f[0])
      BY <3>1 DEF Reserved, BurstReserved, BurstGrouped, Grouped, OnScreenOnly, Held
    <3>3. BurstBounds(f[0])
      BY <3>1 DEF BurstBounds
    <3>4. BurstDeck(f[0])
      BY <3>1 DEF BurstDeck, Timing
    <3> QED
      BY <3>1, <3>2, <3>3, <3>4 DEF Underway
  <2> QED
    BY <2>1, <2>2
<1>5. ASSUME NEW n \in 1..L, n - 1 \in P PROVE n \in P
  <2>1. Underway(f[n - 1]) /\ n \in 0..L
    BY <1>1, <1>5
  <2>2. CASE f[n - 1].raised
    <3>1. f[n] = f[n - 1]
      BY <1>2, <2>2
    <3> QED
      BY <2>1, <3>1
  <2>3. CASE ~f[n - 1].raised
    <3>1. f[n] = Present(f[n - 1], Burst(toasts)[n][1], Burst(toasts)[n][2], env)
      BY <1>2, <2>3
    <3>2. Underway(Present(f[n - 1], Burst(toasts)[n][1], Burst(toasts)[n][2], env))
      BY <1>3, <2>1, BurstRound
    <3> QED
      BY <2>1, <3>1, <3>2
  <2> QED
    BY <2>2, <2>3
<1>6. L \in P
  <2> HIDE DEF P
  <2>1. 0..L \subseteq P
    BY <1>1, <1>4, <1>5, BoundedInduction
  <2> QED
    BY <1>1, <2>1
<1> QED
  BY <1>2, <1>6

-----------------------------------------------------------------------------
(***************************************************************************)
(* Cards.  A message that has had a card is reserved or done, is not       *)
(* collected again, and is in no group whose card is still to come.        *)
(***************************************************************************)
Told ==
  /\ carded \cap Collected = {} /\ carded \subseteq popping \cup alertDone
  /\ \A key \in DOMAIN groups :
       key \in Range(deck.waiting) \/ <<"rejected", key>> \in deck.posted
         => groups[key] \cap carded = {}

Reservations == Reserved /\ Told

\* What every step keeps: the invariant, and no second card.
KeptBy == Reservations' /\ NewCards \cap carded = {}

LEMMA NoNewCards ==
  ASSUME deck' = deck \/ deck'.cards \subseteq deck.cards
  PROVE  NewCards = {}
<1>1. deck'.cards \ deck.cards = {}
  OBVIOUS
<1>2. {ShownBy(key) : key \in {}} = {} /\ UNION {} = {}
  OBVIOUS
<1> QED
  BY <1>1, <1>2 DEF NewCards

LEMMA AlertsSame ==
  ASSUME Reservations, UNCHANGED <<popping, groups, deck>>, alertDone \subseteq alertDone',
         carded' \subseteq carded \cup NewCards,
         \/ Collected' \subseteq Collected
         \/ \E m \in Message : /\ Collected' = Collected \cup {m}
                               /\ m \notin alertDone \cup popping
  PROVE  KeptBy
<1> USE DEF Reservations
<1>1. NewCards = {}
  BY NoNewCards
<1>2. PICK N : Collected' \subseteq Collected \cup N /\ N \cap (alertDone \cup popping) = {}
  <2>1. CASE Collected' \subseteq Collected
    <3>1. Collected' \subseteq Collected \cup {} /\ {} \cap (alertDone \cup popping) = {}
      BY <2>1
    <3> QED
      BY <3>1
  <2>2. ASSUME NEW m \in Message, Collected' = Collected \cup {m},
               m \notin alertDone \cup popping
        PROVE  \E N : Collected' \subseteq Collected \cup N /\ N \cap (alertDone \cup popping) = {}
    <3>1. Collected' \subseteq Collected \cup {m} /\ {m} \cap (alertDone \cup popping) = {}
      BY <2>2
    <3> QED
      BY <3>1
  <2> QED
    BY <2>1, <2>2
<1>3. /\ DeckInv(deck') /\ DOMAIN groups' = Awaited(deck')
      /\ Apart' /\ Held'
  BY DEF Reserved, Apart, Held
<1>4. Grouped'
  <2> SUFFICES ASSUME NEW key \in DOMAIN groups
               PROVE  /\ groups[key] \subseteq popping \cup alertDone'
                      /\ key[1] \in groups[key] \cup alertDone'
                      /\ groups[key] \cap Collected' = {} /\ key[1] \notin Collected'
    BY DEF Grouped
  <2>1. /\ groups[key] \subseteq popping \cup alertDone
        /\ key[1] \in groups[key] \cup alertDone
        /\ groups[key] \cap Collected = {} /\ key[1] \notin Collected
    BY DEF Reserved, Grouped
  <2> QED
    BY <1>2, <2>1
<1>5. OnScreenOnly'
  BY <1>2 DEF Reserved, OnScreenOnly
<1>6. popping' \cap Collected' = {}
  BY <1>2 DEF Reserved
<1>7. Told'
  <2>1. carded' \subseteq carded
    BY <1>1
  <2> QED
    BY <1>2, <2>1 DEF Told
<1> QED
  BY <1>1, <1>3, <1>4, <1>5, <1>6, <1>7 DEF KeptBy, Reserved

\* A step of the deck alone: cards appear from behind the others.
LEMMA AlertsMoved ==
  ASSUME Reservations, UNCHANGED <<popping, groups, alertDone, toasts>>,
         DeckInv(deck'), Moved(deck, deck'), carded' \subseteq carded \cup NewCards
  PROVE  KeptBy
<1> USE DEF Reservations
<1>1. Collected' = Collected
  BY DEF Collected
<1>2. /\ DOMAIN groups' = Awaited(deck') /\ Grouped' /\ Apart' /\ Held'
      /\ popping' \cap Collected' = {}
  <2>1. DOMAIN groups' = Awaited(deck')
    BY DEF Reserved, Moved
  <2>2. Grouped' /\ Apart' /\ Held' /\ popping' \cap Collected' = {}
    BY <1>1 DEF Reserved, Grouped, Apart, Held
  <2> QED
    BY <2>1, <2>2
<1>3. Range(deck.waiting) \subseteq DOMAIN groups
  BY DEF Reserved, Awaited
<1>4. OnScreenOnly'
  <2>1. deck'.keys \subseteq deck.keys \cup DOMAIN groups
    BY <1>3 DEF Moved
  <2> QED
    BY <1>1, <2>1 DEF Reserved, OnScreenOnly
<1>5. ASSUME NEW key \in deck'.cards \ deck.cards
      PROVE  /\ key \in Range(deck.waiting) /\ key \in DOMAIN groups
             /\ <<"presented", key>> \in deck'.posted /\ ShownBy(key) = groups[key]
  BY <1>3, <1>5 DEF Moved, ShownBy
<1>6. NewCards \cap carded = {}
  BY <1>5 DEF NewCards, Told
<1>7. ASSUME NEW k \in DOMAIN groups,
             k \in Range(deck'.waiting) \/ <<"rejected", k>> \in deck'.posted
      PROVE  groups[k] \cap carded' = {}
  <2>1. k \in KeyType
    <3>1. DOMAIN groups \subseteq KeyType
      BY DEF Reserved, DeckInv, DeckRecord, Awaited, PostedKeys, Range
    <3> QED
      BY <3>1
  <2>2. groups[k] \cap carded = {}
    BY <1>7, <2>1 DEF Told, Moved
  <2>3. <<"presented", k>> \notin deck'.posted
    BY <1>7, <2>1 DEF DeckInv
  <2>4. groups[k] \cap NewCards = {}
    <3> SUFFICES ASSUME NEW key \in deck'.cards \ deck.cards
                 PROVE  groups[k] \cap ShownBy(key) = {}
      BY DEF NewCards
    <3>1. key # k /\ ShownBy(key) = groups[key] /\ key \in DOMAIN groups
      BY <1>5, <2>3
    <3> QED
      BY <3>1 DEF Reserved, Apart
  <2> QED
    BY <2>2, <2>4
<1>8. Told'
  <2>1. NewCards \subseteq popping \cup alertDone
    BY <1>5 DEF NewCards, Reserved, Grouped
  <2>2. NewCards \cap Collected = {}
    BY <1>5 DEF NewCards, Reserved, Grouped
  <2>3. carded' \cap Collected = {} /\ carded' \subseteq popping \cup alertDone
    BY <2>1, <2>2 DEF Told
  <2> QED
    BY <1>1, <1>7, <2>3 DEF Told
<1> QED
  BY <1>2, <1>4, <1>6, <1>8 DEF KeptBy, Reserved

\* The burst.
LEMMA AlertsFlushed ==
  ASSUME Reservations, toasts \in Seq(Message), NEW s, Underway(s),
         deck' = s.deck, groups' = s.groups, popping' = s.popping, alertDone' = s.done,
         toasts' = <<>>, carded' \subseteq carded \cup NewCards
  PROVE  KeptBy
<1> USE DEF Reservations
<1>0. BurstReserved(s) /\ BurstBounds(s) /\ BurstDeck(s)
  BY DEF Underway
<1>1. Collected' = {}
  BY DEF Collected, Range
<1>2. DeckInv(deck') /\ DOMAIN groups' = Awaited(deck') /\ popping' \cap Collected' = {}
  BY <1>0, <1>1 DEF BurstReserved
<1>3. Grouped' /\ OnScreenOnly' /\ Held'
  <2>1. Grouped'
    BY <1>0, <1>1 DEF BurstReserved, BurstGrouped, Grouped
  <2>2. OnScreenOnly' /\ Held'
    BY <1>0, <1>1 DEF BurstReserved, OnScreenOnly, Held
  <2> QED
    BY <2>1, <2>2
<1>4. ASSUME NEW k \in DOMAIN s.groups, InBurst(s, k)
      PROVE  /\ s.groups[k] \subseteq Collected
             /\ \A l \in DOMAIN s.groups : l # k => s.groups[l] \cap s.groups[k] = {}
  <2>1. PICK g \in BurstGroups(toasts) : k = Key(g) /\ s.groups[k] = Range(g)
    BY <1>4 DEF InBurst
  <2>2. /\ Range(g) \subseteq Collected
        /\ \A l \in DOMAIN s.groups : l # k => s.groups[l] \cap Range(g) = {}
    BY <1>0, <2>1, BurstKey
  <2> QED
    BY <2>1, <2>2
<1>5. Apart'
  <2> SUFFICES ASSUME NEW k \in DOMAIN s.groups, NEW l \in DOMAIN s.groups, k # l
               PROVE  s.groups[k] \cap s.groups[l] = {}
    BY DEF Apart
  <2>1. CASE InBurst(s, k) \/ InBurst(s, l)
    BY <1>4, <2>1
  <2>2. CASE ~InBurst(s, k) /\ ~InBurst(s, l)
    <3>1. /\ k \in DOMAIN groups /\ s.groups[k] = groups[k]
          /\ l \in DOMAIN groups /\ s.groups[l] = groups[l]
      BY <1>0, <2>2 DEF BurstReserved, BurstGrouped
    <3> QED
      BY <3>1 DEF Reserved, Apart
  <2> QED
    BY <2>1, <2>2
<1>6. ASSUME NEW key \in DOMAIN s.groups, OfBurst(key)
      PROVE  InBurst(s, key)
  <2>1. PICK g \in BurstGroups(toasts) : key = Key(g)
    BY <1>6 DEF OfBurst
  <2>2. key \in s.deck.keys /\ s.groups[key] = Range(g)
    BY <1>0, <1>6, <2>1, BurstKey
  <2> QED
    BY <2>1, <2>2 DEF InBurst
<1>7. ASSUME NEW key \in deck'.cards \ deck.cards
      PROVE  /\ key \in DOMAIN s.groups /\ InBurst(s, key)
             /\ <<"presented", key>> \in s.deck.posted /\ ShownBy(key) = s.groups[key]
  <2>1. <<"presented", key>> \in s.deck.posted /\ OfBurst(key)
    BY <1>0 DEF BurstDeck
  <2>2. key \in DOMAIN s.groups
    BY <1>0, <2>1, PostedKey DEF BurstReserved, Awaited
  <2> QED
    BY <1>6, <2>1, <2>2 DEF ShownBy
<1>8. NewCards \subseteq Collected
  <2> SUFFICES ASSUME NEW key \in deck'.cards \ deck.cards
               PROVE  ShownBy(key) \subseteq Collected
    BY DEF NewCards
  <2>1. ShownBy(key) = s.groups[key] /\ key \in DOMAIN s.groups /\ InBurst(s, key)
    BY <1>7
  <2> QED
    BY <1>4, <2>1
<1>9. NewCards \cap carded = {}
  BY <1>8 DEF Told
<1>10. ASSUME NEW k \in DOMAIN s.groups,
              k \in Range(s.deck.waiting) \/ <<"rejected", k>> \in s.deck.posted
       PROVE  s.groups[k] \cap carded' = {}
  <2>1. k \in KeyType
    <3>1. DOMAIN s.groups \subseteq KeyType
      BY <1>0 DEF BurstReserved, DeckInv, DeckRecord, Awaited, PostedKeys, Range
    <3> QED
      BY <3>1
  <2>2. s.groups[k] \cap carded = {}
    <3>1. CASE InBurst(s, k)
      BY <1>4, <3>1 DEF Told
    <3>2. CASE ~InBurst(s, k)
      <4>1. k \in DOMAIN groups /\ s.groups[k] = groups[k]
        BY <1>0, <3>2 DEF BurstReserved, BurstGrouped
      <4>2. k \in Range(deck.waiting) \/ <<"rejected", k>> \in deck.posted
        BY <1>0, <1>6, <1>10, <2>1, <3>2 DEF BurstDeck
      <4> QED
        BY <4>1, <4>2 DEF Told
    <3> QED
      BY <3>1, <3>2
  <2>3. <<"presented", k>> \notin s.deck.posted
    BY <1>10, <1>2, <2>1 DEF DeckInv
  <2>4. s.groups[k] \cap NewCards = {}
    <3> SUFFICES ASSUME NEW key \in deck'.cards \ deck.cards
                 PROVE  s.groups[k] \cap ShownBy(key) = {}
      BY DEF NewCards
    <3>1. /\ key # k /\ key \in DOMAIN s.groups /\ InBurst(s, key)
          /\ ShownBy(key) = s.groups[key]
      BY <1>7, <2>3
    <3> QED
      BY <1>4, <3>1
  <2> QED
    BY <2>2, <2>4
<1>11. Told'
  <2>1. NewCards \subseteq s.popping \cup s.done
    <3> SUFFICES ASSUME NEW key \in deck'.cards \ deck.cards
                 PROVE  ShownBy(key) \subseteq s.popping \cup s.done
      BY DEF NewCards
    <3>1. ShownBy(key) = s.groups[key] /\ key \in DOMAIN s.groups
      BY <1>7
    <3>2. s.groups[key] \subseteq s.popping \cup s.done
      BY <1>0, <3>1 DEF BurstReserved, BurstGrouped
    <3> QED
      BY <3>1, <3>2
  <2>2. carded' \subseteq s.popping \cup s.done
    BY <1>0, <2>1 DEF Told, BurstBounds
  <2> QED
    BY <1>1, <1>10, <2>2 DEF Told
<1> QED
  BY <1>2, <1>3, <1>5, <1>9, <1>11 DEF KeptBy, Reserved

\* The callback of a card, whose acknowledgement may fail in part.
LEMMA AlertsPresented ==
  ASSUME Reservations, toasts' = toasts, NEW key, CardPresented(key),
         carded' \subseteq carded \cup NewCards
  PROVE  KeptBy
<1> USE DEF Reservations
<1>0. /\ DeckInv(deck) /\ <<"presented", key>> \in deck.posted /\ key \in KeyType
      /\ key \in DOMAIN groups
  <2>1. DeckInv(deck) /\ <<"presented", key>> \in deck.posted
    BY DEF CardPresented, Reserved
  <2>2. key \in KeyType
    BY <2>1 DEF DeckInv, DeckRecord
  <2> QED
    BY <2>1, <2>2, PostedKey DEF Reserved, Awaited
<1>1. PICK failed \in SUBSET groups[key] :
        /\ alertDone' = alertDone \cup (groups[key] \ failed)
        /\ popping' = popping \ (groups[key] \ failed)
        /\ IF failed = {}
           THEN /\ deck' = Delivered(deck, <<"presented", key>>)
                /\ groups' = Without(groups, key)
           ELSE /\ groups' = With(groups, key, failed)
                /\ UNCHANGED deck
  BY <1>0 DEF CardPresented, Acknowledges, With
<1>2. Collected' = Collected
  BY DEF Collected
<1>3. ASSUME NEW k \in DOMAIN groups
      PROVE  /\ groups[k] \subseteq popping \cup alertDone
             /\ k[1] \in groups[k] \cup alertDone
             /\ groups[k] \cap Collected = {} /\ k[1] \notin Collected
             /\ k # key => groups[k] \cap groups[key] = {}
  BY <1>0 DEF Reserved, Grouped, Apart
<1>4. /\ popping' \cap Collected' = {} /\ carded \cap Collected' = {}
      /\ carded \subseteq popping' \cup alertDone'
  BY <1>1, <1>2 DEF Reserved, Told
<1>5. CASE failed = {}
  <2>1. /\ DeckInv(deck') /\ Awaited(deck') = Awaited(deck) \ {key}
        /\ deck'.waiting = deck.waiting /\ deck'.cards = deck.cards
        /\ deck'.keys = deck.keys /\ deck'.posted \subseteq deck.posted
    <3>1. deck' = Delivered(deck, <<"presented", key>>)
      BY <1>1, <1>5
    <3> QED
      BY <1>0, <3>1, DeliveredEffect
  <2>2. /\ DOMAIN groups' = DOMAIN groups \ {key}
        /\ \A k \in DOMAIN groups' : groups'[k] = groups[k]
        /\ alertDone' = alertDone \cup groups[key] /\ popping' = popping \ groups[key]
    BY <1>1, <1>5 DEF Without
  <2>3. DOMAIN groups' = Awaited(deck')
    BY <2>1, <2>2 DEF Reserved
  <2>4. Grouped'
    <3> SUFFICES ASSUME NEW k \in DOMAIN groups'
                 PROVE  /\ groups'[k] \subseteq popping' \cup alertDone'
                        /\ k[1] \in groups'[k] \cup alertDone'
                        /\ groups'[k] \cap Collected' = {} /\ k[1] \notin Collected'
      BY DEF Grouped
    <3>1. k \in DOMAIN groups /\ k # key /\ groups'[k] = groups[k]
      BY <2>2
    <3> QED
      BY <1>2, <1>3, <2>2, <3>1
  <2>5. Apart'
    BY <2>2 DEF Reserved, Apart
  <2>6. OnScreenOnly'
    BY <1>0, <1>2, <1>3, <2>1, <2>2 DEF Reserved, OnScreenOnly
  <2>7. Held'
    BY <2>2 DEF Reserved, Held
  <2>8. NewCards = {}
    BY <2>1, NoNewCards
  <2>9. Told'
    <3>1. \A k \in DOMAIN groups' :
            k \in Range(deck'.waiting) \/ <<"rejected", k>> \in deck'.posted
              => groups'[k] \cap carded = {}
      BY <2>1, <2>2 DEF Told
    <3>2. carded' \subseteq carded
      BY <2>8
    <3> QED
      BY <1>4, <3>1, <3>2 DEF Told
  <2> QED
    BY <1>4, <2>1, <2>3, <2>4, <2>5, <2>6, <2>7, <2>8, <2>9 DEF KeptBy, Reserved
<1>6. CASE failed # {}
  <2>1. /\ deck' = deck /\ DOMAIN groups' = DOMAIN groups /\ groups'[key] = failed
        /\ \A k \in DOMAIN groups : k # key => groups'[k] = groups[k]
    BY <1>0, <1>1, <1>6 DEF With
  <2>2. \A k \in DOMAIN groups : groups'[k] \subseteq groups[k]
    BY <2>1
  <2>3. Grouped'
    <3> SUFFICES ASSUME NEW k \in DOMAIN groups
                 PROVE  /\ groups'[k] \subseteq popping' \cup alertDone'
                        /\ k[1] \in groups'[k] \cup alertDone'
                        /\ groups'[k] \cap Collected' = {} /\ k[1] \notin Collected'
      BY <2>1 DEF Grouped
    <3>1. CASE k = key
      BY <1>1, <1>2, <1>3, <2>1, <3>1
    <3>2. CASE k # key
      BY <1>1, <1>2, <1>3, <2>1, <3>2
    <3> QED
      BY <3>1, <3>2
  <2>4. Apart'
    BY <2>1, <2>2 DEF Reserved, Apart
  <2>5. OnScreenOnly'
    BY <1>1, <1>2, <2>1 DEF Reserved, OnScreenOnly
  <2>6. Held'
    <3> SUFFICES ASSUME NEW m \in popping' \ alertDone'
                 PROVE  \E k \in DOMAIN groups : m \in groups'[k]
      BY <2>1 DEF Held
    <3>1. PICK k \in DOMAIN groups : m \in groups[k]
      BY <1>1 DEF Reserved, Held
    <3> QED
      BY <1>1, <2>1, <3>1
  <2>7. NewCards = {}
    BY <2>1, NoNewCards
  <2>8. Told'
    <3>1. \A k \in DOMAIN groups' :
            k \in Range(deck'.waiting) \/ <<"rejected", k>> \in deck'.posted
              => groups'[k] \cap carded = {}
      BY <2>1, <2>2 DEF Told
    <3>2. carded' \subseteq carded
      BY <2>7
    <3> QED
      BY <1>4, <3>1, <3>2 DEF Told
  <2>9. DOMAIN groups' = Awaited(deck')
    BY <2>1 DEF Reserved
  <2> QED
    BY <1>0, <1>4, <2>1, <2>3, <2>4, <2>5, <2>6, <2>7, <2>8, <2>9 DEF KeptBy, Reserved
<1> QED
  BY <1>5, <1>6

\* The callback of a card that could not be shown: its messages go back to
\* the ledger, and none of them has been on a card.
LEMMA AlertsRejected ==
  ASSUME Reservations, UNCHANGED <<toasts, alertDone>>, NEW key, CardRejected(key),
         carded' \subseteq carded \cup NewCards
  PROVE  KeptBy
<1> USE DEF Reservations
<1>0. /\ DeckInv(deck) /\ <<"rejected", key>> \in deck.posted /\ key \in KeyType
      /\ key \in DOMAIN groups
  <2>1. DeckInv(deck) /\ <<"rejected", key>> \in deck.posted
    BY DEF CardRejected, Reserved
  <2>2. key \in KeyType
    BY <2>1 DEF DeckInv, DeckRecord
  <2> QED
    BY <2>1, <2>2, PostedKey DEF Reserved, Awaited
<1>1. /\ popping' = popping \ groups[key]
      /\ deck' = Delivered(deck, <<"rejected", key>>)
      /\ DOMAIN groups' = DOMAIN groups \ {key}
      /\ \A k \in DOMAIN groups' : groups'[k] = groups[k]
  BY <1>0 DEF CardRejected, Without
<1>2. Collected' = Collected
  BY DEF Collected
<1>3. /\ DeckInv(deck') /\ Awaited(deck') = Awaited(deck) \ {key}
      /\ deck'.waiting = deck.waiting /\ deck'.cards = deck.cards
      /\ deck'.keys = deck.keys /\ deck'.posted \subseteq deck.posted
      /\ key \notin deck.keys
  BY <1>0, <1>1, DeliveredEffect
<1>4. DOMAIN groups' = Awaited(deck')
  BY <1>1, <1>3 DEF Reserved
<1>5. Grouped'
  <2> SUFFICES ASSUME NEW k \in DOMAIN groups'
               PROVE  /\ groups'[k] \subseteq popping' \cup alertDone
                      /\ k[1] \in groups'[k] \cup alertDone
                      /\ groups'[k] \cap Collected' = {} /\ k[1] \notin Collected'
    BY DEF Grouped
  <2>1. k \in DOMAIN groups /\ k # key /\ groups'[k] = groups[k]
    BY <1>1
  <2>2. groups[k] \cap groups[key] = {}
    BY <1>0, <2>1 DEF Reserved, Apart
  <2>3. /\ groups[k] \subseteq popping \cup alertDone
        /\ k[1] \in groups[k] \cup alertDone
        /\ groups[k] \cap Collected = {} /\ k[1] \notin Collected
    BY <2>1 DEF Reserved, Grouped
  <2> QED
    BY <1>1, <1>2, <2>1, <2>2, <2>3
<1>6. Apart' /\ Held' /\ popping' \cap Collected' = {}
  BY <1>1, <1>2 DEF Reserved, Apart, Held
<1>7. OnScreenOnly'
  BY <1>1, <1>2, <1>3 DEF Reserved, OnScreenOnly
<1>8. NewCards = {}
  BY <1>3, NoNewCards
<1>9. Told'
  <2>1. groups[key] \cap carded = {}
    BY <1>0 DEF Told
  <2>2. carded \cap Collected' = {} /\ carded \subseteq popping' \cup alertDone
    BY <1>1, <1>2, <2>1 DEF Told
  <2>3. \A k \in DOMAIN groups' :
          k \in Range(deck'.waiting) \/ <<"rejected", k>> \in deck'.posted
            => groups'[k] \cap carded = {}
    BY <1>1, <1>3 DEF Told
  <2>4. carded' \subseteq carded
    BY <1>8
  <2> QED
    BY <2>2, <2>3, <2>4 DEF Told
<1> QED
  BY <1>3, <1>4, <1>5, <1>6, <1>7, <1>8, <1>9 DEF KeptBy, Reserved

\* A window without memory: at the start, and after its process has ended.
LEMMA EmptyDeckInv == DeckInv(EmptyDeck) /\ Awaited(EmptyDeck) = {} /\ EmptyDeck.keys = {}
<1>1. EmptyDeck \in DeckRecord
  BY DEF EmptyDeck, DeckRecord
<1>2. Range(<<>>) = {}
  BY DEF Range
<1> QED
  BY <1>1, <1>2 DEF DeckInv, EmptyDeck, Awaited, PostedKeys

LEMMA AlertsInit == Init => Reservations
<1> SUFFICES ASSUME Init PROVE Reservations
  OBVIOUS
<1> USE DEF Init
<1>1. deck = EmptyDeck /\ DOMAIN groups = {} /\ Collected = {} /\ popping = {} /\ carded = {}
  BY DEF Collected, Range
<1> QED
  BY <1>1, EmptyDeckInv
  DEF Reservations, Reserved, Told, Grouped, Apart, OnScreenOnly, Held

LEMMA AlertsEnded ==
  ASSUME deck' = EmptyDeck, groups' = [k \in {} |-> {}], toasts' = <<>>,
         popping' = {}, carded' = {}
  PROVE  KeptBy
<1>1. DOMAIN groups' = {} /\ Collected' = {}
  BY DEF Collected, Range
<1>2. NewCards = {}
  <2>1. EmptyDeck.cards = {}
    BY DEF EmptyDeck
  <2> QED
    BY <2>1, NoNewCards
<1>3. DeckInv(deck') /\ Awaited(deck') = {} /\ deck'.keys = {}
  BY EmptyDeckInv
<1> QED
  BY <1>1, <1>2, <1>3
  DEF KeptBy, Reservations, Reserved, Told, Grouped, Apart, OnScreenOnly, Held

-----------------------------------------------------------------------------
(***************************************************************************)
(* The whole specification.                                                *)
(***************************************************************************)
\* Messages whose entry is in the feed, or whose last write failed.
Noted == feed \cup unfiled

Filed ==
  /\ toasts \in Seq(Message) /\ Noted \subseteq stored /\ logged \subseteq Noted
  /\ Collected \subseteq Noted /\ popping \subseteq Noted /\ alertDone \subseteq Noted

Settled ==
  /\ old \subseteq Message /\ logged \subseteq Message
  /\ hidden \subseteq Chat /\ reviving \subseteq Chat
  /\ up \in BOOLEAN /\ front \in BOOLEAN /\ mode \in Modes
  /\ open \in Chat \cup {NoChat}
  /\ faults \in 0..MaxFaults /\ acts \in 0..MaxActs

AllKept == Badge /\ Filed /\ Settled /\ Reservations

LEMMA CollectedOne ==
  ASSUME NEW s \in Seq(Message), NEW m \in Message
  PROVE  Range(Append(s, m)) = Range(s) \cup {m}
<1> DEFINE t == Append(s, m)
           n == Len(s)
<1>1. n \in Nat /\ DOMAIN s = 1..n
  OBVIOUS
<1>2. DOMAIN t = 1..(n + 1) /\ t[n + 1] = m /\ \A i \in 1..n : t[i] = s[i]
  OBVIOUS
<1> HIDE DEF t, n
<1>3. \A i \in 1..(n + 1) : i \in 1..n \/ i = n + 1
  BY <1>1
<1>4. Range(t) \subseteq Range(s) \cup {m}
  BY <1>1, <1>2, <1>3 DEF Range
<1>5. m \in Range(t)
  <2>1. n + 1 \in DOMAIN t
    BY <1>1, <1>2
  <2> QED
    BY <2>1, <1>2 DEF Range
<1>6. ASSUME NEW i \in 1..n PROVE s[i] \in Range(t)
  <2>1. i \in DOMAIN t
    BY <1>1, <1>2
  <2> QED
    BY <2>1, <1>2 DEF Range
<1> QED
  BY <1>1, <1>4, <1>5, <1>6 DEF t, Range

\* The sweep passes a message on to the alerts.
LEMMA AnnouncedStep ==
  ASSUME Badge, Filed, Reservations, SweepAnnounces, CardHistory
  PROVE  KeptBy /\ Filed'
<1>0. carded' \subseteq carded \cup NewCards
  BY DEF CardHistory
<1>1. /\ UNCHANGED <<stored, popping, groups, deck>>
      /\ sweep.page \in Seq(recorded) /\ sweep.page # <<>>
  BY DEF SweepAnnounces, Badge, Swept
<1>2. PICK m \in recorded : m = Head(sweep.page)
  BY <1>1
<1>3. m \in stored /\ m \in Message
  BY <1>2 DEF Badge, Ledgered
<1>4. /\ \/ Noted' = Noted /\ UNCHANGED <<logged, alertDone, toasts>>
         \/ RecordFeed(m) /\ alertDone' = alertDone \cup {m} /\ toasts' = toasts
         \/ RecordFeed(m) /\ UNCHANGED <<alertDone, toasts>>
         \/ /\ RecordFeed(m) /\ alertDone' = alertDone
            /\ toasts' = Append(toasts, m) /\ m \notin alertDone \cup popping
  <2>1. CASE m \in alertDone
    BY <1>2, <2>1 DEF SweepAnnounces, Noted
  <2>2. CASE m \notin alertDone
    <3>1. RecordFeed(m) /\ Announce(m)
      BY <1>2, <2>2 DEF SweepAnnounces
    <3>2. \/ alertDone' = alertDone \cup {m} /\ toasts' = toasts
          \/ alertDone' = alertDone /\ toasts' = toasts
          \/ alertDone' = alertDone /\ toasts' = Append(toasts, m) /\ m \notin popping
      BY <3>1 DEF Announce
    <3> QED
      BY <2>2, <3>1, <3>2
  <2> QED
    BY <2>1, <2>2
<1>n. RecordFeed(m) => Noted' = Noted \cup {m} /\ logged' \subseteq logged \cup {m}
  BY <1>2 DEF RecordFeed, Filed, Noted
<1>5. /\ Noted \subseteq Noted' /\ Noted' \subseteq stored /\ logged' \subseteq Noted'
      /\ alertDone \subseteq alertDone' /\ alertDone' \subseteq Noted'
  BY <1>3, <1>4, <1>n DEF Filed
<1>6. CASE toasts' = toasts
  <2>1. Collected' = Collected
    BY <1>6 DEF Collected
  <2>2. Filed'
    BY <1>1, <1>5, <1>6, <2>1 DEF Filed
  <2>3. KeptBy
    BY <1>0, <1>1, <1>5, <2>1, AlertsSame
  <2> QED
    BY <2>2, <2>3
<1>7. CASE /\ RecordFeed(m) /\ alertDone' = alertDone
           /\ toasts' = Append(toasts, m) /\ m \notin alertDone \cup popping
  <2>1. Collected' = Collected \cup {m}
    BY <1>3, <1>7, CollectedOne DEF Collected, Filed
  <2>2. Filed'
    <3>1. toasts' \in Seq(Message)
      BY <1>3, <1>7 DEF Filed
    <3> QED
      BY <1>1, <1>5, <1>7, <1>n, <2>1, <3>1 DEF Filed
  <2>3. KeptBy
    BY <1>0, <1>1, <1>3, <1>5, <1>7, <2>1, AlertsSame
  <2> QED
    BY <2>2, <2>3
<1> QED
  BY <1>4, <1>6, <1>7

\* A step that leaves the alerts alone, but may drop what was collected.
LEMMA QuietStep ==
  ASSUME Filed, Reservations, CardHistory, stored \subseteq stored',
         UNCHANGED <<popping, groups, deck, alertDone, feed, unfiled, logged>>,
         toasts' = toasts \/ toasts' = <<>>
  PROVE  KeptBy /\ Filed'
<1>0. carded' \subseteq carded \cup NewCards
  BY DEF CardHistory
<1>1. Collected' \subseteq Collected /\ toasts' \in Seq(Message)
  <2>1. Range(<<>>) = {} /\ <<>> \in Seq(Message)
    BY DEF Range
  <2> QED
    BY <2>1 DEF Collected, Filed
<1>2. KeptBy
  BY <1>0, <1>1, AlertsSame
<1>3. Filed'
  BY <1>1 DEF Filed, Noted
<1> QED
  BY <1>2, <1>3

LEMMA FlushStep ==
  ASSUME Filed, Reservations, FlushToasts, CardHistory
  PROVE  KeptBy /\ Filed'
<1>0. carded' \subseteq carded \cup NewCards
  BY DEF CardHistory
<1>1. PICK env \in [tray : BOOLEAN, fails : BOOLEAN, busy : BOOLEAN] :
        LET s == Presented(toasts, env)
        IN  /\ deck' = s.deck /\ groups' = s.groups
            /\ popping' = s.popping /\ alertDone' = s.done
  BY DEF FlushToasts
<1>2. PICK s : s = Presented(toasts, env)
  OBVIOUS
<1>3. Underway(s)
  BY <1>2, BurstEffect DEF Filed, Reservations
<1>4. /\ deck' = s.deck /\ groups' = s.groups /\ popping' = s.popping
      /\ alertDone' = s.done /\ toasts' = <<>>
      /\ UNCHANGED <<stored, feed, unfiled, logged>>
  BY <1>1, <1>2 DEF FlushToasts, history
<1>5. KeptBy
  BY <1>0, <1>3, <1>4, AlertsFlushed DEF Filed
<1>6. popping' \subseteq Noted /\ alertDone' \subseteq Noted
  BY <1>3, <1>4 DEF Underway, BurstBounds, Filed
<1>7. Range(<<>>) = {} /\ <<>> \in Seq(Message)
  BY DEF Range
<1>8. Filed'
  BY <1>4, <1>6, <1>7 DEF Filed, Noted, Collected
<1> QED
  BY <1>5, <1>8

LEMMA CallbackStep ==
  ASSUME Filed, Reservations, Callback, CardHistory
  PROVE  KeptBy /\ Filed'
<1>0. carded' \subseteq carded \cup NewCards
  BY DEF CardHistory
<1>1. PICK key : CardPresented(key) \/ CardRejected(key)
  BY DEF Callback
<1>2. CASE CardPresented(key)
  <2>1. UNCHANGED <<toasts, stored, feed, unfiled, logged>>
    BY <1>2 DEF CardPresented, history
  <2>2. KeptBy
    BY <1>0, <1>2, <2>1, AlertsPresented
  <2>3. popping' \subseteq popping /\ alertDone' \subseteq alertDone \cup Acknowledges(key)
    BY <1>2 DEF CardPresented
  <2>4. Acknowledges(key) \subseteq popping \cup alertDone
    <3>1. DeckInv(deck) /\ <<"presented", key>> \in deck.posted
      BY <1>2 DEF CardPresented, Reservations, Reserved
    <3>2. key \in DOMAIN groups
      BY <3>1, PostedKey DEF Reservations, Reserved, Awaited
    <3> QED
      BY <3>2 DEF Acknowledges, Reservations, Reserved, Grouped
  <2>5. Filed'
    BY <2>1, <2>3, <2>4 DEF Filed, Noted, Collected
  <2> QED
    BY <2>2, <2>5
<1>3. CASE CardRejected(key)
  <2>1. /\ UNCHANGED <<toasts, alertDone, stored, feed, unfiled, logged>>
        /\ popping' \subseteq popping
    BY <1>3 DEF CardRejected, tables, history
  <2>2. KeptBy
    BY <1>0, <1>3, <2>1, AlertsRejected
  <2>3. Filed'
    BY <2>1 DEF Filed, Noted, Collected
  <2> QED
    BY <2>2, <2>3
<1> QED
  BY <1>1, <1>2, <1>3

\* The deck's own steps, and what they do to its waiting requests.
LEMMA DeckStepEffect ==
  ASSUME DeckInv(deck),
         \/ \E key \in deck.cards : CardCloses(key)
         \/ BreakerCools \/ BreakerResumes \/ WindowSlides
  PROVE  DeckInv(deck') /\ Moved(deck, deck')
<1>1. CASE \E key \in deck.cards : CardCloses(key)
  <2>1. PICK key \in deck.cards, fails \in BOOLEAN : deck' = Gone(deck, key, fails)
    BY <1>1 DEF CardCloses, DeckStep
  <2> QED
    BY <2>1, GoneEffect
<1>2. CASE BreakerCools
  <2>1. deck' = Cooled(deck)
    BY <1>2 DEF BreakerCools, DeckStep
  <2> QED
    BY <2>1, CooledEffect
<1>3. CASE BreakerResumes
  <2>1. PICK fails \in BOOLEAN : deck' = Resumed(deck, fails)
    BY <1>3 DEF BreakerResumes, DeckStep
  <2> QED
    BY <2>1, ResumedEffect
<1>4. CASE WindowSlides
  <2>1. deck' = Forgotten(deck) /\ deck.made > 0
    BY <1>4 DEF WindowSlides, DeckStep
  <2> QED
    BY <2>1, ForgottenEffect
<1> QED
  BY <1>1, <1>2, <1>3, <1>4

LEMMA DeckOnlyStep ==
  ASSUME Filed, Reservations, CardHistory,
         \/ \E key \in deck.cards : CardCloses(key)
         \/ BreakerCools \/ BreakerResumes \/ WindowSlides
  PROVE  KeptBy /\ Filed'
<1>0. carded' \subseteq carded \cup NewCards
  BY DEF CardHistory
<1>1. UNCHANGED <<popping, groups, alertDone, toasts, stored, feed, unfiled, logged>>
  BY DEF CardCloses, BreakerCools, BreakerResumes, WindowSlides, DeckStep, tables,
         history
<1>2. DeckInv(deck') /\ Moved(deck, deck')
  BY DeckStepEffect DEF Reservations, Reserved
<1>3. KeptBy
  BY <1>0, <1>1, <1>2, AlertsMoved
<1>4. Filed'
  BY <1>1 DEF Filed, Noted, Collected
<1> QED
  BY <1>3, <1>4

LEMMA EndedStep ==
  ASSUME Filed, WindowEnds, CardHistory
  PROVE  KeptBy /\ Filed'
<1>1. /\ deck' = EmptyDeck /\ groups' = [k \in {} |-> {}] /\ toasts' = <<>>
      /\ popping' = {} /\ logged' = {}
      /\ UNCHANGED <<stored, feed, unfiled, alertDone>>
  BY DEF WindowEnds, tables, history
<1>2. carded' = {}
  BY DEF WindowEnds, CardHistory
<1>3. KeptBy
  BY <1>1, <1>2, AlertsEnded
<1>4. Range(<<>>) = {} /\ <<>> \in Seq(Message)
  BY DEF Range
<1>5. Filed'
  BY <1>1, <1>4 DEF Filed, Noted, Collected
<1> QED
  BY <1>3, <1>5

LEMMA KeptNext ==
  ASSUME Badge, Filed, Reservations, Next
  PROVE  KeptBy /\ Filed'
<1> USE DEF tables, screen, history
<1>0. CardHistory
  BY DEF Next
<1>1. CASE AgentStep
  <2>1. /\ stored \subseteq stored'
        /\ UNCHANGED <<popping, groups, deck, alertDone, feed, unfiled, logged, toasts>>
    BY <1>1 DEF AgentStep, Upsert, RecordEvent, SendReturns, Ages, AgentRevives,
                AgentRestarts
  <2> QED
    BY <1>0, <2>1, QuietStep
<1>2. CASE SweepAnnounces
  BY <1>0, <1>2, AnnouncedStep
<1>3. CASE BeginSweep \/ SweepCounts \/ SweepFails \/ WindowStarts \/ UserStep
  <2>1. /\ stored' = stored /\ UNCHANGED <<popping, groups, deck, alertDone, feed, unfiled, logged>>
        /\ toasts' = toasts \/ toasts' = <<>>
    BY <1>3 DEF BeginSweep, SweepCounts, SweepFails, WindowStarts, UserStep,
                OpenConversation, HideChat, RestoreChat, MarkRead, RestoreAll,
                ActivationChanges, RecoverMessages
  <2> QED
    BY <1>0, <2>1, QuietStep
<1>4. CASE FlushToasts
  BY <1>0, <1>4, FlushStep
<1>5. CASE Callback
  BY <1>0, <1>5, CallbackStep
<1>6. CASE \/ \E key \in deck.cards : CardCloses(key)
           \/ BreakerCools \/ BreakerResumes \/ WindowSlides
  BY <1>0, <1>6, DeckOnlyStep
<1>7. CASE WindowEnds
  BY <1>0, <1>7, EndedStep
<1> QED
  BY <1>1, <1>2, <1>3, <1>4, <1>5, <1>6, <1>7 DEF Next, SweepStep, CardStep

LEMMA SettledNext ==
  ASSUME Badge, Settled, Next
  PROVE  Settled'
<1> USE DEF tables, screen, history, bounds, Settled
<1>0. faults' \in 0..MaxFaults /\ acts' \in 0..MaxActs
  <2>1. MaxFaults \in Nat /\ MaxActs \in Nat
    BY DeliveryAlertsAssumption
  <2>2. Fault => faults' \in 0..MaxFaults
    BY <2>1 DEF Fault
  <2>3. Act => acts' \in 0..MaxActs
    BY <2>1 DEF Act
  <2>4. Fault \/ faults' = faults
    BY DEF Next, AgentStep, SweepStep, UserStep, CardStep, Upsert, SendReturns, Ages,
           AgentRevives, AgentRestarts, BeginSweep, SweepCounts, SweepAnnounces,
           SweepFails, FlushToasts, Callback, CardPresented, CardRejected, CardCloses,
           BreakerCools, BreakerResumes, WindowSlides, DeckStep, OpenConversation,
           HideChat, RestoreChat, MarkRead, RestoreAll, ActivationChanges,
           RecoverMessages, WindowEnds, WindowStarts, RecordFeed
  <2>5. Act \/ acts' = acts
    BY DEF Next, AgentStep, SweepStep, UserStep, CardStep, Upsert, SendReturns, Ages,
           AgentRevives, AgentRestarts, BeginSweep, SweepCounts, SweepAnnounces,
           SweepFails, FlushToasts, Callback, CardPresented, CardRejected, CardCloses,
           BreakerCools, BreakerResumes, WindowSlides, DeckStep, OpenConversation,
           HideChat, RestoreChat, MarkRead, RestoreAll, ActivationChanges,
           RecoverMessages, WindowEnds, WindowStarts
  <2> QED
    BY <2>2, <2>3, <2>4, <2>5
<1>1. CASE AgentStep
  <2>1. CASE \E m \in Message, e, a \in BOOLEAN : Upsert(m, e, a)
    <3>1. PICK m \in Message, e \in BOOLEAN, a \in BOOLEAN : Upsert(m, e, a)
      BY <2>1
    <3>2. ChatOf[m] \in Chat
      BY DeliveryAlertsAssumption
    <3> QED
      BY <1>0, <3>1, <3>2 DEF Upsert, Revives
  <2>2. CASE \E m \in Message : SendReturns(m)
    BY <1>0, <2>2 DEF SendReturns
  <2>3. CASE \E m \in Message : Ages(m)
    BY <1>0, <2>3 DEF Ages
  <2>4. CASE \E c \in Chat : AgentRevives(c)
    BY <1>0, <2>4 DEF AgentRevives
  <2>5. CASE AgentRestarts
    BY <1>0, <2>5 DEF AgentRestarts
  <2> QED
    BY <1>1, <2>1, <2>2, <2>3, <2>4, <2>5 DEF AgentStep
<1>2. CASE BeginSweep \/ SweepFails
  BY <1>0, <1>2 DEF BeginSweep, SweepFails
<1>3. CASE SweepCounts
  BY <1>0, <1>3 DEF SweepCounts
<1>4. CASE SweepAnnounces
  <2>1. Head(sweep.page) \in Message
    BY <1>4 DEF SweepAnnounces, Badge, Swept, Ledgered
  <2>2. logged' \subseteq logged \cup {Head(sweep.page)}
    BY <1>4 DEF SweepAnnounces, RecordFeed
  <2> QED
    BY <1>0, <1>4, <2>1, <2>2 DEF SweepAnnounces
<1>5. CASE CardStep
  BY <1>0, <1>5 DEF CardStep, FlushToasts, Callback, CardPresented, CardRejected,
     CardCloses, BreakerCools, BreakerResumes, WindowSlides, DeckStep
<1>6. CASE UserStep
  <2>1. CASE \E c \in Chat : OpenConversation(c) \/ HideChat(c) \/ RestoreChat(c)
    BY <1>0, <2>1 DEF OpenConversation, HideChat, RestoreChat
  <2>2. CASE MarkRead(Chat) \/ \E c \in Chat : MarkRead({c})
    BY <1>0, <2>2 DEF MarkRead
  <2>3. CASE RestoreAll \/ ActivationChanges \/ RecoverMessages
    BY <1>0, <2>3 DEF RestoreAll, ActivationChanges, RecoverMessages
  <2> QED
    BY <1>6, <2>1, <2>2, <2>3 DEF UserStep
<1>7. CASE WindowEnds \/ WindowStarts
  BY <1>0, <1>7 DEF WindowEnds, WindowStarts
<1> QED
  BY <1>1, <1>2, <1>3, <1>4, <1>5, <1>6, <1>7 DEF Next, SweepStep

LEMMA AllInit == Init => AllKept
<1> SUFFICES ASSUME Init PROVE AllKept
  OBVIOUS
<1>1. Filed
  BY DEF Init, Filed, Noted, Collected, Range
<1>2. Settled
  BY DeliveryAlertsAssumption DEF Init, Settled
<1> QED
  BY <1>1, <1>2, BadgeInit, AlertsInit DEF AllKept

LEMMA AllNext == AllKept /\ [Next]_vars => AllKept'
<1> SUFFICES ASSUME AllKept, [Next]_vars PROVE AllKept'
  OBVIOUS
<1>1. Badge'
  BY BadgeNext DEF AllKept
<1>2. CASE Next
  BY <1>1, <1>2, KeptNext, SettledNext DEF AllKept, KeptBy
<1>3. CASE UNCHANGED vars
  <2>1. UNCHANGED <<toasts, feed, unfiled, stored, popping, alertDone, old, logged, hidden,
                    reviving, up, front, mode, open, faults, acts>>
    BY <1>3 DEF vars, tables, screen, history, bounds
  <2>2. Filed' /\ Settled'
    BY <2>1 DEF AllKept, Filed, Noted, Settled, Collected
  <2>3. UNCHANGED <<groups, deck, popping, alertDone, carded, toasts>>
    BY <1>3 DEF vars, tables, screen
  <2>4. Reservations'
    BY <2>3 DEF AllKept, Reservations, Reserved, Told, Collected, Grouped, Apart,
                OnScreenOnly, Held
  <2> QED
    BY <1>1, <2>2, <2>4 DEF AllKept
<1> QED
  BY <1>2, <1>3

LEMMA AllAlways == Spec => []AllKept
BY AllInit, AllNext, PTL DEF Spec

\* Types, the exact badge, and a notification center that has every message
\* that was alerted or found too old.
THEOREM AlertsInvariant == Spec => []AlertsInv
<1>1. AllKept => AlertsInv
  <2> SUFFICES ASSUME AllKept PROVE AlertsInv
    OBVIOUS
  <2> USE DEF AllKept
  <2>1. UnreadIsExact
    BY DEF Badge, Owing, UnreadIsExact, Due
  <2>2. FeedIsComplete
    BY DEF Filed, Noted, FeedIsComplete
  <2>3. /\ recorded \subseteq stored /\ stored \subseteq Message
        /\ unreadDone \subseteq Message /\ feed \subseteq stored
        /\ alertDone \subseteq Message /\ popping \subseteq Message
        /\ ledger \in Seq(stored)
    BY DEF Badge, Ledgered, Filed, Noted
  <2>4. sweep.page \in Seq(Message) /\ sweep.counted \in BOOLEAN
    BY <2>3 DEF Badge, Swept
  <2>5. unread \in [Chat -> Nat] /\ owed \in [Chat -> SUBSET Message]
    BY <2>3 DEF Badge, Owing
  <2>6. /\ deck.cards \subseteq KeyType /\ deck.keys \subseteq KeyType
        /\ Range(deck.waiting) \subseteq KeyType
        /\ deck.posted \subseteq {"presented", "rejected"} \X KeyType
        /\ DOMAIN groups \subseteq KeyType
    <3>1. deck \in DeckRecord /\ DOMAIN groups = Awaited(deck)
      BY DEF Reservations, Reserved, DeckInv
    <3>2. Range(deck.waiting) \subseteq KeyType
      BY <3>1 DEF DeckRecord, Range
    <3>3. PostedKeys(deck) \subseteq KeyType
      BY <3>1 DEF DeckRecord, PostedKeys
    <3> QED
      BY <3>1, <3>2, <3>3 DEF DeckRecord, Awaited
  <2>7. TypeOK
    BY <2>3, <2>4, <2>5, <2>6 DEF TypeOK, Settled, Filed
  <2> QED
    BY <2>1, <2>2, <2>7 DEF AlertsInv
<1> QED
  BY <1>1, AllAlways, PTL

\* A message the sweep passes over because its card is on the way has one on
\* the way: whatever the deck refuses, drains, rejects or fails to
\* acknowledge, the reservation and the request or callback go together.
THEOREM AlertsAreNotStranded == Spec => []NoAlertStranded
<1>1. AllKept => NoAlertStranded
  <2> SUFFICES ASSUME AllKept, NEW m \in popping \ alertDone
               PROVE  \E key \in DOMAIN groups :
                        /\ m \in groups[key]
                        /\ \/ key \in Range(deck.waiting)
                           \/ {<<"presented", key>>, <<"rejected", key>>}
                                \cap deck.posted # {}
    BY DEF NoAlertStranded
  <2>1. PICK key \in DOMAIN groups : m \in groups[key]
    BY DEF AllKept, Reservations, Reserved, Held
  <2>2. key \in Range(deck.waiting) \/ key \in PostedKeys(deck)
    BY <2>1 DEF AllKept, Reservations, Reserved, Awaited
  <2>3. CASE key \in PostedKeys(deck)
    <3>1. PICK call \in deck.posted : call[2] = key
      BY <2>3 DEF PostedKeys
    <3>2. call \in {"presented", "rejected"} \X KeyType
      BY <3>1 DEF AllKept, Reservations, Reserved, DeckInv, DeckRecord
    <3>3. call = <<"presented", key>> \/ call = <<"rejected", key>>
      BY <3>1, <3>2
    <3> QED
      BY <2>1, <3>1, <3>3
  <2> QED
    BY <2>1, <2>2, <2>3
<1> QED
  BY <1>1, AllAlways, PTL

\* One run of the window shows no message on two cards.
THEOREM CardsAreUnique == Spec => OneCardPerRun
<1>1. AllKept /\ [Next]_vars => [up => NewCards \cap carded = {}]_vars
  BY KeptNext DEF AllKept, KeptBy
<1> QED
  BY <1>1, AllAlways, PTL DEF Spec, OneCardPerRun

\* The breaker: as long as its resume shot has nothing in its way, an
\* engagement always has its shot to come, and no request waits for nothing.
Woken == (deck.cooling => deck.resume = "set") /\ QueueHasAWaker

LEMMA WokenNext ==
  ASSUME "late_resume" \notin Hazards, AllKept, Woken, Next
  PROVE  Woken'
<1> USE DEF Woken, QueueHasAWaker
<1>0. DeckInv(deck) /\ deck.resume \in {"none", "set", "due"}
  BY DEF AllKept, Reservations, Reserved, DeckInv, DeckRecord
<1>1. ASSUME deck'.cooling = deck.cooling, deck'.resume = deck.resume,
             deck'.cards = deck.cards, deck'.waiting = deck.waiting
      PROVE  Woken'
  BY <1>1
<1>2. ASSUME Timing(deck, deck'), deck.resume # "due",
             \/ deck'.waiting = <<>> \/ deck'.cards # {}
             \/ deck'.cooling \/ deck'.resume # "none"
      PROVE  Woken'
  BY <1>0, <1>2 DEF Timing
<1>3. CASE Callback
  <2>1. PICK call \in deck.posted, x \in {"presented", "rejected"} :
          /\ <<x, call[2]>> \in deck.posted
          /\ deck' = deck \/ deck' = Delivered(deck, <<x, call[2]>>)
    BY <1>3 DEF Callback, CardPresented, CardRejected
  <2>2. CASE deck' = deck
    BY <1>1, <2>2
  <2>3. CASE deck' = Delivered(deck, <<x, call[2]>>)
    <3>1. deck \in DeckRecord
      BY <1>0 DEF DeckInv
    <3>2. deck' = [deck EXCEPT !.posted = @ \ {<<x, call[2]>>}]
      BY <2>3 DEF Delivered
    <3>3. /\ deck'.cooling = deck.cooling /\ deck'.resume = deck.resume
          /\ deck'.cards = deck.cards /\ deck'.waiting = deck.waiting
      BY <3>1, <3>2 DEF DeckRecord
    <3> QED
      BY <1>1, <3>3
  <2> QED
    BY <2>1, <2>2, <2>3
<1>4. CASE FlushToasts
  <2>1. PICK env \in [tray : BOOLEAN, fails : BOOLEAN, busy : BOOLEAN] :
          deck' = Presented(toasts, env).deck
    BY <1>4 DEF FlushToasts
  <2>2. PICK s : s = Presented(toasts, env) /\ Underway(s)
    BY BurstEffect DEF AllKept, Filed, Reservations
  <2>3. deck.resume # "due"
    BY <1>4 DEF FlushToasts, InTime
  <2>4. /\ Timing(deck, s.deck) /\ deck.cards \subseteq s.deck.cards
        /\ s.deck.waiting # <<>> => \/ deck.waiting # <<>> \/ deck.cooling
                                    \/ s.deck.cards # {} \/ s.deck.resume # "none"
    BY <2>2 DEF Underway, BurstDeck
  <2>5. deck.resume # "none" => s.deck.resume # "none"
    BY <2>4 DEF Timing
  <2>6. s.deck.waiting = <<>> \/ s.deck.cards # {} \/ s.deck.resume # "none"
    BY <2>4, <2>5
  <2> QED
    BY <1>2, <2>1, <2>2, <2>3, <2>4, <2>6
<1>5. CASE \E key \in deck.cards : CardCloses(key)
  <2>1. PICK key \in deck.cards, fails \in BOOLEAN : deck' = Gone(deck, key, fails)
    BY <1>5 DEF CardCloses, DeckStep
  <2>2. deck.resume # "due"
    BY <1>5 DEF CardCloses, InTime
  <2>3. Timing(deck, deck') /\ (deck'.waiting = <<>> \/ deck'.cards # {} \/ deck'.cooling)
    BY <1>0, <2>1, GoneEffect
  <2> QED
    BY <1>2, <2>2, <2>3
<1>6. CASE BreakerCools
  <2>1. deck' = Cooled(deck)
    BY <1>6 DEF BreakerCools, DeckStep
  <2>2. /\ deck'.cooling = FALSE /\ deck'.cards = deck.cards
        /\ deck'.waiting = deck.waiting
        /\ deck'.resume = IF deck.resume = "set" THEN "due" ELSE deck.resume
    BY <1>0, <2>1, CooledEffect
  <2> QED
    BY <2>2
<1>7. CASE BreakerResumes
  <2>1. PICK fails \in BOOLEAN : deck' = Resumed(deck, fails)
    BY <1>7 DEF BreakerResumes, DeckStep
  <2>2. ~deck.cooling
    BY <1>7 DEF BreakerResumes
  <2>3. /\ deck'.cooling => deck.cooling \/ deck'.resume # "none"
        /\ deck'.resume \in {"none", "set"}
        /\ deck'.waiting = <<>> \/ deck'.cards # {} \/ deck'.cooling
    BY <1>0, <2>1, ResumedEffect
  <2> QED
    BY <2>2, <2>3
<1>8. CASE WindowSlides
  <2>1. deck' = Forgotten(deck) /\ deck.made > 0
    BY <1>8 DEF WindowSlides, DeckStep
  <2>2. /\ deck'.cooling = deck.cooling /\ deck'.resume = deck.resume
        /\ deck'.cards = deck.cards /\ deck'.waiting = deck.waiting
    BY <1>0, <2>1, ForgottenEffect
  <2> QED
    BY <1>1, <2>2
<1>9. CASE WindowEnds
  <2>1. deck'.cooling = FALSE /\ deck'.waiting = <<>>
    BY <1>9 DEF WindowEnds, EmptyDeck
  <2> QED
    BY <2>1
<1>10. CASE AgentStep \/ SweepStep \/ SweepFails \/ UserStep \/ WindowStarts
  <2>1. deck' = deck
    BY <1>10 DEF AgentStep, SweepStep, UserStep, Upsert, SendReturns, Ages,
       AgentRevives, AgentRestarts, BeginSweep, SweepCounts, SweepAnnounces,
       SweepFails, OpenConversation, HideChat, RestoreChat, MarkRead, RestoreAll,
       ActivationChanges, RecoverMessages, WindowStarts, screen
  <2> QED
    BY <1>1, <2>1
<1> QED
  BY <1>3, <1>4, <1>5, <1>6, <1>7, <1>8, <1>9, <1>10 DEF Next, CardStep

\* Requests behind the cards are looked at again: a card that will close, or
\* the resume shot.  late_resume is excluded: with it, a card or a burst
\* between the cool-down and the shot re-engages the breaker while the old
\* shot is still pending, and nothing schedules another.
THEOREM QueuesAreWoken == "late_resume" \notin Hazards => (Spec => []QueueHasAWaker)
<1> SUFFICES ASSUME "late_resume" \notin Hazards PROVE Spec => []QueueHasAWaker
  OBVIOUS
<1>1. Init => Woken
  BY DEF Init, EmptyDeck, Woken, QueueHasAWaker
<1>2. AllKept /\ Woken /\ [Next]_vars => Woken'
  <2> SUFFICES ASSUME AllKept, Woken, [Next]_vars PROVE Woken'
    OBVIOUS
  <2>1. CASE UNCHANGED vars
    BY <2>1 DEF vars, screen, Woken, QueueHasAWaker
  <2> QED
    BY <2>1, WokenNext
<1>3. Woken => QueueHasAWaker
  BY DEF Woken
<1> QED
  BY <1>1, <1>2, <1>3, AllAlways, PTL DEF Spec
=============================================================================
