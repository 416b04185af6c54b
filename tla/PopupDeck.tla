------------------------------ MODULE PopupDeck ------------------------------
(***************************************************************************)
(* PopupManager (app/ui/notify.py) as operators on one record, the deck:   *)
(*                                                                         *)
(*   cards    keys of the cards on screen (active)                         *)
(*   waiting  keys of the requests behind them (pending), oldest first     *)
(*   keys     _event_keys, by which a request is recognised as a duplicate *)
(*   made     cards created within the breaker's window (_creation_times)  *)
(*   cooling  the breaker is engaged (now < _breaker_until)                *)
(*   resume   "none", or the resume shot of an engagement: "set" while its *)
(*            20.25 s run, "due" once they are over                        *)
(*   posted   callbacks posted to the event loop: <<"presented", key>> and *)
(*            <<"rejected", key>>                                          *)
(*   res      the PresentationResult of the last request                   *)
(*                                                                         *)
(* A card without a key (a mirrored phone notification) is not modelled;   *)
(* nor is the cap of 8 live widgets, which the list of MAX = 3 keeps the   *)
(* manager away from.                                                      *)
(***************************************************************************)
EXTENDS Naturals, Sequences, SequencesExt, FiniteSets

CONSTANTS
  MaxCards,      \* PopupManager.MAX
  MaxWaiting,    \* PopupManager.MAX_PENDING
  BreakerCards   \* PopupManager.BREAKER_MAX_CREATIONS

ASSUME PopupDeckAssumption ==
  MaxCards \in Nat \ {0} /\ MaxWaiting \in Nat /\ BreakerCards \in Nat \ {0}

EmptyDeck == [cards |-> {}, waiting |-> <<>>, keys |-> {}, made |-> 0,
              cooling |-> FALSE, resume |-> "none", posted |-> {},
              res |-> "none"]

\* A mutant: the resume is left to the next card that closes.
ResumeUnscheduled(d) == d

\* _schedule_resume: at most one resume shot is pending.
ScheduleResume(d) ==
  IF d.resume = "none" THEN [d EXCEPT !.resume = "set"] ELSE d

\* _breaker_engaged: true while it cools, and from the creation that fills
\* the window on.  Only the call that engages it schedules the resume.
BreakerEngaged(d) == d.cooling \/ d.made >= BreakerCards
Engage(d) ==
  IF d.cooling THEN d ELSE ScheduleResume([d EXCEPT !.cooling = TRUE])

\* _queue
Enqueue(d, key) ==
  IF Len(d.waiting) >= MaxWaiting
  THEN [d EXCEPT !.res = "refused"]
  ELSE [d EXCEPT !.waiting = Append(@, key), !.keys = @ \cup {key},
                 !.res = "queued"]

Reject(d, key, notify) ==
  [d EXCEPT !.posted = IF notify THEN @ \cup {<<"rejected", key>>} ELSE @,
            !.res = "refused"]

Create(d, key) ==
  [d EXCEPT !.cards = @ \cup {key}, !.keys = @ \cup {key}, !.made = @ + 1,
            !.posted = @ \cup {<<"presented", key>>}, !.res = "shown"]

\* _show_now; fails: the widget cannot be created or shown.
ShowNow(d, key, notify, fails) ==
  IF BreakerEngaged(d)
  THEN LET q == Enqueue(Engage(d), key)
       IN  IF q.res = "refused" THEN Reject(q, key, notify) ELSE q
  ELSE IF fails
  THEN Reject([d EXCEPT !.keys = @ \ {key}], key, notify)
  ELSE Create(d, key)

\* show
Show(d, key, fails) ==
  IF key \in d.keys THEN [d EXCEPT !.res = "queued"]
  ELSE IF Cardinality(d.cards) >= MaxCards THEN Enqueue(d, key)
  ELSE ShowNow(d, key, FALSE, fails)

\* _drain_pending: from the head of the list until the screen is full or the
\* breaker has put a request back, at the end.
DrainOne(s, fails) ==
  IF s.stop \/ s.deck.waiting = <<>> \/ Cardinality(s.deck.cards) >= MaxCards
  THEN s
  ELSE LET key == Head(s.deck.waiting)
           d == ShowNow([s.deck EXCEPT !.waiting = Tail(@), !.keys = @ \ {key}],
                        key, TRUE, fails)
       IN  [deck |-> d, stop |-> d.res = "queued"]

DrainPending(d, fails) ==
  LET drained[n \in 0..Len(d.waiting)] ==
        IF n = 0 THEN [deck |-> d, stop |-> FALSE]
        ELSE DrainOne(drained[n - 1], fails)
  IN  drained[Len(d.waiting)].deck

\* _gone: a card was dismissed, by the user or by one of its two timers.
Gone(d, key, fails) ==
  DrainPending([d EXCEPT !.cards = @ \ {key}, !.keys = @ \ {key}], fails)

\* The breaker's cool-down is over; 250 ms later the resume shot fires.
Cooled(d) ==
  [d EXCEPT !.cooling = FALSE,
            !.resume = IF @ = "set" THEN "due" ELSE @]
Resumed(d, fails) == DrainPending([d EXCEPT !.resume = "none"], fails)

\* A creation leaves the breaker's window of 45 s.
Forgotten(d) == [d EXCEPT !.made = @ - 1]
Delivered(d, call) == [d EXCEPT !.posted = @ \ {call}]
=============================================================================
