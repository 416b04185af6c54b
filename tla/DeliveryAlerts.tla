---------------------------- MODULE DeliveryAlerts ----------------------------
(***************************************************************************)
(* The durable delivery ledger and the window that replays it.             *)
(*                                                                         *)
(*   agent    stores a message and, in the same transaction, the delivery  *)
(*            event it deserves; then, in a second one, brings a hidden    *)
(*            conversation back                                            *)
(*   window   sweeps the ledger: unread count, feed entry, and an alert    *)
(*            that is acknowledged once it is on screen.  All of it runs   *)
(*            on the GUI thread; between two of its transactions only the  *)
(*            agent and the end of the process interleave                  *)
(*   cards    the alerts shown by the app itself: PopupDeck                *)
(*                                                                         *)
(* A sweep may begin at any time (every 2.5 s, and after most events), so  *)
(* the shots that only hasten the next one (_delivery_more_pending, the    *)
(* 5 s retries) are the same step.  _queued_event_guids holds exactly the  *)
(* messages of _toast_queue, so the queue stands for both.  Sounds, the    *)
(* activity log and the wording of alerts are left out.                    *)
(***************************************************************************)
EXTENDS PopupDeck

CONSTANTS
  Chat, Message,
  ChatOf,         \* the conversation of each message
  OwnText,        \* messages this app sends to the user's own address
  Codes,          \* messages with a verification code
  Modes,          \* alert styles the settings may hold
  PageSize,       \* limit of pending_delivery_events
  MaxIndividual,  \* ordinary alerts of a burst shown one by one
  MaxFaults,      \* bound: ends of a process and failed writes or cards
  MaxActs,        \* bound: steps of the user
  Hazards         \* which of AllHazards the environment may produce

\* late_resume: a burst or a closing card falls between a cool-down and its
\*   resume shot
\* ages: an alert waits longer than NOTIFY_MAX_AGE_MS
AllHazards == {"late_resume", "ages"}
NoChat == "no chat"

ASSUME DeliveryAlertsAssumption ==
  /\ ChatOf \in [Message -> Chat] /\ NoChat \notin Chat
  /\ OwnText \subseteq Message /\ Codes \subseteq Message
  /\ Modes \subseteq {"popup", "system", "off"}
  /\ PageSize \in Nat \ {0} /\ MaxIndividual \in Nat \ {0}
  /\ MaxFaults \in Nat /\ MaxActs \in Nat
  /\ Hazards \subseteq AllHazards

VARIABLES
  stored,       \* rows of messages
  recorded,     \* rows with delivery_event_recorded = 1
  ledger,       \* delivery_events by first_seen_ms: a sequence of messages
  unreadDone,   \* events with unread_done = 1
  alertDone,    \* events with notification_done = 1
  old,          \* events first seen longer ago than NOTIFY_MAX_AGE_MS
  unread,       \* chats.unread
  hidden,       \* chats with hidden = 1
  feed,         \* messages with an entry in the notification center
  reviving,     \* chats the agent's loop is about to bring back
  up,           \* the window runs
  mode,         \* settings: notify_mode, or "off" for popups_enabled = 0
  open,         \* open_chat_guid
  front,        \* the window is the active one
  sweep,        \* rest of the page the sweep works on; counted: its head has
                \* had its unread count
  logged,       \* _feed_logged_guids
  toasts,       \* _toast_queue
  popping,      \* _popup_pending_guids
  groups,       \* _popup_ack_groups: key -> messages
  deck,         \* self.popups
  owed,         \* history: events per chat since it was last acknowledged
  seen,         \* history: events whose conversation was on screen
  unfiled,      \* history: messages whose last write to the feed failed
  carded,       \* history: messages this window has shown a card for
  faults, acts

tables == <<stored, recorded, ledger, unreadDone, alertDone, old, unread,
            hidden, feed>>
screen == <<up, mode, open, front, sweep, logged, toasts, popping, groups, deck>>
history == <<owed, seen, unfiled>>
bounds == <<faults, acts>>
vars == <<tables, reviving, screen, history, carded, bounds>>

Events == Range(ledger)
Key(guids) == <<guids[1], Last(guids), Len(guids)>>
KeyType == Message \X Message \X (Nat \ {0})
EmptySweep == [page |-> <<>>, counted |-> FALSE]

\* The elements of s that are in S, in their order.
Kept(s, S) ==
  LET kept[n \in 0..Len(s)] ==
        IF n = 0 THEN <<>>
        ELSE IF s[n] \in S THEN Append(kept[n - 1], s[n]) ELSE kept[n - 1]
  IN  kept[Len(s)]

TypeOK ==
  /\ recorded \subseteq stored /\ stored \subseteq Message
  /\ ledger \in Seq(stored)
  /\ unreadDone \subseteq Message /\ alertDone \subseteq Message
  /\ old \subseteq Message /\ feed \subseteq stored
  /\ unread \in [Chat -> Nat] /\ hidden \subseteq Chat /\ reviving \subseteq Chat
  /\ up \in BOOLEAN /\ front \in BOOLEAN /\ mode \in Modes
  /\ open \in Chat \cup {NoChat}
  /\ sweep.page \in Seq(Message) /\ sweep.counted \in BOOLEAN
  /\ logged \subseteq Message /\ popping \subseteq Message
  /\ toasts \in Seq(Message)
  /\ DOMAIN groups \subseteq KeyType
  /\ deck.cards \subseteq KeyType /\ deck.keys \subseteq KeyType
  /\ Range(deck.waiting) \subseteq KeyType
  /\ deck.posted \subseteq {"presented", "rejected"} \X KeyType
  /\ owed \in [Chat -> SUBSET Message]
  /\ faults \in 0..MaxFaults /\ acts \in 0..MaxActs

Init ==
  /\ stored = {} /\ recorded = {} /\ ledger = <<>>
  /\ unreadDone = {} /\ alertDone = {} /\ old = {}
  /\ unread = [c \in Chat |-> 0] /\ hidden = {} /\ feed = {}
  /\ reviving = {}
  /\ up = TRUE /\ mode \in Modes /\ open = NoChat /\ front = TRUE
  /\ sweep = EmptySweep /\ logged = {} /\ toasts = <<>>
  /\ popping = {} /\ groups = [k \in {} |-> {}] /\ deck = EmptyDeck
  /\ owed = [c \in Chat |-> {}] /\ seen = {} /\ unfiled = {} /\ carded = {}
  /\ faults = 0 /\ acts = 0

Fault == faults < MaxFaults /\ faults' = faults + 1

-----------------------------------------------------------------------------
(* The agent.                                                              *)

\* A mutant: a push is news whatever the row says.
RecordAnew(m, eligible, allowExisting) ==
  LET fresh == eligible /\ m \notin Events /\ (m \notin stored \/ allowExisting)
  IN  /\ stored' = stored \cup {m}
      /\ ledger' = IF fresh THEN Append(ledger, m) ELSE ledger
      /\ recorded' = IF fresh THEN recorded \cup {m} ELSE recorded
      /\ owed' = IF fresh
                 THEN [owed EXCEPT ![ChatOf[m]] = @ \cup {m}] ELSE owed

\* upsert_message, the part about events.  A message of one's own counts as
\* incoming only in a conversation with oneself (every OwnText is in one).
RecordEvent(m, eligible, allowExisting) ==
  LET fresh == eligible /\ m \notin recorded /\ (m \notin stored \/ allowExisting)
  IN  /\ stored' = stored \cup {m}
      /\ ledger' = IF fresh THEN Append(ledger, m) ELSE ledger
      /\ recorded' = IF fresh THEN recorded \cup {m} ELSE recorded
      /\ owed' = IF fresh
                 THEN [owed EXCEPT ![ChatOf[m]] = @ \cup {m}] ELSE owed

\* A new row is a sign of life: the conversation is brought back after the
\* transaction.
Revives(m) ==
  reviving' = IF m \in stored THEN reviving ELSE reviving \cup {ChatOf[m]}

\* _handle_incoming, and the reconcilers' upserts: below the notification
\* floor (not eligible), above it, or as the repair of a known row.
Upsert(m, eligible, allowExisting) ==
  /\ RecordEvent(m, eligible, allowExisting) /\ Revives(m)
  /\ UNCHANGED <<unreadDone, alertDone, old, unread, hidden, feed, screen,
                 seen, unfiled, bounds>>

\* OutboxDb.finish_sent: the answer to this app's own send marks the row.
SendReturns(m) ==
  /\ m \in OwnText
  /\ stored' = stored \cup {m} /\ recorded' = recorded \cup {m}
  /\ UNCHANGED <<ledger, unreadDone, alertDone, old, unread, hidden, feed,
                 reviving, screen, history, bounds>>

AgentRevives(c) ==
  /\ c \in reviving
  /\ reviving' = reviving \ {c} /\ hidden' = hidden \ {c}
  /\ UNCHANGED <<stored, recorded, ledger, unreadDone, alertDone, old, unread,
                 feed, screen, history, bounds>>

\* The agent ends and starts again; a start prunes rows that are done and
\* old.  (The code waits 14 days, longer than the 30 minutes of old.)
AgentRestarts ==
  /\ Fault /\ reviving' = {}
  /\ ledger' = Kept(ledger, Message \ (unreadDone \cap alertDone \cap old))
  /\ UNCHANGED <<stored, recorded, unreadDone, alertDone, old, unread, hidden,
                 feed, screen, history, acts>>

\* 30 minutes have passed since the event was first seen.
Ages(m) ==
  /\ "ages" \in Hazards /\ m \in Events \ old /\ old' = old \cup {m}
  /\ UNCHANGED <<stored, recorded, ledger, unreadDone, alertDone, unread,
                 hidden, feed, reviving, screen, history, bounds>>

-----------------------------------------------------------------------------
(* The sweep.                                                              *)

Idle == up /\ sweep.page = <<>>
Pending == Kept(ledger, Message \ (alertDone \cap unreadDone))
Page == SubSeq(Pending, 1, IF Len(Pending) < PageSize THEN Len(Pending) ELSE PageSize)
OnScreen(c) == open = c /\ front

BeginSweep ==
  /\ Idle /\ Page # <<>>
  /\ sweep' = [page |-> Page, counted |-> FALSE]
  /\ UNCHANGED <<tables, reviving, up, mode, open, front, logged, toasts,
                 popping, groups, deck, history, bounds>>

\* apply_unread_event, which looks at the row again
CountUnread(m) ==
  IF m \in unreadDone THEN UNCHANGED <<unreadDone, unread, seen>>
  ELSE /\ unreadDone' = unreadDone \cup {m}
       /\ IF OnScreen(ChatOf[m])
          THEN seen' = seen \cup {m} /\ UNCHANGED unread
          ELSE unread' = [unread EXCEPT ![ChatOf[m]] = @ + 1] /\ UNCHANGED seen

SweepCounts ==
  /\ up /\ sweep.page # <<>> /\ ~sweep.counted
  /\ hidden' = hidden \ {ChatOf[Head(sweep.page)]}
  /\ CountUnread(Head(sweep.page))
  /\ sweep' = [sweep EXCEPT !.counted = TRUE]
  /\ UNCHANGED <<stored, recorded, ledger, alertDone, old, feed, reviving, up,
                 mode, open, front, logged, toasts, popping, groups, deck,
                 owed, unfiled, bounds>>

\* A message logged in this run is not written again.  It is logged before
\* the write, and _feed_record swallows a write that fails; feed_add ignores
\* a message it has.
RecordFeed(m) ==
  IF m \in logged THEN UNCHANGED <<logged, feed, unfiled, faults>>
  ELSE /\ logged' = logged \cup {m}
       /\ \/ feed' = feed \cup {m} /\ unfiled' = unfiled \ {m} /\ UNCHANGED faults
          \/ Fault /\ unfiled' = unfiled \cup {m} /\ UNCHANGED feed

\* What the sweep does with an event that has not alerted yet.
Announce(m) ==
  IF m \in old \/ mode = "off"
  THEN alertDone' = alertDone \cup {m} /\ UNCHANGED toasts
  ELSE /\ toasts' = IF m \in Range(toasts) \cup popping THEN toasts
                    ELSE Append(toasts, m)
       /\ UNCHANGED alertDone

SweepAnnounces ==
  /\ up /\ sweep.page # <<>> /\ sweep.counted
  /\ sweep' = [page |-> Tail(sweep.page), counted |-> FALSE]
  /\ LET m == Head(sweep.page)
     IN  IF m \in alertDone
         THEN UNCHANGED <<logged, feed, unfiled, alertDone, toasts, faults>>
         ELSE RecordFeed(m) /\ Announce(m)
  /\ UNCHANGED <<stored, recorded, ledger, unreadDone, old, unread, hidden,
                 reviving, up, mode, open, front, popping, groups, deck,
                 owed, seen, acts>>

\* A write of the sweep fails: the guard around it drops the rest of the page.
SweepFails ==
  /\ up /\ sweep.page # <<>> /\ Fault
  /\ sweep' = EmptySweep
  /\ UNCHANGED <<tables, reviving, up, mode, open, front, logged, toasts,
                 popping, groups, deck, history, acts>>

-----------------------------------------------------------------------------
(* The burst of alerts.  s is the state the presentation works on; env says *)
(* whether the tray can show toasts, whether cards fail, and whether the    *)
(* acknowledgement of a toast cannot be written.                            *)

Toast(s, guids, env) ==
  IF env.busy THEN [s EXCEPT !.raised = TRUE]
  ELSE [s EXCEPT !.done = @ \cup Range(guids)]

Without(g, key) == [k \in DOMAIN g \ {key} |-> g[k]]

\* _present_notification
Present(s, style, guids, env) ==
  LET key == Key(guids)
      d == Show(s.deck, key, env.fails)
      t == [s EXCEPT !.deck = d]
      u == [t EXCEPT !.groups = Without(@, key), !.popping = @ \ Range(guids)]
  IN  IF style = "system" /\ env.tray THEN Toast(s, guids, env)
      ELSE IF d.res # "refused"
      THEN [t EXCEPT !.groups = [k \in DOMAIN @ \cup {key} |->
                                   IF k = key THEN Range(guids) ELSE @[k]],
                     !.popping = @ \cup Range(guids)]
      ELSE IF style # "system" /\ env.tray THEN Toast(u, guids, env)
      ELSE u

\* _flush_toasts: codes first, newest first, each on a card of its own; the
\* other messages one by one, or as one summary.
Burst(queue) ==
  LET codes == Kept(queue, Codes)
      rest == Kept(queue, Message \ Codes)
      single(style, ms) == [i \in 1..Len(ms) |-> <<style, <<ms[i]>>>>]
  IN  single("popup", Reverse(codes)) \o
      (IF Len(rest) <= MaxIndividual THEN single(mode, rest)
       ELSE <<<<mode, rest>>>>)

Presented(queue, env) ==
  LET items == Burst(queue)
      presented[n \in 0..Len(items)] ==
        IF n = 0
        THEN [deck |-> deck, groups |-> groups, popping |-> popping,
              done |-> alertDone, raised |-> FALSE]
        ELSE LET s == presented[n - 1]
             IN  IF s.raised THEN s
                 ELSE Present(s, items[n][1], items[n][2], env)
  IN  presented[Len(items)]

\* The resume shot of the breaker has nothing between it and its cool-down
\* unless the hazard is on.
InTime == deck.resume = "due" => "late_resume" \in Hazards

FlushToasts ==
  /\ Idle /\ toasts # <<>> /\ InTime
  /\ \E env \in [tray : BOOLEAN, fails : BOOLEAN, busy : BOOLEAN] :
       /\ IF env.fails \/ env.busy THEN Fault ELSE UNCHANGED faults
       /\ LET s == Presented(toasts, env)
          IN  /\ deck' = s.deck /\ groups' = s.groups
              /\ popping' = s.popping /\ alertDone' = s.done
  /\ toasts' = <<>>
  /\ UNCHANGED <<stored, recorded, ledger, unreadDone, old, unread, hidden,
                 feed, reviving, up, mode, open, front, sweep, logged,
                 history, acts>>

-----------------------------------------------------------------------------
(* Cards.                                                                  *)

Acknowledges(key) == IF key \in DOMAIN groups THEN groups[key] ELSE {key[1]}

\* A mutant: a failed acknowledgement is left to the next sweep.
CardPresentedOnce(key) ==
  /\ Idle /\ <<"presented", key>> \in deck.posted
  /\ \E failed \in SUBSET Acknowledges(key) :
       /\ IF failed = {} THEN UNCHANGED faults ELSE Fault
       /\ alertDone' = alertDone \cup (Acknowledges(key) \ failed)
       /\ popping' = popping \ Acknowledges(key)
       /\ deck' = Delivered(deck, <<"presented", key>>)
       /\ groups' = Without(groups, key)
  /\ UNCHANGED <<stored, recorded, ledger, unreadDone, old, unread, hidden,
                 feed, reviving, up, mode, open, front, sweep, logged, toasts,
                 history, acts>>

\* _on_popup_presented: an acknowledgement that fails is tried again after 5 s.
CardPresented(key) ==
  /\ Idle /\ <<"presented", key>> \in deck.posted
  /\ \E failed \in SUBSET Acknowledges(key) :
       LET acked == Acknowledges(key) \ failed
       IN  /\ IF failed = {} THEN UNCHANGED faults ELSE Fault
           /\ alertDone' = alertDone \cup acked
           /\ popping' = popping \ acked
           /\ IF failed = {}
              THEN /\ deck' = Delivered(deck, <<"presented", key>>)
                   /\ groups' = Without(groups, key)
              ELSE /\ groups' = [k \in DOMAIN groups \cup {key} |->
                                   IF k = key THEN failed ELSE groups[k]]
                   /\ UNCHANGED deck
  /\ UNCHANGED <<stored, recorded, ledger, unreadDone, old, unread, hidden,
                 feed, reviving, up, mode, open, front, sweep, logged, toasts,
                 history, acts>>

\* A mutant: a rejected card keeps its reservation.
CardRejectedReserved(key) ==
  /\ Idle /\ <<"rejected", key>> \in deck.posted
  /\ deck' = Delivered(deck, <<"rejected", key>>)
  /\ groups' = Without(groups, key)
  /\ UNCHANGED <<tables, reviving, up, mode, open, front, sweep, logged,
                 toasts, popping, history, bounds>>

\* _on_popup_rejected: the ledger stays as it is.
CardRejected(key) ==
  /\ Idle /\ <<"rejected", key>> \in deck.posted
  /\ deck' = Delivered(deck, <<"rejected", key>>)
  /\ popping' = popping \ (IF key \in DOMAIN groups THEN groups[key] ELSE {})
  /\ groups' = Without(groups, key)
  /\ UNCHANGED <<tables, reviving, up, mode, open, front, sweep, logged,
                 toasts, history, bounds>>

DeckStep(d, fails) ==
  /\ IF fails THEN Fault ELSE UNCHANGED faults
  /\ deck' = d
  /\ UNCHANGED <<tables, reviving, up, mode, open, front, sweep, logged,
                 toasts, popping, groups, history, acts>>

CardCloses(key) ==
  Idle /\ key \in deck.cards /\ InTime /\
  \E fails \in BOOLEAN : DeckStep(Gone(deck, key, fails), fails)

BreakerCools == Idle /\ deck.cooling /\ DeckStep(Cooled(deck), FALSE)
BreakerResumes ==
  Idle /\ deck.resume = "due" /\
  \E fails \in BOOLEAN : DeckStep(Resumed(deck, fails), fails)
WindowSlides == Idle /\ deck.made > 0 /\ DeckStep(Forgotten(deck), FALSE)

-----------------------------------------------------------------------------
(* The user.                                                               *)

Act == Idle /\ acts < MaxActs /\ acts' = acts + 1

\* A mutant: the badge is cleared, the events behind it are not.
AcknowledgeBadge(chats) ==
  /\ unread' = [c \in Chat |-> IF c \in chats THEN 0 ELSE unread[c]]
  /\ owed' = [c \in Chat |-> IF c \in chats THEN {} ELSE owed[c]]
  /\ UNCHANGED unreadDone

\* mark_read, mark_all_read and the acknowledging half of hide_chat
Acknowledge(chats) ==
  /\ unread' = [c \in Chat |-> IF c \in chats THEN 0 ELSE unread[c]]
  /\ unreadDone' = unreadDone \cup {m \in Events : ChatOf[m] \in chats}
  /\ owed' = [c \in Chat |-> IF c \in chats THEN {} ELSE owed[c]]

\* open_conversation, which sweeps at once
OpenConversation(c) ==
  /\ Act /\ \E m \in stored : ChatOf[m] = c
  /\ open' = c /\ Acknowledge({c})
  /\ UNCHANGED <<stored, recorded, ledger, alertDone, old, hidden, feed,
                 reviving, up, mode, front, logged, toasts, popping, groups,
                 deck, seen, unfiled, faults>>
  /\ sweep' = [page |-> Page', counted |-> FALSE]

MarkRead(chats) ==
  /\ Act /\ Acknowledge(chats)
  /\ UNCHANGED <<stored, recorded, ledger, alertDone, old, hidden, feed,
                 reviving, screen, seen, unfiled, faults>>

HideChat(c) ==
  /\ Act
  /\ c \notin hidden /\ \E m \in stored : ChatOf[m] = c
  /\ hidden' = hidden \cup {c} /\ Acknowledge({c})
  /\ open' = IF open = c THEN NoChat ELSE open
  /\ UNCHANGED <<stored, recorded, ledger, alertDone, old, feed, reviving, up,
                 mode, front, sweep, logged, toasts, popping, groups, deck,
                 seen, unfiled, faults>>

\* Undo, or Restore in the dialog of hidden conversations: it is opened too.
RestoreChat(c) ==
  /\ Act /\ c \in hidden /\ hidden' = hidden \ {c}
  /\ open' = c /\ Acknowledge({c})
  /\ UNCHANGED <<stored, recorded, ledger, alertDone, old, feed, reviving, up,
                 mode, front, logged, toasts, popping, groups, deck, seen,
                 unfiled, faults>>
  /\ sweep' = [page |-> Page', counted |-> FALSE]

RestoreAll ==
  /\ Act /\ hidden # {} /\ hidden' = {}
  /\ UNCHANGED <<stored, recorded, ledger, unreadDone, alertDone, old, unread,
                 feed, reviving, screen, history, faults>>

ActivationChanges ==
  /\ Act /\ front' = ~front
  /\ UNCHANGED <<tables, reviving, up, mode, open, sweep, logged, toasts,
                 popping, groups, deck, history, faults>>

\* recover_messages drops the alerts collected but not yet presented.
RecoverMessages ==
  /\ Act /\ toasts # <<>> /\ toasts' = <<>>
  /\ UNCHANGED <<tables, reviving, up, mode, open, front, sweep, logged,
                 popping, groups, deck, history, faults>>

\* The window's process ends, at any point, and starts with empty memory.
WindowEnds ==
  /\ up /\ Fault /\ up' = FALSE
  /\ open' = NoChat /\ sweep' = EmptySweep /\ logged' = {} /\ toasts' = <<>>
  /\ popping' = {} /\ groups' = [k \in {} |-> {}] /\ deck' = EmptyDeck
  /\ UNCHANGED <<tables, reviving, mode, front, history, acts>>

WindowStarts ==
  /\ ~up /\ up' = TRUE
  /\ UNCHANGED <<tables, reviving, mode, open, front, sweep, logged, toasts,
                 popping, groups, deck, history, bounds>>

-----------------------------------------------------------------------------
ShownBy(key) == IF key \in DOMAIN groups' THEN groups'[key] ELSE {}
NewCards == UNION {ShownBy(key) : key \in deck'.cards \ deck.cards}
CardHistory == carded' = IF up' THEN carded \cup NewCards ELSE {}

AgentStep ==
  \/ \E m \in Message, e, a \in BOOLEAN : Upsert(m, e, a)
  \/ \E m \in Message : SendReturns(m) \/ Ages(m)
  \/ \E c \in Chat : AgentRevives(c)
  \/ AgentRestarts

SweepStep == BeginSweep \/ SweepCounts \/ SweepAnnounces

Callback ==
  \E call \in deck.posted : CardPresented(call[2]) \/ CardRejected(call[2])

CardStep ==
  \/ FlushToasts
  \/ Callback \/ \E key \in deck.cards : CardCloses(key)
  \/ BreakerCools \/ BreakerResumes \/ WindowSlides

UserStep ==
  \/ \E c \in Chat : OpenConversation(c) \/ HideChat(c) \/ RestoreChat(c)
  \/ MarkRead(Chat) \/ \E c \in Chat : MarkRead({c})
  \/ RestoreAll \/ ActivationChanges \/ RecoverMessages

Next ==
  /\ AgentStep \/ SweepStep \/ SweepFails \/ CardStep \/ UserStep
     \/ WindowEnds \/ WindowStarts
  /\ CardHistory

Spec == Init /\ [][Next]_vars

\* The GUI thread gets to every timer and posted callback in time: the sweep's
\* 2.5 s timer, the collection window of a burst, the 60 s timer no card
\* outlives, the breaker's clock.  They are enabled only between two sweeps,
\* hence the strong form.
Fairness ==
  /\ WF_vars((BeginSweep \/ SweepCounts \/ SweepAnnounces) /\ CardHistory)
  /\ SF_vars(FlushToasts /\ CardHistory)
  /\ SF_vars(Callback /\ CardHistory)
  /\ SF_vars((\E key \in deck.cards : CardCloses(key)) /\ CardHistory)
  /\ SF_vars((BreakerCools \/ BreakerResumes) /\ CardHistory)
  /\ SF_vars(WindowSlides /\ CardHistory)

FairSpec == Spec /\ Fairness

-----------------------------------------------------------------------------
(* Properties.                                                             *)

\* The badge of a conversation counts exactly the events swept since it was
\* last opened, marked read or hidden, less those that were on screen: a late
\* sweep, a crash inside it or a second upsert neither loses nor revives one.
UnreadIsExact ==
  \A c \in Chat :
    unread[c] = Cardinality({m \in owed[c] : m \in unreadDone /\ m \notin seen})

\* A message the sweep passes over because its card is on the way really has
\* one on the way: a request behind the cards, or a callback still to come.
NoAlertStranded ==
  \A m \in popping \ alertDone :
    \E key \in DOMAIN groups :
      /\ m \in groups[key]
      /\ \/ key \in Range(deck.waiting)
         \/ {<<"presented", key>>, <<"rejected", key>>} \cap deck.posted # {}

\* Requests behind the cards are looked at again: a card that will close, or
\* the resume shot of the breaker.
QueueHasAWaker ==
  deck.waiting # <<>> => deck.cards # {} \/ deck.resume # "none"

\* Whatever was alerted, or found too old to be, is in the notification
\* center, unless the last write of its entry failed: a crash, an alert that
\* is refused or a repeated sweep loses no entry.
FeedIsComplete == alertDone \subseteq feed \cup unfiled

\* A message whose event was once recorded, or that this app's own send has
\* completed, never enters the ledger again: not by a push that follows, not
\* by a repair, not after its row was pruned.
RecordedOnce ==
  [][\A m \in recorded \ Events : m \notin Range(ledger')]_vars

\* The invariant of the safety run.
AlertsInv == TypeOK /\ UnreadIsExact /\ FeedIsComplete

\* One run of the window shows no message on two cards, whatever is refused,
\* rejected, dropped by a recovery or acknowledged late.
OneCardPerRun == [][up => NewCards \cap carded = {}]_vars

\* However cards, the breaker and failed writes delay it, a window that keeps
\* running gets to where every event in the ledger has its unread count and
\* its alert acknowledged.
EveryEventIsTold ==
  []<>(up => Events \subseteq alertDone \cap unreadDone)
=============================================================================
