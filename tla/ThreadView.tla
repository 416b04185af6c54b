------------------------------ MODULE ThreadView ------------------------------
(***************************************************************************)
(* The open conversation of the window: what it shows of the database it   *)
(* shares with the agent, the drafts of its composer, and the pictures it  *)
(* asks the agent to download.                                             *)
(*                                                                         *)
(*   agent    its workers commit rows and then signal; its loop broadcasts *)
(*            the signals of the running backend to the window             *)
(*   link     the channel: what is broadcast while it is down is lost, and *)
(*            so is a download command sent before the handshake           *)
(*   window   rebuilds the conversation from the database when an event,   *)
(*            the handshake or the user gives it a reason                  *)
(*                                                                         *)
(* A rebuild reads the database when it runs, so equal events on their way *)
(* at once are one, and the three that only cause a rebuild (messages of a *)
(* batch, a sent message, a refreshed conversation) are one kind.  Rows    *)
(* are told apart by their place in the order of (date_created, guid) and  *)
(* by whether they are as they came or changed since (edited, unsent,      *)
(* read, repaired).  One conversation, Subject, has messages; of the       *)
(* outbox, which SendPath models, there is what its bubbles show.  Layout, *)
(* the scroll position, tapbacks, read receipts, search and export are     *)
(* left out.                                                               *)
(***************************************************************************)
EXTENDS Naturals, FiniteSets

CONSTANTS
  Message,     \* messages of Subject: numbers in the order of the thread
  Picture,     \* those whose attachment is an image
  Unreadable,  \* images no thumbnail can be made of
  Chat, Subject, NoChat,
  Text,        \* what the user may type
  NoText,
  PageSize,    \* rows of a page (60 in the code)
  Radius,      \* rows on either side of a search hit (30 in the code)
  MaxFaults,   \* bound: ends of the agent or its channel, backend rebuilds,
               \* failing downloads and sends
  MaxActs      \* bound: steps of the user, but for the fate of a text

ASSUME ThreadViewAssumption ==
  /\ Message \subseteq Nat \ {0}
  /\ \E n \in Message : \A m \in Message : m <= n
  /\ Unreadable \subseteq Picture /\ Picture \subseteq Message
  /\ Subject \in Chat /\ NoChat \notin Chat /\ {NoText, "scan"} \cap Text = {}
  /\ PageSize \in Nat \ {0} /\ Radius \in Nat \ {0}
  /\ MaxFaults \in Nat /\ MaxActs \in Nat

Newest == CHOOSE n \in Message : \A m \in Message : m <= n
NoPicture == 0

VARIABLES
  stored,    \* messages: 0 absent, 1 as it came, 2 changed since
  outbox,    \* outbox.state of each text; "none" before it is enqueued.  What
             \* the running SendThread has claimed looks like a queued text,
             \* and is one here: "sending" was claimed by an earlier one
  sentTo,    \* outbox.chat_guid
  running,   \* the agent has a backend
  lingering, \* what retired workers are still at: texts, or a "scan"
  files, thumbs,  \* pictures in the cache, and their thumbnails
  seen, queue, busy,  \* DownloadThread of the running backend
  retired,   \* downloads of retired backends still on their way
  events,    \* on their way from a worker to the window: Qt signals to the
             \* agent's loop, then broadcasts on the channel
  link,      \* "up" once the handshake has been heard, or "down"
  asked,     \* download commands on the channel
  view,      \* ThreadView: conversation, bubbles by message and version, the
             \* span of messages they are a page of, outbox bubbles, and
             \* pictures that say "Loading image"
  composer,  \* what is in the composer
  drafts,    \* _drafts
  typedFor,  \* history: the conversation each text was typed for
  missed,    \* history: since the last rebuild of the view something was
             \* committed whose signal was dropped, or that has none
  excused,   \* history: pictures whose download failed, was dropped with a
             \* backend or met none, since they were last asked for
  acts, faults

storeVars == <<stored, outbox, sentTo>>
workerVars == <<running, lingering>>
downloadVars == <<files, thumbs, seen, queue, busy, retired>>
draftVars == <<composer, drafts, typedFor>>
channel == <<events, link, asked>>
windowVars == <<view, draftVars, missed>>
bounds == <<acts, faults>>
vars == <<storeVars, workerVars, downloadVars, channel, windowVars, excused, bounds>>

Event ==
  ({"changed", "outbox"} \X Chat) \cup ({"page"} \X {Subject})
    \cup ({"ready"} \X Picture)
Closed == [chat |-> NoChat, rows |-> {}, from |-> 0, upto |-> Newest,
           outbox |-> {}, loading |-> {}]

StoreTypes ==
  /\ stored \in [Message -> 0..2]
  /\ outbox \in [Text -> {"none", "queued", "sending", "failed", "sent"}]
  /\ sentTo \in [Text -> Chat \cup {NoChat}]

WorkerTypes ==
  /\ running \in BOOLEAN /\ lingering \subseteq Text \cup {"scan"}

DownloadTypes ==
  /\ files \subseteq Picture /\ thumbs \subseteq files
  /\ seen \subseteq Picture /\ queue \subseteq seen
  /\ busy \in (seen \ queue) \cup {NoPicture} /\ retired \subseteq Picture

ChannelTypes ==
  /\ events \subseteq Event /\ asked \subseteq Picture
  /\ link \in {"down", "up"}

Looks == {"sending", "failed"}
View == [chat : Chat \cup {NoChat}, rows : SUBSET (Message \X (1..2)),
         from : 0..Newest, upto : Message,
         outbox : SUBSET (Text \X Looks), loading : SUBSET Picture]
DraftTypes ==
  /\ composer \in Text \cup {NoText}
  /\ drafts \in [Chat -> Text \cup {NoText}]
  /\ typedFor \in [Text -> Chat \cup {NoChat}]

CountTypes ==
  /\ missed \in BOOLEAN /\ excused \subseteq Picture
  /\ acts \in 0..MaxActs /\ faults \in 0..MaxFaults

TypeOK ==
  StoreTypes /\ WorkerTypes /\ DownloadTypes /\ ChannelTypes /\ view \in View
  /\ DraftTypes /\ CountTypes

\* A window that has just started, beside a cache of any length.
Init ==
  /\ \E n \in 0..Newest : stored = [m \in Message |-> IF m <= n THEN 1 ELSE 0]
  /\ outbox = [t \in Text |-> "none"] /\ sentTo = [t \in Text |-> NoChat]
  /\ running = TRUE /\ lingering = {}
  /\ files = {} /\ thumbs = {} /\ seen = {} /\ queue = {} /\ busy = NoPicture
  /\ retired = {} /\ events = {} /\ link = "down" /\ asked = {}
  /\ view = Closed /\ composer = NoText /\ drafts = [c \in Chat |-> NoText]
  /\ typedFor = [t \in Text |-> NoChat]
  /\ missed = FALSE /\ excused = {} /\ acts = 0 /\ faults = 0

Fault == faults < MaxFaults /\ faults' = faults + 1 /\ UNCHANGED acts
Act == acts < MaxActs /\ acts' = acts + 1 /\ UNCHANGED faults

-----------------------------------------------------------------------------
(* Reading the database.                                                   *)

Rows == {m \in Message : stored[m] # 0}
Latest(S, k) == {m \in S : Cardinality({n \in S : n > m}) < k}
Earliest(S, k) == {m \in S : Cardinality({n \in S : n < m}) < k}

\* messages_window: the page before a key, or the newest
Window(c, before) ==
  IF c = Subject THEN Latest({m \in Rows : m < before}, PageSize) ELSE {}
\* messages_around
Around(m) ==
  Latest({n \in Rows : n <= m}, Radius) \cup Earliest({n \in Rows : n > m}, Radius)

\* outbox_pending, of an outbox ob with the conversations to
PendingIn(ob, to, c) ==
  {t \in Text : to[t] = c /\ ob[t] \in {"queued", "sending", "failed"}}
\* An OutboxBubble says "Sending", or what failed.
BubblesOf(ob, to, c) ==
  {<<t, IF ob[t] = "failed" THEN "failed" ELSE "sending">> : t \in PendingIn(ob, to, c)}
Pending(c) == BubblesOf(outbox, sentTo, c)

Oldest(S) == IF S = {} THEN 0 ELSE CHOOSE m \in S : \A n \in S : m <= n

-----------------------------------------------------------------------------
(* The view.                                                               *)

\* A bubble shows its row as it is; a picture without a thumbnail is loading.
Bubbles(S) == {<<m, stored[m]>> : m \in S}
Loading(S) == (S \cap Picture) \ thumbs

\* request_download: a command the link does not keep
RequestDownload(P) == asked' = IF link' = "up" THEN asked \cup P ELSE asked

Rendered(c, S, upto) ==
  [chat |-> c, rows |-> Bubbles(S), from |-> Oldest(S), upto |-> upto,
   outbox |-> Pending(c), loading |-> Loading(S)]

\* Mutant: the conversation changes before the draft is put away.
StashedAfter(c) == [drafts EXCEPT ![c] = composer]
\* _stash_draft, which asks the conversation still open for its guid
Stashed(c) == IF view.chat = NoChat THEN drafts ELSE [drafts EXCEPT ![view.chat] = composer]

\* load_chat, with the rows it has read
LoadChat(c, S, upto) ==
  /\ view' = Rendered(c, S, upto)
  /\ RequestDownload(Loading(S))
  /\ missed' = FALSE
  /\ IF view.chat = c THEN UNCHANGED <<composer, drafts>>
     ELSE drafts' = Stashed(c) /\ composer' = drafts'[c]
  /\ UNCHANGED typedFor

LoadNewest(c) == LoadChat(c, Window(c, Newest + 1), Newest)

NothingShown == UNCHANGED <<windowVars, asked>>

\* refresh_from_repo
RefreshFromRepo == IF view.chat = NoChat THEN NothingShown ELSE LoadNewest(view.chat)

\* refresh_outbox
RefreshOutbox(c) ==
  /\ view' = IF view.chat = c THEN [view EXCEPT !.outbox = Pending(c)] ELSE view
  /\ UNCHANGED <<draftVars, missed, asked>>

-----------------------------------------------------------------------------
(* The user.                                                               *)

\* open_conversation: a click in the list, a card, the undo of a hide, ...
OpenConversation(c) ==
  /\ Act /\ UNCHANGED link /\ LoadNewest(c)
  /\ UNCHANGED <<storeVars, workerVars, downloadVars, events, excused>>

\* ... of a search result, which shows the rows around it
OpenHit(m) ==
  /\ Act /\ m \in Rows /\ UNCHANGED link
  /\ LET S == Around(m) IN
     LoadChat(Subject, S,
              IF Cardinality({n \in S : n > m}) < Radius THEN Newest
              ELSE CHOOSE n \in S : \A k \in S : k <= n)
  /\ UNCHANGED <<storeVars, workerVars, downloadVars, events, excused>>

\* load_older
LoadOlder ==
  /\ Act /\ UNCHANGED link
  /\ view.rows # {}
  /\ LET S == Window(view.chat, view.from) IN
     /\ S # {}
     /\ view' = [view EXCEPT !.rows = @ \cup Bubbles(S), !.from = Oldest(S),
                             !.loading = @ \cup Loading(S)]
     /\ RequestDownload(Loading(S))
  /\ UNCHANGED <<storeVars, workerVars, downloadVars, events, draftVars, missed, excused>>

\* The window becomes the active one.
Activate ==
  /\ Act /\ UNCHANGED link /\ RefreshFromRepo
  /\ UNCHANGED <<storeVars, workerVars, downloadVars, events, excused>>

\* _hide_chat of the open conversation: show_empty
HideOpen ==
  /\ Act /\ view.chat # NoChat
  /\ drafts' = Stashed(NoChat) /\ view' = Closed
  /\ UNCHANGED <<storeVars, workerVars, downloadVars, channel, composer, typedFor, missed, excused>>

\* Text and staged files, in an empty composer
Types(t) ==
  /\ Act /\ view.chat # NoChat /\ composer = NoText
  /\ typedFor[t] = NoChat
  /\ composer' = t /\ typedFor' = [typedFor EXCEPT ![t] = view.chat]
  /\ UNCHANGED <<storeVars, workerVars, downloadVars, channel, view, drafts, missed, excused>>

Erases ==
  /\ view.chat # NoChat /\ composer # NoText
  /\ composer' = NoText /\ typedFor' = [typedFor EXCEPT ![composer] = NoChat]
  /\ UNCHANGED <<storeVars, workerVars, downloadVars, channel, view, drafts, missed, excused, bounds>>

\* The composer's _send, _on_submit and _on_send, and the refresh_outbox after
Submit ==
  /\ view.chat # NoChat /\ composer # NoText
  /\ composer' = NoText /\ drafts' = [drafts EXCEPT ![view.chat] = NoText]
  /\ outbox' = [outbox EXCEPT ![composer] = "queued"]
  /\ sentTo' = [sentTo EXCEPT ![composer] = view.chat]
  /\ view' = [view EXCEPT !.outbox = BubblesOf(outbox', sentTo', view.chat)]
  /\ UNCHANGED <<stored, workerVars, downloadVars, channel, typedFor, missed,
                 excused, bounds>>

\* A click on a failed bubble
Retry(t) ==
  /\ <<t, "failed">> \in view.outbox
  /\ outbox' = [outbox EXCEPT ![t] = "queued"]
  /\ view' = [view EXCEPT !.outbox = BubblesOf(outbox', sentTo, view.chat)]
  /\ UNCHANGED <<stored, sentTo, workerVars, downloadVars, channel, draftVars,
                 missed, excused, bounds>>

\* The refresh button: an agent with a backend checks the conversation and
\* answers.
RefreshChat ==
  /\ Act /\ view.chat # NoChat /\ link = "up" /\ running
  /\ events' = events \cup {<<"changed", view.chat>>}
  /\ UNCHANGED <<storeVars, workerVars, downloadVars, link, asked, windowVars, excused>>

-----------------------------------------------------------------------------
(* The agent's workers: rows are committed before they are signalled.      *)

Signal(e) == events' = events \cup e

\* A push, a scan or a sync stores a message or a change of it.
UpsertMessage(m) ==
  /\ running /\ stored[m] < 2 /\ stored' = [stored EXCEPT ![m] = @ + 1]
  /\ Signal({<<"changed", Subject>>})
  /\ UNCHANGED <<outbox, sentTo, workerVars, downloadVars, link, asked,
                 windowVars, excused, bounds>>

\* _backfill: a page of history, which may also hold rows a scan left out or
\* changes of those it stored.  No signal tells a view that shows them.
Backfill(m) ==
  /\ running /\ stored[m] < 2 /\ stored' = [stored EXCEPT ![m] = @ + 1]
  /\ Signal({<<"page", Subject>>})
  /\ missed' = (missed \/ (view.rows # {} /\ m \in view.from..view.upto))
  /\ UNCHANGED <<outbox, sentTo, workerVars, downloadVars, link, asked, view,
                 draftVars, excused, bounds>>

\* What the end of an attempt writes: the row and its message in one
\* transaction.  The answer may lack a message.
Settles(t, answered) ==
  /\ outbox' = [outbox EXCEPT ![t] = "sent"]
  /\ IF answered /\ sentTo[t] = Subject
     THEN \E m \in Message \ Rows : stored' = [stored EXCEPT ![m] = 1]
     ELSE UNCHANGED stored
Fails(t) ==
  /\ Fault /\ outbox' = [outbox EXCEPT ![t] = "failed"] /\ UNCHANGED stored

\* SendThread: the ends of an attempt.
SendEnds(t) ==
  /\ running /\ outbox[t] = "queued"
  /\ \/ UNCHANGED bounds /\ \E answered \in BOOLEAN :
          /\ Settles(t, answered)
          /\ Signal((IF answered THEN {"changed", "outbox"} ELSE {"outbox"})
                      \X {sentTo[t]})
     \/ Fails(t) /\ Signal({<<"outbox", sentTo[t]>>})
  /\ UNCHANGED <<sentTo, workerVars, downloadVars, link, asked, windowVars, excused>>

\* The attempt of a retired SendThread: its signals are blocked, and nobody
\* is connected to them.
RetiredSendEnds(t) ==
  /\ t \in lingering /\ lingering' = lingering \ {t}
  /\ (UNCHANGED bounds /\ \E answered \in BOOLEAN : Settles(t, answered)) \/ Fails(t)
  /\ missed' = TRUE
  /\ UNCHANGED <<sentTo, running, downloadVars, channel, view,
                 draftVars, excused>>

\* So are those of a retired scan or sync, which ends at its next stop check:
\* after the row it is at, if it stores one.
RetiredScanEnds(m) ==
  /\ "scan" \in lingering /\ lingering' = lingering \ {"scan"}
  /\ stored[m] < 2 /\ stored' = [stored EXCEPT ![m] = @ + 1]
  /\ missed' = TRUE
  /\ UNCHANGED <<outbox, sentTo, running, downloadVars, channel, view,
                 draftVars, excused, bounds>>

\* DownloadThread.request; without a backend there is none, and the command
\* is dropped.
ReadRequest(g) ==
  /\ g \in asked /\ asked' = asked \ {g}
  /\ excused' = IF running THEN excused \ {g} ELSE excused \cup {g}
  /\ IF running /\ g \notin seen
     THEN seen' = seen \cup {g} /\ queue' = queue \cup {g}
     ELSE UNCHANGED <<seen, queue>>
  /\ UNCHANGED <<storeVars, workerVars, files, thumbs, busy, retired, events,
                 link, windowVars, bounds>>

DownloadBegins(g) ==
  /\ busy = NoPicture /\ g \in queue
  /\ busy' = g /\ queue' = queue \ {g}
  /\ UNCHANGED <<storeVars, workerVars, files, thumbs, seen, retired, channel, windowVars,
                 excused, bounds>>

Lands(g) == files' = files \cup {g} /\ thumbs' = thumbs \cup ({g} \ Unreadable)

DownloadEnds ==
  /\ busy # NoPicture /\ busy' = NoPicture
  /\ Lands(busy) /\ Signal({<<"ready", busy>>})
  /\ UNCHANGED <<storeVars, workerVars, seen, queue, retired, link, asked, windowVars,
                 excused, bounds>>

\* Mutant: a failed download stays known.
StillSeen(g) == UNCHANGED seen
\* A failed download may be asked for again.
ForgetRequest(g) == seen' = seen \ {g}

DownloadFails ==
  /\ busy # NoPicture /\ busy \notin files /\ Fault
  /\ busy' = NoPicture /\ ForgetRequest(busy)
  /\ excused' = excused \cup {busy} /\ UNCHANGED events
  /\ UNCHANGED <<storeVars, workerVars, files, thumbs, queue, retired, link, asked,
                 windowVars>>

\* A retired thread finishes what it is at, if it does, and nobody listens.
RetiredEnds(g) ==
  /\ g \in retired /\ retired' = retired \ {g} /\ Lands(g)
  /\ UNCHANGED <<storeVars, workerVars, seen, queue, busy, channel, windowVars, excused, bounds>>

-----------------------------------------------------------------------------
(* The agent's loop and the channel.                                       *)

Current == {g \in Picture : g \in queue \/ g = busy}

\* The SendThread has claimed the texts D: none or one.
Claimed(D) ==
  /\ Cardinality(D) <= 1 /\ \A t \in D : outbox[t] = "queued"
  /\ outbox' = [t \in Text |-> IF t \in D THEN "sending" ELSE outbox[t]]

\* stop_backend: the signals of the old workers no longer count, its
\* downloads are dropped, and what its workers are at goes on unheard.
StopBackend ==
  /\ running /\ Fault /\ running' = FALSE
  /\ \E S \in SUBSET events :
       /\ events' = events \ S
       /\ missed' = (missed \/ S # {})
       /\ excused' = excused \cup Current \cup {g \in Picture : <<"ready", g>> \in S}
  /\ \E D \in SUBSET Text : Claimed(D) /\ lingering' = lingering \cup D \cup {"scan"}
  /\ retired' = retired \cup (Current \ queue)
  /\ seen' = {} /\ queue' = {} /\ busy' = NoPicture
  /\ UNCHANGED <<stored, sentTo, files, thumbs, link, asked, view, draftVars>>

\* start_backend, at once, 250 ms after a teardown or 50 ms into the life of
\* an agent.  Unless a retired one is still sending, its SendThread takes rows
\* at "sending" for interrupted and marks them failed, without a signal.
StartBackend ==
  /\ ~running /\ running' = TRUE
  /\ LET interrupted == IF lingering \cap Text # {} THEN {}
                        ELSE {t \in Text : outbox[t] = "sending"}
     IN  /\ outbox' = [t \in Text |-> IF t \in interrupted THEN "failed" ELSE outbox[t]]
         /\ missed' = (missed \/ interrupted # {})
  /\ UNCHANGED <<stored, sentTo, lingering, downloadVars, channel, view,
                 draftVars, excused, bounds>>

\* The agent ends, with all it had in memory.
AgentEnds ==
  /\ Fault
  /\ running' = FALSE /\ lingering' = {} /\ \E D \in SUBSET Text : Claimed(D)
  /\ events' = {} /\ link' = "down" /\ asked' = {}
  /\ seen' = {} /\ queue' = {} /\ busy' = NoPicture /\ retired' = {}
  /\ UNCHANGED <<stored, sentTo, files, thumbs, windowVars, excused>>

\* What is on the channel is lost with it, and ...
LinkDrops ==
  /\ Fault /\ link # "down"
  /\ link' = "down" /\ asked' = {}
  /\ events' \in SUBSET events
  /\ UNCHANGED <<storeVars, workerVars, downloadVars, windowVars, excused>>

\* ... so is what is broadcast before there is another.
BroadcastToNobody(e) ==
  /\ link = "down" /\ e \in events /\ events' = events \ {e}
  /\ UNCHANGED <<storeVars, workerVars, downloadVars, link, asked, windowVars, excused, bounds>>

\* Mutant: the handshake is only noted.
HelloNoted == NothingShown
\* _on_agent_hello
HelloHeard == RefreshFromRepo

\* The link reconnects.  The handshake is the first thing on the channel;
\* until it is heard the link keeps no command.
LinkConnects ==
  /\ link = "down" /\ link' = "up" /\ HelloHeard
  /\ UNCHANGED <<storeVars, workerVars, downloadVars, events, excused, bounds>>

-----------------------------------------------------------------------------
(* What the window does on an event.                                       *)

\* _on_agent_batch, _on_message_sent and _on_chat_refreshed
OnChanged(c) == IF view.chat = c THEN RefreshFromRepo ELSE NothingShown

\* Mutant: the bubble waits for the message.
OutboxIgnored(c) == NothingShown
\* _on_outbox_changed
OnOutboxChanged(c) == RefreshOutbox(c)

\* _on_backfill_page: only an empty conversation is filled.
OnBackfillPage(c) ==
  IF view.chat = c /\ view.rows = {} THEN LoadNewest(c) ELSE NothingShown

\* on_attachment_ready
OnAttachmentReady(g) ==
  /\ view' = [view EXCEPT !.loading = @ \ ({g} \cap thumbs)]
  /\ UNCHANGED <<draftVars, missed, asked>>

HandleEvent(e) ==
  /\ link = "up" /\ e \in events /\ events' = events \ {e} /\ UNCHANGED link
  /\ \/ e[1] = "changed" /\ OnChanged(e[2])
     \/ e[1] = "outbox" /\ OnOutboxChanged(e[2])
     \/ e[1] = "page" /\ OnBackfillPage(e[2])
     \/ e[1] = "ready" /\ OnAttachmentReady(e[2])
  /\ UNCHANGED <<storeVars, workerVars, downloadVars, excused, bounds>>

-----------------------------------------------------------------------------
UserStep ==
  \/ \E c \in Chat : OpenConversation(c)
  \/ \E m \in Message : OpenHit(m)
  \/ LoadOlder \/ Activate \/ HideOpen
  \/ \E t \in Text : Types(t) \/ Retry(t)
  \/ Erases \/ Submit \/ RefreshChat

WorkerStep ==
  \/ \E m \in Message : UpsertMessage(m) \/ Backfill(m) \/ RetiredScanEnds(m)
  \/ \E t \in Text : SendEnds(t) \/ RetiredSendEnds(t)
  \/ \E g \in Picture : ReadRequest(g) \/ DownloadBegins(g) \/ RetiredEnds(g)
  \/ DownloadEnds \/ DownloadFails

ChannelStep ==
  \/ \E e \in events : BroadcastToNobody(e) \/ HandleEvent(e)
  \/ LinkConnects \/ LinkDrops

BackendStep == StopBackend \/ StartBackend \/ AgentEnds

Next == UserStep \/ WorkerStep \/ ChannelStep \/ BackendStep

Spec == Init /\ [][Next]_vars

\* The window handles what is queued and reconnects every 3 s; the agent reads
\* its commands, and a download ends: its connection has a time-out.
WindowGoesOn == (\E e \in events : HandleEvent(e)) \/ LinkConnects
DownloadsGoOn ==
  \/ \E g \in Picture : ReadRequest(g) \/ DownloadBegins(g)
  \/ DownloadEnds \/ DownloadFails

Fairness == WF_vars(WindowGoesOn) /\ WF_vars(DownloadsGoOn)

FairSpec == Spec /\ Fairness

-----------------------------------------------------------------------------
(* Properties.                                                             *)

\* What the user has typed for a conversation is in the composer while that
\* conversation is open, and among its drafts while it is not, whatever opens,
\* hides or rebuilds the view meanwhile; and it is sent to no other
\* conversation.  Without drafts a switch "LEAKED a half-typed message into
\* whichever conversation was opened next" (thread_view.py:449-453).
DraftsStayHome ==
  \A t \in Text : typedFor[t] # NoChat =>
    IF outbox[t] # "none" THEN sentTo[t] = typedFor[t]
    ELSE IF view.chat = typedFor[t] THEN composer = t
    ELSE drafts[typedFor[t]] = t

\* What that rests on: the composer and the drafts hold nothing that is not
\* of their conversation and still to be sent.  (The draft of the conversation
\* that is open is out of date.)
Belongs(t, c) == t # NoText => typedFor[t] = c /\ outbox[t] = "none"
DraftsAreOwn ==
  /\ view.chat # NoChat => Belongs(composer, view.chat)
  /\ \A c \in Chat \ {view.chat} : Belongs(drafts[c], c)
  /\ \A t \in Text : outbox[t] # "none" => typedFor[t] # NoChat

\* Bubbles and retired senders are those of rows there are.
BubblesHaveRows ==
  /\ view.chat = NoChat => view.outbox = {}
  /\ \A t \in Text :
       (t \in lingering \/ \E look \in Looks : <<t, look>> \in view.outbox)
         => outbox[t] # "none"

ThreadInv == TypeOK /\ DraftsStayHome /\ DraftsAreOwn /\ BubblesHaveRows

\* The open conversation, from its oldest bubble to the end of the page, comes
\* to show every message as the database has it, whichever of the agent, the
\* channel and the window was not there when it was committed.  (Not so when
\* nothing tells the window: a signal dropped with its backend, a commit by a
\* retired worker, a page of history in between (README, 9).)
ShowsWhatIsStored ==
  LET stale == /\ view.chat = Subject
               /\ \E m \in Rows \cap (view.from..view.upto) :
                    <<m, stored[m]>> \notin view.rows
  IN  stale ~> (~stale \/ missed)

\* The bubbles under the thread are those of the sends still pending, as they
\* are, or an event that will make them so is on its way: none outlives a send
\* that went out, none is missing, and one that failed says so.  While the link
\* is down nothing is on its way, and the handshake makes up for it.  (Not so
\* when nothing tells the window: a send that ends in a retired thread, a row
\* found interrupted at a start (README, 9).)
NoBubbleForgotten ==
  (link = "up" /\ view.outbox # Pending(view.chat))
    => (missed \/ <<"outbox", view.chat>> \in events)

\* A picture that says it is loading is loaded, or its failure was reported:
\* the command may have met a link that was down, the answer a conversation
\* that was rebuilt, or both threads of two backends.  (Not so for a command
\* dropped with a backend, or that came before there was one (README, 9).)
PicturesLoad ==
  \A g \in Picture \ Unreadable :
    (g \in view.loading) ~> (g \notin view.loading \/ g \in excused)
=============================================================================
