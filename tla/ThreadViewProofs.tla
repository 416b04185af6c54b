--------------------------- MODULE ThreadViewProofs ---------------------------
(***************************************************************************)
(* Proofs about ThreadView for every cache, page size, set of chats and    *)
(* texts, and number of faults and steps of the user.                      *)
(***************************************************************************)
EXTENDS ThreadView, FiniteSetTheorems, WellFoundedInduction, TLAPS

USE ThreadViewAssumption DEF storeVars, workerVars, downloadVars, draftVars, channel,
      windowVars, bounds

(***************************************************************************)
(* Ends of a set of messages.                                              *)
(***************************************************************************)
LEMMA LeastNumber ==
  ASSUME NEW S \in SUBSET Nat, S # {}
  PROVE  \E m \in S : \A n \in S : m <= n
<1>1. PICK m \in S : \A n \in S : ~(<<n, m>> \in OpToRel(<, Nat))
  BY NatLessThanWellFounded, WFMin
<1>2. \A n \in S : ~(n < m)
  BY <1>1 DEF OpToRel
<1> QED
  BY <1>2

LEMMA NewestIsLast ==
  Newest \in Message /\ \A m \in Message : m \in Nat /\ m # 0 /\ m <= Newest
<1>1. Newest \in Message /\ \A m \in Message : m <= Newest
  BY DEF Newest
<1> QED
  BY <1>1

LEMMA OldestInRange == \A S \in SUBSET Message : Oldest(S) \in 0..Newest
<1> SUFFICES ASSUME NEW S \in SUBSET Message, S # {} PROVE Oldest(S) \in 0..Newest
  BY NewestIsLast DEF Oldest
<1>1. \E m \in S : \A n \in S : m <= n
  BY LeastNumber
<1>2. Oldest(S) \in Message
  BY <1>1 DEF Oldest
<1>3. \A m \in Message : m \in 0..Newest
  BY NewestIsLast
<1> QED
  BY <1>2, <1>3

\* The largest of a set of messages: the distance to the newest is smallest.
LEMMA LargestMessage ==
  ASSUME NEW S \in SUBSET Message, S # {}
  PROVE  \E n \in S : \A k \in S : k <= n
<1> DEFINE D == {Newest - m : m \in S}
<1>1. D \subseteq Nat /\ D # {}
  <2>1. \A m \in Message : Newest - m \in Nat
    BY NewestIsLast
  <2> QED
    BY <2>1
<1>2. PICK d \in D : \A e \in D : d <= e
  BY <1>1, LeastNumber
<1>3. PICK n \in S : d = Newest - n
  OBVIOUS
<1>4. \A k \in S : Newest - n <= Newest - k
  BY <1>2, <1>3
<1> QED
  BY <1>3, <1>4, NewestIsLast

(***************************************************************************)
(* What the reads return.                                                  *)
(***************************************************************************)
LEMMA ReadsAreRows ==
  /\ \A c \in Chat, k \in Nat : Window(c, k) \in SUBSET Rows
  /\ \A m \in Message : Around(m) \in SUBSET Rows
BY DEF Window, Around, Latest, Earliest

\* The rows around a hit hold the hit.
LEMMA HitIsShown == \A m \in Rows : m \in Around(m)
<1> SUFFICES ASSUME NEW m \in Rows PROVE m \in Around(m)
  OBVIOUS
<1>1. m \in Nat
  BY DEF Rows
<1>2. {n \in {k \in Rows : k <= m} : n > m} = {}
  <2> \A n \in Nat : n <= m => ~(n > m)
    BY <1>1
  <2> QED
    BY DEF Rows
<1>3. m \in Latest({n \in Rows : n <= m}, Radius)
  BY <1>1, <1>2, FS_EmptySet DEF Latest
<1> QED
  BY <1>3 DEF Around

(***************************************************************************)
(* The bubbles of an outbox.                                               *)
(***************************************************************************)
LEMMA BubblesTypes ==
  ASSUME NEW ob, NEW to, NEW c
  PROVE  BubblesOf(ob, to, c) \in SUBSET (Text \X Looks)
BY DEF BubblesOf, PendingIn, Looks

\* A text that is claimed keeps its bubble.
SameLook(a, b) == a = b \/ (a \in {"queued", "sending"} /\ b \in {"queued", "sending"})

LEMMA SameBubbles ==
  ASSUME NEW new, NEW old, NEW to, NEW c,
         \A t \in Text : to[t] = c => SameLook(new[t], old[t])
  PROVE  BubblesOf(new, to, c) = BubblesOf(old, to, c)
<1>1. PendingIn(new, to, c) = PendingIn(old, to, c)
  BY DEF PendingIn, SameLook
<1>2. \A t \in PendingIn(old, to, c) : (new[t] = "failed") <=> (old[t] = "failed")
  BY DEF PendingIn, SameLook
<1>3. \A t \in PendingIn(old, to, c) :
        (IF new[t] = "failed" THEN "failed" ELSE "sending")
          = (IF old[t] = "failed" THEN "failed" ELSE "sending")
  BY <1>2
<1> QED
  BY <1>1, <1>3 DEF BubblesOf

(***************************************************************************)
(* The rebuild of the view.                                                *)
(***************************************************************************)
LEMMA RenderedIsView ==
  ASSUME StoreTypes, DownloadTypes, NEW c \in Chat, NEW S \in SUBSET Rows,
         NEW upto \in Message
  PROVE  Rendered(c, S, upto) \in View
<1>1. Bubbles(S) \in SUBSET (Message \X (1..2))
  BY DEF Bubbles, Rows, StoreTypes
<1>2. Oldest(S) \in 0..Newest
  BY OldestInRange DEF Rows
<1>3. Pending(c) \in SUBSET (Text \X Looks) /\ Loading(S) \in SUBSET Picture
  BY BubblesTypes DEF Pending, Loading
<1> QED
  BY <1>1, <1>2, <1>3 DEF Rendered, View

LEMMA ClosedIsView == Closed \in View
BY NewestIsLast DEF Closed, View

LEMMA StashedTypes ==
  ASSUME view \in View, DraftTypes
  PROVE  \A c \in Chat \cup {NoChat} : Stashed(c) \in [Chat -> Text \cup {NoText}]
<1>1. view.chat \in Chat \cup {NoChat}
  BY DEF View
<1> QED
  BY <1>1 DEF Stashed, DraftTypes

\* What an action of the window leaves well-typed.
WindowTypes == view' \in View /\ asked' \subseteq Picture /\ DraftTypes' /\ missed' \in BOOLEAN

LEMMA LoadTypes ==
  ASSUME TypeOK, NEW c \in Chat, NEW S \in SUBSET Rows, NEW upto \in Message,
         LoadChat(c, S, upto)
  PROVE  WindowTypes
<1>1. view' \in View
  BY RenderedIsView DEF TypeOK, LoadChat
<1>2. asked' \subseteq Picture
  BY DEF TypeOK, LoadChat, RequestDownload, Loading, ChannelTypes
<1>3. DraftTypes'
  <2>1. CASE view.chat = c
    BY <2>1 DEF TypeOK, LoadChat, DraftTypes
  <2>2. CASE view.chat # c
    <3>1. drafts' \in [Chat -> Text \cup {NoText}]
      BY <2>2, StashedTypes DEF TypeOK, LoadChat
    <3>2. composer' \in Text \cup {NoText}
      BY <2>2, <3>1 DEF LoadChat
    <3> QED
      BY <3>1, <3>2 DEF TypeOK, LoadChat, DraftTypes
  <2> QED
    BY <2>1, <2>2
<1>4. missed' \in BOOLEAN
  BY DEF LoadChat
<1> QED
  BY <1>1, <1>2, <1>3, <1>4 DEF WindowTypes

LEMMA NewestTypes ==
  ASSUME TypeOK, NEW c \in Chat, LoadNewest(c)
  PROVE  WindowTypes
<1>1. Window(c, Newest + 1) \in SUBSET Rows
  BY ReadsAreRows, NewestIsLast
<1> QED
  BY <1>1, LoadTypes, NewestIsLast DEF LoadNewest

LEMMA NothingTypes ==
  ASSUME TypeOK, NothingShown
  PROVE  WindowTypes
<1>1. DraftTypes'
  BY DEF TypeOK, NothingShown, DraftTypes
<1> QED
  BY <1>1 DEF TypeOK, NothingShown, WindowTypes, ChannelTypes, CountTypes

LEMMA RefreshTypes ==
  ASSUME TypeOK, RefreshFromRepo
  PROVE  WindowTypes
<1>1. view.chat \in Chat \cup {NoChat}
  BY DEF TypeOK, View
<1> QED
  BY <1>1, NewestTypes, NothingTypes DEF RefreshFromRepo

LEMMA EventTypes ==
  ASSUME TypeOK, NEW e \in Event, HandleEvent(e)
  PROVE  WindowTypes
<1>0. view.chat \in Chat \cup {NoChat} /\ DraftTypes /\ missed \in BOOLEAN
      /\ asked \subseteq Picture /\ view \in View
  BY DEF TypeOK, View, ChannelTypes, CountTypes
<1>1. CASE OnChanged(e[2])
  BY <1>1, RefreshTypes, NothingTypes DEF OnChanged
<1>2. CASE OnOutboxChanged(e[2])
  <2>1. DraftTypes'
    BY <1>0, <1>2 DEF OnOutboxChanged, RefreshOutbox, DraftTypes
  <2>2. Pending(e[2]) \in SUBSET (Text \X Looks)
    BY BubblesTypes DEF Pending
  <2>3. view' \in View
    BY <1>0, <1>2, <2>2 DEF OnOutboxChanged, RefreshOutbox, View
  <2> QED
    BY <1>0, <1>2, <2>1, <2>3 DEF OnOutboxChanged, RefreshOutbox, WindowTypes
<1>3. CASE e[1] = "page" /\ OnBackfillPage(e[2])
  <2>1. CASE e[1] = "page" /\ LoadNewest(e[2])
    <3>1. e[2] \in Chat
      BY <2>1 DEF Event
    <3> QED
      BY <2>1, <3>1, NewestTypes
  <2> QED
    BY <1>3, <2>1, NothingTypes DEF OnBackfillPage
<1>4. CASE OnAttachmentReady(e[2])
  <2>1. DraftTypes'
    BY <1>0, <1>4 DEF OnAttachmentReady, DraftTypes
  <2>2. view' \in View
    BY <1>0, <1>4 DEF OnAttachmentReady, View
  <2> QED
    BY <1>0, <1>4, <2>1, <2>2 DEF OnAttachmentReady, WindowTypes
<1> QED
  BY <1>1, <1>2, <1>3, <1>4 DEF HandleEvent

(***************************************************************************)
(* Every step keeps the types.  Only an action's own groups are argued;    *)
(* the others are framed.                                                  *)
(***************************************************************************)
LEMMA TypeStep ==
  ASSUME ThreadInv, [Next]_vars
  PROVE  TypeOK'
<1> USE DEF ThreadInv
<1>0. /\ StoreTypes /\ WorkerTypes /\ DownloadTypes /\ ChannelTypes /\ view \in View
      /\ DraftTypes /\ CountTypes /\ view.chat \in Chat \cup {NoChat}
  BY DEF TypeOK, View
<1>s. ASSUME UNCHANGED storeVars PROVE StoreTypes'
  BY <1>0, <1>s DEF StoreTypes
<1>k. ASSUME UNCHANGED workerVars PROVE WorkerTypes'
  BY <1>0, <1>k DEF WorkerTypes
<1>d. ASSUME UNCHANGED downloadVars PROVE DownloadTypes'
  BY <1>0, <1>d DEF DownloadTypes
<1>c. ASSUME UNCHANGED channel PROVE ChannelTypes'
  BY <1>0, <1>c DEF ChannelTypes
<1>f. ASSUME UNCHANGED draftVars PROVE DraftTypes'
  BY <1>0, <1>f DEF DraftTypes
<1>b. ASSUME UNCHANGED <<missed, excused>>, UNCHANGED bounds \/ Act \/ Fault PROVE CountTypes'
  <2>1. acts' \in 0..MaxActs /\ faults' \in 0..MaxFaults
    BY <1>0, <1>b DEF CountTypes, Act, Fault
  <2> QED
    BY <1>0, <1>b, <2>1 DEF CountTypes
<1>w. ASSUME WindowTypes, UNCHANGED <<storeVars, workerVars, downloadVars, excused>>,
             events' \subseteq events, UNCHANGED link \/ link' = "up",
             UNCHANGED bounds \/ Act
      PROVE  TypeOK'
  <2>1. acts' \in 0..MaxActs /\ faults' \in 0..MaxFaults
    BY <1>0, <1>w DEF CountTypes, Act
  <2>2. ChannelTypes'
    BY <1>0, <1>w DEF ChannelTypes, WindowTypes
  <2>3. CountTypes'
    BY <1>0, <1>w, <2>1 DEF CountTypes, WindowTypes
  <2> QED
    BY <1>s, <1>k, <1>d, <1>w, <2>2, <2>3 DEF TypeOK, WindowTypes
\* What the worker of a send says, once its text has a conversation.
<1>e. \A t \in Text : outbox[t] = "queued" =>
        {"changed", "outbox"} \X {sentTo[t]} \subseteq Event /\ <<"outbox", sentTo[t]>> \in Event
  <2> SUFFICES ASSUME NEW t \in Text, outbox[t] = "queued" PROVE sentTo[t] \in Chat
    BY DEF Event
  <2>1. typedFor[t] # NoChat /\ typedFor[t] \in Chat \cup {NoChat}
    BY <1>0 DEF DraftsAreOwn, DraftTypes
  <2>2. sentTo[t] = typedFor[t]
    BY <2>1 DEF DraftsStayHome
  <2> QED
    BY <2>1, <2>2
<1>1. ASSUME NEW c \in Chat, OpenConversation(c) PROVE TypeOK'
  BY <1>1, <1>w, NewestTypes DEF OpenConversation
<1>2. ASSUME NEW m \in Message, OpenHit(m) PROVE TypeOK'
  <2> DEFINE S == Around(m)
             upto == IF Cardinality({n \in S : n > m}) < Radius THEN Newest
                     ELSE CHOOSE n \in S : \A k \in S : k <= n
  <2>1. S \in SUBSET Rows /\ S # {} /\ S \in SUBSET Message
    BY <1>2, ReadsAreRows, HitIsShown DEF OpenHit, Rows
  <2>2. upto \in Message
    <3> HIDE DEF S
    <3>1. \E n \in S : \A k \in S : k <= n
      BY <2>1, LargestMessage
    <3> QED
      BY <2>1, <3>1, NewestIsLast
  <2>3. LoadChat(Subject, S, upto)
    BY <1>2 DEF OpenHit
  <2>4. WindowTypes
    <3> HIDE DEF S, upto
    <3> QED
      BY <2>1, <2>2, <2>3, LoadTypes
  <2> QED
    BY <1>2, <1>w, <2>4 DEF OpenHit
<1>3. ASSUME LoadOlder PROVE TypeOK'
  <2> DEFINE S == Window(view.chat, view.from)
  <2>1. S \in SUBSET Rows
    BY <1>0 DEF Window, Latest
  <2>2. /\ Bubbles(S) \in SUBSET (Message \X (1..2)) /\ Oldest(S) \in 0..Newest
        /\ Loading(S) \in SUBSET Picture
    <3> HIDE DEF S
    <3>1. Oldest(S) \in 0..Newest
      BY <2>1, OldestInRange DEF Rows
    <3> QED
      BY <1>0, <2>1, <3>1 DEF Bubbles, Loading, Rows, StoreTypes
  <2>3. view' = [view EXCEPT !.rows = @ \cup Bubbles(S), !.from = Oldest(S),
                             !.loading = @ \cup Loading(S)]
        /\ RequestDownload(Loading(S))
    BY <1>3 DEF LoadOlder
  <2>4. view' \in View /\ asked' \subseteq Picture
    <3> HIDE DEF S
    <3> QED
      BY <1>0, <2>2, <2>3 DEF View, RequestDownload, ChannelTypes
  <2>5. DraftTypes' /\ missed' \in BOOLEAN
    BY <1>0, <1>f, <1>3 DEF LoadOlder, CountTypes
  <2> QED
    BY <1>3, <1>w, <2>4, <2>5 DEF LoadOlder, WindowTypes
<1>4. ASSUME Activate PROVE TypeOK'
  BY <1>4, <1>w, RefreshTypes DEF Activate
<1>5. ASSUME HideOpen PROVE TypeOK'
  <2>1. DraftTypes'
    BY <1>0, <1>5, StashedTypes DEF HideOpen, DraftTypes
  <2> QED
    BY <1>5, <1>s, <1>k, <1>d, <1>c, <1>b, <2>1, ClosedIsView DEF HideOpen, TypeOK
<1>6. ASSUME NEW t \in Text, Types(t) PROVE TypeOK'
  <2>1. DraftTypes'
    BY <1>0, <1>6 DEF Types, DraftTypes
  <2> QED
    BY <1>0, <1>6, <1>s, <1>k, <1>d, <1>c, <1>b, <2>1 DEF Types, TypeOK
<1>7. ASSUME NEW t \in Text, Retry(t) PROVE TypeOK'
  <2>1. StoreTypes'
    BY <1>0, <1>7 DEF Retry, StoreTypes
  <2>2. view' \in View
    <3>1. PICK B \in SUBSET (Text \X Looks) : view' = [view EXCEPT !.outbox = B]
      BY <1>7, BubblesTypes DEF Retry
    <3> QED
      BY <1>0, <3>1 DEF View
  <2> QED
    BY <1>0, <1>7, <1>k, <1>d, <1>c, <1>f, <1>b, <2>1, <2>2 DEF Retry, TypeOK
<1>8. ASSUME Erases PROVE TypeOK'
  <2>1. DraftTypes'
    BY <1>0, <1>8 DEF Erases, DraftTypes
  <2> QED
    BY <1>0, <1>8, <1>s, <1>k, <1>d, <1>c, <1>b, <2>1 DEF Erases, TypeOK
<1>9. ASSUME Submit PROVE TypeOK'
  <2>1. DraftTypes'
    BY <1>0, <1>9 DEF Submit, DraftTypes
  <2>2. StoreTypes'
    BY <1>0, <1>9 DEF Submit, StoreTypes, DraftTypes
  <2>4. view' \in View
    <3>1. PICK B \in SUBSET (Text \X Looks) : view' = [view EXCEPT !.outbox = B]
      BY <1>9, BubblesTypes DEF Submit
    <3> QED
      BY <1>0, <3>1 DEF View
  <2> QED
    BY <1>9, <1>k, <1>d, <1>c, <1>b, <2>1, <2>2, <2>4 DEF Submit, TypeOK
<1>10. ASSUME RefreshChat PROVE TypeOK'
  <2>1. ChannelTypes'
    BY <1>0, <1>10 DEF RefreshChat, ChannelTypes, Event
  <2> QED
    BY <1>0, <1>10, <1>s, <1>k, <1>d, <1>f, <1>b, <2>1 DEF RefreshChat, TypeOK
<1>11. ASSUME NEW m \in Message, UpsertMessage(m) PROVE TypeOK'
  <2>1. StoreTypes'
    <3>1. stored[m] + 1 \in 0..2
      BY <1>0, <1>11 DEF UpsertMessage, StoreTypes
    <3> QED
      BY <1>0, <1>11, <3>1 DEF UpsertMessage, StoreTypes
  <2>2. ChannelTypes'
    BY <1>0, <1>11 DEF UpsertMessage, Signal, ChannelTypes, Event
  <2> QED
    BY <1>0, <1>11, <1>k, <1>d, <1>f, <1>b, <2>1, <2>2 DEF UpsertMessage, TypeOK
<1>12. ASSUME NEW m \in Message, Backfill(m) PROVE TypeOK'
  <2>1. StoreTypes'
    <3>0. stored[m] < 2 /\ stored' = [stored EXCEPT ![m] = @ + 1] /\ UNCHANGED <<outbox, sentTo>>
      BY <1>12 DEF Backfill
    <3>1. stored[m] \in 0..2
      BY <1>0 DEF StoreTypes
    <3>2. stored[m] + 1 \in 0..2
      BY <3>0, <3>1
    <3> QED
      BY <1>0, <3>0, <3>2 DEF StoreTypes
  <2>2. ChannelTypes'
    BY <1>0, <1>12 DEF Backfill, Signal, ChannelTypes, Event
  <2>3. DraftTypes' /\ view' = view
    BY <1>0, <1>12 DEF Backfill, DraftTypes
  <2>4. missed' \in BOOLEAN
    BY <1>0, <1>12 DEF Backfill, CountTypes
  <2>5. CountTypes'
    BY <1>0, <1>12, <2>4 DEF Backfill, CountTypes
  <2> QED
    BY <1>0, <1>12, <1>k, <1>d, <2>1, <2>2, <2>3, <2>5 DEF Backfill, TypeOK
<1>x. ASSUME NEW t \in Text, NEW answered \in BOOLEAN, Settles(t, answered), UNCHANGED sentTo
      PROVE  StoreTypes'
  <2>1. stored' \in [Message -> 0..2]
    BY <1>0, <1>x DEF Settles, StoreTypes
  <2> QED
    BY <1>0, <1>x, <2>1 DEF Settles, StoreTypes
<1>y. ASSUME NEW t \in Text, Fails(t), UNCHANGED sentTo
      PROVE  StoreTypes' /\ Fault
  BY <1>0, <1>y DEF Fails, StoreTypes
<1>13. ASSUME NEW t \in Text, SendEnds(t) PROVE TypeOK'
  <2>1. StoreTypes' /\ (UNCHANGED bounds \/ Fault)
    BY <1>13, <1>x, <1>y DEF SendEnds
  <2>2. events' \subseteq Event
    <3>1. {"changed", "outbox"} \X {sentTo[t]} \subseteq Event
      BY <1>13, <1>e DEF SendEnds
    <3>2. \E e \in SUBSET ({"changed", "outbox"} \X {sentTo[t]}) : events' = events \cup e
      <4>1. CASE Fails(t) /\ Signal({<<"outbox", sentTo[t]>>})
        <5>1. {<<"outbox", sentTo[t]>>} \in SUBSET ({"changed", "outbox"} \X {sentTo[t]})
          OBVIOUS
        <5> QED
          BY <4>1, <5>1 DEF Signal
      <4>2. CASE \E answered \in BOOLEAN :
                   Signal((IF answered THEN {"changed", "outbox"} ELSE {"outbox"})
                            \X {sentTo[t]})
        BY <4>2 DEF Signal
      <4> QED
        BY <1>13, <4>1, <4>2 DEF SendEnds
    <3> QED
      BY <1>0, <3>1, <3>2 DEF ChannelTypes
  <2>3. ChannelTypes'
    BY <1>0, <1>13, <2>2 DEF SendEnds, ChannelTypes
  <2> QED
    BY <1>0, <1>13, <1>k, <1>d, <1>f, <1>b, <2>1, <2>3 DEF SendEnds, TypeOK
<1>14. ASSUME NEW t \in Text, RetiredSendEnds(t) PROVE TypeOK'
  <2>1. StoreTypes' /\ (UNCHANGED bounds \/ Fault)
    BY <1>14, <1>x, <1>y DEF RetiredSendEnds
  <2>2. WorkerTypes'
    BY <1>0, <1>14 DEF RetiredSendEnds, WorkerTypes
  <2>3. acts' \in 0..MaxActs /\ faults' \in 0..MaxFaults
    BY <1>0, <2>1 DEF CountTypes, Fault
  <2>4. missed' = TRUE /\ excused' = excused
    BY <1>14 DEF RetiredSendEnds
  <2>5. CountTypes'
    BY <1>0, <2>3, <2>4 DEF CountTypes
  <2> QED
    BY <1>0, <1>14, <1>d, <1>c, <1>f, <2>1, <2>2, <2>5 DEF RetiredSendEnds, TypeOK
<1>z. ASSUME NEW m \in Message, RetiredScanEnds(m) PROVE TypeOK'
  <2>1. StoreTypes'
    <3>1. stored[m] + 1 \in 0..2
      BY <1>0, <1>z DEF RetiredScanEnds, StoreTypes
    <3> QED
      BY <1>0, <1>z, <3>1 DEF RetiredScanEnds, StoreTypes
  <2>2. WorkerTypes'
    BY <1>0, <1>z DEF RetiredScanEnds, WorkerTypes
  <2>3. acts' \in 0..MaxActs /\ faults' \in 0..MaxFaults
    BY <1>0, <1>z DEF RetiredScanEnds, CountTypes
  <2>4. missed' = TRUE /\ excused' = excused
    BY <1>z DEF RetiredScanEnds
  <2>5. CountTypes'
    BY <1>0, <2>3, <2>4 DEF CountTypes
  <2> QED
    BY <1>0, <1>z, <1>d, <1>c, <1>f, <2>1, <2>2, <2>5 DEF RetiredScanEnds, TypeOK
<1>15. ASSUME NEW g \in Picture, ReadRequest(g) PROVE TypeOK'
  <2>1. DownloadTypes'
    BY <1>0, <1>15 DEF ReadRequest, DownloadTypes
  <2>2. ChannelTypes'
    BY <1>0, <1>15 DEF ReadRequest, ChannelTypes
  <2>3. CountTypes'
    BY <1>0, <1>15 DEF ReadRequest, CountTypes
  <2> QED
    BY <1>0, <1>15, <1>s, <1>k, <1>f, <2>1, <2>2, <2>3 DEF ReadRequest, TypeOK
<1>16. ASSUME NEW g \in Picture, DownloadBegins(g) PROVE TypeOK'
  <2>1. DownloadTypes'
    BY <1>0, <1>16 DEF DownloadBegins, DownloadTypes
  <2> QED
    BY <1>0, <1>16, <1>s, <1>k, <1>c, <1>f, <1>b, <2>1 DEF DownloadBegins, TypeOK
<1>17. ASSUME NEW g \in Picture, RetiredEnds(g) PROVE TypeOK'
  <2>1. DownloadTypes'
    BY <1>0, <1>17 DEF RetiredEnds, Lands, DownloadTypes
  <2> QED
    BY <1>0, <1>17, <1>s, <1>k, <1>c, <1>f, <1>b, <2>1 DEF RetiredEnds, TypeOK
<1>18. ASSUME DownloadEnds PROVE TypeOK'
  <2>0. busy \in Picture /\ busy \in seen \ queue
    BY <1>0, <1>18 DEF DownloadEnds, DownloadTypes
  <2>1. DownloadTypes'
    BY <1>0, <1>18, <2>0 DEF DownloadEnds, Lands, DownloadTypes
  <2>2. ChannelTypes'
    BY <1>0, <1>18, <2>0 DEF DownloadEnds, Signal, ChannelTypes, Event
  <2> QED
    BY <1>0, <1>18, <1>s, <1>k, <1>f, <1>b, <2>1, <2>2 DEF DownloadEnds, TypeOK
<1>19. ASSUME DownloadFails PROVE TypeOK'
  <2>0. busy \in Picture /\ busy \in seen \ queue
    BY <1>0, <1>19 DEF DownloadFails, DownloadTypes
  <2>1. DownloadTypes'
    BY <1>0, <1>19, <2>0 DEF DownloadFails, ForgetRequest, DownloadTypes
  <2>2. ChannelTypes'
    BY <1>0, <1>19 DEF DownloadFails, ChannelTypes
  <2>3. acts' \in 0..MaxActs /\ faults' \in 0..MaxFaults
    BY <1>0, <1>19 DEF DownloadFails, Fault, CountTypes
  <2>4. CountTypes'
    BY <1>0, <1>19, <2>0, <2>3 DEF DownloadFails, CountTypes
  <2> QED
    BY <1>0, <1>19, <1>s, <1>k, <1>f, <2>1, <2>2, <2>4 DEF DownloadFails, TypeOK
<1>20. ASSUME NEW e \in Event, BroadcastToNobody(e) PROVE TypeOK'
  <2>1. ChannelTypes'
    BY <1>0, <1>20 DEF BroadcastToNobody, ChannelTypes
  <2> QED
    BY <1>0, <1>20, <1>s, <1>k, <1>d, <1>f, <1>b, <2>1 DEF BroadcastToNobody, TypeOK
<1>21. ASSUME NEW e \in Event, HandleEvent(e) PROVE TypeOK'
  BY <1>21, <1>w, EventTypes DEF HandleEvent
<1>22. ASSUME LinkConnects PROVE TypeOK'
  BY <1>22, <1>w, RefreshTypes DEF LinkConnects, HelloHeard
<1>24. ASSUME LinkDrops PROVE TypeOK'
  <2>1. ChannelTypes'
    BY <1>0, <1>24 DEF LinkDrops, ChannelTypes
  <2> QED
    BY <1>0, <1>24, <1>s, <1>k, <1>d, <1>f, <1>b, <2>1 DEF LinkDrops, TypeOK
<1>v. ASSUME NEW D \in SUBSET Text, Claimed(D), UNCHANGED <<stored, sentTo>> PROVE StoreTypes'
  BY <1>0, <1>v DEF Claimed, StoreTypes
<1>25. ASSUME StopBackend PROVE TypeOK'
  <2>0. StoreTypes'
    BY <1>25, <1>v DEF StopBackend
  <2>1. DownloadTypes'
    BY <1>0, <1>25 DEF StopBackend, Current, DownloadTypes
  <2>2. ChannelTypes'
    BY <1>0, <1>25 DEF StopBackend, ChannelTypes
  <2>3. acts' \in 0..MaxActs /\ faults' \in 0..MaxFaults
    BY <1>0, <1>25 DEF StopBackend, Fault, CountTypes
  <2>4. excused' \subseteq Picture
    BY <1>0, <1>25 DEF StopBackend, Current, CountTypes
  <2>5. missed' \in BOOLEAN
    BY <1>0, <1>25 DEF StopBackend, CountTypes
  <2>6. CountTypes'
    BY <2>3, <2>4, <2>5 DEF CountTypes
  <2>7. WorkerTypes'
    BY <1>0, <1>25 DEF StopBackend, WorkerTypes
  <2> QED
    BY <1>0, <1>25, <1>f, <2>0, <2>1, <2>2, <2>6, <2>7 DEF StopBackend, TypeOK
<1>26. ASSUME AgentEnds PROVE TypeOK'
  <2>0. StoreTypes'
    BY <1>26, <1>v DEF AgentEnds
  <2>1. DownloadTypes'
    BY <1>0, <1>26 DEF AgentEnds, DownloadTypes
  <2>2. ChannelTypes'
    BY <1>0, <1>26 DEF AgentEnds, ChannelTypes
  <2>3. WorkerTypes'
    BY <1>26 DEF AgentEnds, WorkerTypes
  <2> QED
    BY <1>0, <1>26, <1>f, <1>b, <2>0, <2>1, <2>2, <2>3 DEF AgentEnds, TypeOK
<1>u. ASSUME StartBackend PROVE TypeOK'
  <2>1. StoreTypes'
    BY <1>0, <1>u DEF StartBackend, StoreTypes
  <2>2. WorkerTypes'
    BY <1>0, <1>u DEF StartBackend, WorkerTypes
  <2>3. missed' \in BOOLEAN
    BY <1>0, <1>u DEF StartBackend, CountTypes
  <2>4. CountTypes'
    BY <1>0, <1>u, <2>3 DEF StartBackend, CountTypes
  <2> QED
    BY <1>0, <1>u, <1>d, <1>c, <1>f, <2>1, <2>2, <2>4 DEF StartBackend, TypeOK
<1>27. ASSUME UNCHANGED vars PROVE TypeOK'
  BY <1>0, <1>27, <1>s, <1>k, <1>d, <1>c, <1>f, <1>b DEF vars, TypeOK
<1> QED
  BY <1>1, <1>2, <1>3, <1>4, <1>5, <1>6, <1>7, <1>8, <1>9, <1>10, <1>11, <1>12, <1>13,
     <1>14, <1>15, <1>16, <1>17, <1>18, <1>19, <1>20, <1>0, <1>21, <1>22, <1>24, <1>25,
     <1>26, <1>27, <1>z, <1>u DEF Next, UserStep, WorkerStep, ChannelStep, BackendStep, ChannelTypes

(***************************************************************************)
(* The drafts.  A switch of the conversation puts the composer under the   *)
(* one that was open before it shows the draft of the other.               *)
(***************************************************************************)
DraftsInv == DraftsStayHome /\ DraftsAreOwn

LEMMA SwitchKeepsDrafts ==
  ASSUME ThreadInv, NEW c \in Chat, NEW S, NEW upto, LoadChat(c, S, upto),
         UNCHANGED <<outbox, sentTo>>
  PROVE  DraftsInv'
<1>0. /\ view.chat \in Chat \cup {NoChat} /\ view'.chat = c
      /\ drafts \in [Chat -> Text \cup {NoText}]
      /\ typedFor' = typedFor /\ typedFor \in [Text -> Chat \cup {NoChat}]
  BY DEF ThreadInv, TypeOK, View, DraftTypes, LoadChat, Rendered
<1>1. CASE view.chat = c
  BY <1>0, <1>1 DEF ThreadInv, LoadChat, DraftsInv, DraftsStayHome, DraftsAreOwn, Belongs
<1>2. CASE view.chat = NoChat
  <2>1. drafts' = drafts /\ composer' = drafts[c]
    BY <1>0, <1>2 DEF LoadChat, Stashed
  <2> QED
    BY <1>0, <1>2, <2>1 DEF ThreadInv, DraftsInv, DraftsStayHome, DraftsAreOwn, Belongs
<1>3. CASE view.chat # c /\ view.chat # NoChat
  <2>1. /\ drafts' = [drafts EXCEPT ![view.chat] = composer]
        /\ drafts'[view.chat] = composer /\ composer' = drafts[c]
        /\ \A d \in Chat \ {view.chat} : drafts'[d] = drafts[d]
    BY <1>0, <1>3 DEF LoadChat, Stashed
  <2>2. DraftsStayHome'
    BY <1>0, <1>3, <2>1 DEF ThreadInv, DraftsStayHome
  <2>3. DraftsAreOwn'
    BY <1>0, <1>3, <2>1 DEF ThreadInv, DraftsAreOwn, Belongs
  <2> QED
    BY <2>2, <2>3 DEF DraftsInv
<1> QED
  BY <1>0, <1>1, <1>2, <1>3

LEMMA DraftStep ==
  ASSUME ThreadInv, [Next]_vars
  PROVE  DraftsInv'
<1>0. /\ view.chat \in Chat \cup {NoChat}
      /\ drafts \in [Chat -> Text \cup {NoText}] /\ composer \in Text \cup {NoText}
      /\ typedFor \in [Text -> Chat \cup {NoChat}]
      /\ outbox \in [Text -> {"none", "queued", "sending", "failed", "sent"}]
      /\ sentTo \in [Text -> Chat \cup {NoChat}]
      /\ DraftsStayHome /\ DraftsAreOwn
  BY DEF ThreadInv, TypeOK, View, DraftTypes, StoreTypes
<1>f. ASSUME UNCHANGED <<outbox, sentTo, draftVars>>, view'.chat = view.chat PROVE DraftsInv'
  BY <1>0, <1>f DEF DraftsInv, DraftsStayHome, DraftsAreOwn, Belongs
<1>n. ASSUME NEW c \in Chat, LoadNewest(c), UNCHANGED <<outbox, sentTo>> PROVE DraftsInv'
  BY <1>n, SwitchKeepsDrafts DEF LoadNewest
<1>r. ASSUME RefreshFromRepo, UNCHANGED <<outbox, sentTo>> PROVE DraftsInv'
  BY <1>0, <1>r, <1>f, <1>n DEF RefreshFromRepo, NothingShown
\* Texts that have been enqueued change their state.
<1>o. ASSUME \A u \in Text : outbox'[u] = "none" <=> outbox[u] = "none",
             UNCHANGED <<sentTo, draftVars>>, view'.chat = view.chat
      PROVE  DraftsInv'
  <2>1. DraftsStayHome'
    BY <1>0, <1>o DEF DraftsStayHome
  <2>2. \A u, c : Belongs(u, c) /\ u \in Text \cup {NoText} => Belongs(u, c)'
    BY <1>o DEF Belongs
  <2>3. DraftsAreOwn'
    BY <1>0, <1>o, <2>2 DEF DraftsAreOwn
  <2> QED
    BY <2>1, <2>3 DEF DraftsInv
<1>d. ASSUME NEW D \in SUBSET Text, Claimed(D)
      PROVE  \A u \in Text : outbox'[u] = "none" <=> outbox[u] = "none"
  BY <1>0, <1>d DEF Claimed
<1>e. ASSUME NEW t \in Text, outbox[t] # "none", NEW s \in {"queued", "failed", "sent"},
             outbox' = [outbox EXCEPT ![t] = s]
      PROVE  \A u \in Text : outbox'[u] = "none" <=> outbox[u] = "none"
  BY <1>0, <1>e
<1>1. ASSUME NEW c \in Chat, OpenConversation(c) PROVE DraftsInv'
  BY <1>1, <1>n DEF OpenConversation
<1>2. ASSUME NEW m \in Message, OpenHit(m) PROVE DraftsInv'
  BY <1>2, SwitchKeepsDrafts DEF OpenHit
<1>3. ASSUME LoadOlder PROVE DraftsInv'
  BY <1>0, <1>3, <1>f DEF LoadOlder, ThreadInv, TypeOK, View
<1>4. ASSUME Activate PROVE DraftsInv'
  BY <1>4, <1>r DEF Activate
<1>5. ASSUME HideOpen PROVE DraftsInv'
  <2>1. /\ drafts' = [drafts EXCEPT ![view.chat] = composer]
        /\ view'.chat = NoChat /\ view.chat \in Chat
        /\ UNCHANGED <<outbox, sentTo, composer, typedFor>>
    BY <1>0, <1>5 DEF HideOpen, Stashed, Closed
  <2>2. drafts'[view.chat] = composer /\ \A d \in Chat \ {view.chat} : drafts'[d] = drafts[d]
    BY <1>0, <2>1
  <2>3. DraftsStayHome'
    BY <1>0, <2>1, <2>2 DEF DraftsStayHome
  <2>4. DraftsAreOwn'
    BY <1>0, <2>1, <2>2 DEF DraftsAreOwn, Belongs
  <2> QED
    BY <2>3, <2>4 DEF DraftsInv
<1>6. ASSUME NEW t \in Text, Types(t) PROVE DraftsInv'
  <2>1. /\ typedFor'[t] = view.chat /\ composer' = t /\ view.chat \in Chat
        /\ \A u \in Text \ {t} : typedFor'[u] = typedFor[u]
        /\ typedFor[t] = NoChat /\ composer = NoText
        /\ UNCHANGED <<outbox, sentTo, view, drafts>>
    BY <1>0, <1>6 DEF Types
  <2>2. outbox[t] = "none"
    BY <1>0, <2>1 DEF DraftsAreOwn
  <2>3. DraftsStayHome'
    BY <1>0, <2>1, <2>2 DEF DraftsStayHome
  <2>4. DraftsAreOwn'
    BY <1>0, <2>1, <2>2 DEF DraftsAreOwn, Belongs
  <2> QED
    BY <2>3, <2>4 DEF DraftsInv
<1>7. ASSUME NEW t \in Text, Retry(t) PROVE DraftsInv'
  <2>1. view'.chat = view.chat /\ UNCHANGED <<sentTo, draftVars>>
    BY <1>7 DEF Retry, ThreadInv, TypeOK, View
  <2>2. outbox[t] # "none"
    BY <1>7 DEF Retry, ThreadInv, BubblesHaveRows, Looks
  <2>3. \A u \in Text : outbox'[u] = "none" <=> outbox[u] = "none"
    BY <1>7, <1>e, <2>2 DEF Retry
  <2> QED
    BY <1>o, <2>1, <2>3
<1>8. ASSUME Erases PROVE DraftsInv'
  <2>1. /\ composer' = NoText /\ view.chat \in Chat /\ composer \in Text
        /\ typedFor'[composer] = NoChat
        /\ \A u \in Text \ {composer} : typedFor'[u] = typedFor[u]
        /\ UNCHANGED <<outbox, sentTo, view, drafts>>
    BY <1>0, <1>8 DEF Erases
  <2>2. typedFor[composer] = view.chat /\ outbox[composer] = "none"
    BY <1>0, <2>1 DEF DraftsAreOwn, Belongs
  <2>3. DraftsStayHome'
    BY <1>0, <2>1, <2>2 DEF DraftsStayHome
  <2>4. DraftsAreOwn'
    BY <1>0, <2>1, <2>2 DEF DraftsAreOwn, Belongs
  <2> QED
    BY <2>3, <2>4 DEF DraftsInv
<1>9. ASSUME Submit PROVE DraftsInv'
  <2>1. /\ composer' = NoText /\ view.chat \in Chat /\ composer \in Text
        /\ view'.chat = view.chat /\ typedFor' = typedFor
        /\ outbox'[composer] = "queued" /\ sentTo'[composer] = view.chat
        /\ \A u \in Text \ {composer} : outbox'[u] = outbox[u] /\ sentTo'[u] = sentTo[u]
        /\ \A c \in Chat \ {view.chat} : drafts'[c] = drafts[c]
    BY <1>0, <1>9 DEF Submit, ThreadInv, TypeOK, View
  <2>2. typedFor[composer] = view.chat /\ outbox[composer] = "none"
    BY <1>0, <2>1 DEF DraftsAreOwn, Belongs
  <2>3. DraftsStayHome'
    BY <1>0, <2>1, <2>2 DEF DraftsStayHome
  <2>4. DraftsAreOwn'
    BY <1>0, <2>1, <2>2 DEF DraftsAreOwn, Belongs
  <2> QED
    BY <2>3, <2>4 DEF DraftsInv
<1>10. ASSUME RefreshChat PROVE DraftsInv'
  BY <1>10, <1>f DEF RefreshChat
<1>11. ASSUME NEW m \in Message, UpsertMessage(m) \/ Backfill(m) \/ RetiredScanEnds(m)
       PROVE  DraftsInv'
  BY <1>11, <1>f DEF UpsertMessage, Backfill, RetiredScanEnds
<1>12. ASSUME NEW t \in Text, SendEnds(t) \/ RetiredSendEnds(t) PROVE DraftsInv'
  <2>1. UNCHANGED <<sentTo, view, draftVars>>
    BY <1>12 DEF SendEnds, RetiredSendEnds
  <2>2. outbox[t] # "none"
    BY <1>12 DEF SendEnds, RetiredSendEnds, ThreadInv, BubblesHaveRows
  <2>3. \E s \in {"failed", "sent"} : outbox' = [outbox EXCEPT ![t] = s]
    BY <1>12 DEF SendEnds, RetiredSendEnds, Settles, Fails
  <2>4. \A u \in Text : outbox'[u] = "none" <=> outbox[u] = "none"
    BY <1>e, <2>2, <2>3
  <2> QED
    BY <1>o, <2>1, <2>4
<1>13. ASSUME NEW g \in Picture, ReadRequest(g) \/ DownloadBegins(g) \/ RetiredEnds(g)
       PROVE  DraftsInv'
  BY <1>13, <1>f DEF ReadRequest, DownloadBegins, RetiredEnds
<1>14. ASSUME DownloadEnds \/ DownloadFails PROVE DraftsInv'
  BY <1>14, <1>f DEF DownloadEnds, DownloadFails
<1>15. ASSUME NEW e \in Event, BroadcastToNobody(e) PROVE DraftsInv'
  BY <1>15, <1>f DEF BroadcastToNobody
<1>16. ASSUME NEW e \in Event, HandleEvent(e) PROVE DraftsInv'
  <2>0. UNCHANGED <<outbox, sentTo>> /\ view \in View
    BY <1>16 DEF HandleEvent, ThreadInv, TypeOK
  <2>1. CASE OnChanged(e[2])
    BY <2>0, <2>1, <1>r, <1>f DEF OnChanged, NothingShown
  <2>2. CASE OnOutboxChanged(e[2])
    BY <2>0, <2>2, <1>f DEF OnOutboxChanged, RefreshOutbox, View
  <2>3. CASE e[1] = "page" /\ OnBackfillPage(e[2])
    <3>1. e[1] = "page" => e[2] \in Chat
      BY DEF Event
    <3> QED
      BY <2>0, <2>3, <3>1, <1>n, <1>f DEF OnBackfillPage, NothingShown
  <2>4. CASE OnAttachmentReady(e[2])
    BY <2>0, <2>4, <1>f DEF OnAttachmentReady, View
  <2> QED
    BY <1>16, <2>1, <2>2, <2>3, <2>4 DEF HandleEvent
<1>17. ASSUME LinkDrops PROVE DraftsInv'
  BY <1>17, <1>f DEF LinkDrops
<1>18. ASSUME LinkConnects PROVE DraftsInv'
  BY <1>18, <1>r DEF LinkConnects, HelloHeard
<1>19. ASSUME StopBackend \/ StartBackend \/ AgentEnds PROVE DraftsInv'
  <2>1. UNCHANGED <<sentTo, view, draftVars>>
    BY <1>19 DEF StopBackend, StartBackend, AgentEnds
  <2>2. CASE StartBackend
    <3>1. \A u \in Text : outbox'[u] = "none" <=> outbox[u] = "none"
      BY <1>0, <2>2 DEF StartBackend
    <3> QED
      BY <1>o, <2>1, <3>1
  <2>3. CASE StopBackend \/ AgentEnds
    BY <1>d, <1>o, <2>1, <2>3 DEF StopBackend, AgentEnds
  <2> QED
    BY <1>19, <2>2, <2>3
<1>20. ASSUME UNCHANGED vars PROVE DraftsInv'
  BY <1>20, <1>f DEF vars
<1> QED
  BY <1>1, <1>2, <1>3, <1>4, <1>5, <1>6, <1>7, <1>8, <1>9, <1>10, <1>11, <1>12, <1>13,
     <1>14, <1>15, <1>16, <1>17, <1>18, <1>19, <1>20
     DEF Next, UserStep, WorkerStep, ChannelStep, BackendStep, ThreadInv, TypeOK, ChannelTypes

(***************************************************************************)
(* The bubbles.  Whatever changes the look of a row tells the open         *)
(* conversation, or is counted as missed; whatever renders shows the rows. *)
(***************************************************************************)
BubbleInv == BubblesHaveRows /\ NoBubbleForgotten

\* The view shows the bubbles of the conversation it has open.
ShowsPending == view'.outbox = BubblesOf(outbox', sentTo', view'.chat)

LEMMA NewestShowsPending ==
  ASSUME NEW c \in Chat, LoadNewest(c), UNCHANGED <<outbox, sentTo>>
  PROVE  ShowsPending
BY DEF LoadNewest, LoadChat, Rendered, Pending, ShowsPending

LEMMA BubbleStep ==
  ASSUME ThreadInv, NoBubbleForgotten, [Next]_vars, DraftsInv'
  PROVE  BubbleInv'
<1>0. /\ view.chat \in Chat \cup {NoChat} /\ view \in View
      /\ view.outbox \subseteq Text \X Looks
      /\ outbox \in [Text -> {"none", "queued", "sending", "failed", "sent"}]
      /\ sentTo \in [Text -> Chat \cup {NoChat}]
      /\ BubblesHaveRows /\ events \subseteq Event
  BY DEF ThreadInv, TypeOK, View, StoreTypes, ChannelTypes
\* The step renders.
<1>p. ASSUME ShowsPending, UNCHANGED lingering,
             \A u \in Text : outbox[u] # "none" => outbox'[u] # "none"
      PROVE  BubbleInv'
  <2>1. \A t \in Text, look \in Looks : <<t, look>> \in view'.outbox => outbox'[t] # "none"
    BY <1>p DEF ShowsPending, BubblesOf, PendingIn
  <2>2. BubblesHaveRows'
    <3>1. \A u \in Text : outbox'[u] # "none" => sentTo'[u] # NoChat
      BY DEF DraftsInv, DraftsStayHome, DraftsAreOwn
    <3>2. PendingIn(outbox', sentTo', NoChat) = {}
      BY <3>1 DEF PendingIn
    <3>3. view'.chat = NoChat => view'.outbox = {}
      BY <1>p, <3>2 DEF ShowsPending, BubblesOf
    <3> QED
      BY <1>0, <1>p, <2>1, <3>3 DEF BubblesHaveRows
  <2>3. NoBubbleForgotten'
    BY <1>p DEF ShowsPending, NoBubbleForgotten, Pending
  <2> QED
    BY <2>2, <2>3 DEF BubbleInv
\* The bubbles stay, and no row that has one changes its look unheard.
<1>k. ASSUME view'.outbox = view.outbox, view'.chat = view.chat,
             \A u \in Text : outbox[u] # "none" => outbox'[u] # "none",
             \A u \in Text : u \in lingering' => u \in lingering \/ outbox'[u] # "none",
             \/ link' # "up"
             \/ missed'
             \/ <<"outbox", view.chat>> \in events'
             \/ /\ link = "up" /\ UNCHANGED <<missed, sentTo>>
                /\ <<"outbox", view.chat>> \in events => <<"outbox", view.chat>> \in events'
                /\ \A u \in Text : sentTo[u] = view.chat => SameLook(outbox'[u], outbox[u])
      PROVE  BubbleInv'
  <2>1. BubblesHaveRows'
    BY <1>0, <1>k DEF BubblesHaveRows
  <2>2. NoBubbleForgotten'
    <3>1. CASE link' # "up" \/ missed' \/ <<"outbox", view.chat>> \in events'
      BY <1>k, <3>1 DEF NoBubbleForgotten
    <3>2. CASE /\ link = "up" /\ UNCHANGED <<missed, sentTo>>
               /\ <<"outbox", view.chat>> \in events => <<"outbox", view.chat>> \in events'
               /\ \A u \in Text : sentTo[u] = view.chat => SameLook(outbox'[u], outbox[u])
      <4>1. BubblesOf(outbox', sentTo, view.chat) = BubblesOf(outbox, sentTo, view.chat)
        BY <3>2, SameBubbles
      <4> QED
        BY <1>k, <3>2, <4>1 DEF NoBubbleForgotten, Pending
    <3> QED
      BY <1>k, <3>1, <3>2
  <2> QED
    BY <2>1, <2>2 DEF BubbleInv
<1>n. ASSUME NEW c \in Chat, LoadNewest(c), UNCHANGED <<outbox, sentTo, lingering>>
      PROVE  BubbleInv'
  BY <1>n, <1>p, NewestShowsPending
\* The step has nothing to do with bubbles.
<1>s. ASSUME UNCHANGED <<outbox, sentTo, lingering, link>>, view'.outbox = view.outbox,
             view'.chat = view.chat, missed' = missed \/ missed',
             <<"outbox", view.chat>> \in events => <<"outbox", view.chat>> \in events'
      PROVE  BubbleInv'
  BY <1>k, <1>s DEF SameLook
<1>r. ASSUME RefreshFromRepo, UNCHANGED <<outbox, sentTo, lingering>>, view.chat # NoChat
      PROVE  BubbleInv'
  BY <1>0, <1>n, <1>r DEF RefreshFromRepo
<1>h. ASSUME NothingShown, UNCHANGED <<outbox, sentTo, lingering, link>>,
             <<"outbox", view.chat>> \in events => <<"outbox", view.chat>> \in events'
      PROVE  BubbleInv'
  BY <1>h, <1>s DEF NothingShown
\* The empty view has no bubbles, and no text is for it.
<1>e. ASSUME view'.chat = NoChat, view'.outbox = {}, UNCHANGED lingering,
             \A u \in Text : outbox[u] # "none" => outbox'[u] # "none"
      PROVE  BubbleInv'
  <2>1. \A u \in Text : outbox'[u] # "none" => sentTo'[u] # NoChat
    BY DEF DraftsInv, DraftsStayHome, DraftsAreOwn
  <2>2. PendingIn(outbox', sentTo', NoChat) = {}
    BY <2>1 DEF PendingIn
  <2>3. ShowsPending
    BY <1>e, <2>2 DEF ShowsPending, BubblesOf
  <2> QED
    BY <1>e, <1>p, <2>3
<1>1. ASSUME NEW c \in Chat, OpenConversation(c) PROVE BubbleInv'
  BY <1>1, <1>n DEF OpenConversation
<1>2. ASSUME NEW m \in Message, OpenHit(m) PROVE BubbleInv'
  BY <1>2, <1>p DEF OpenHit, LoadChat, Rendered, Pending, ShowsPending
<1>3. ASSUME LoadOlder PROVE BubbleInv'
  <2>1. view'.outbox = view.outbox /\ view'.chat = view.chat
    BY <1>0, <1>3 DEF LoadOlder, View
  <2> QED
    BY <1>3, <1>s, <2>1 DEF LoadOlder
<1>4. ASSUME Activate PROVE BubbleInv'
  BY <1>4, <1>r, <1>h DEF Activate, RefreshFromRepo
<1>5. ASSUME HideOpen PROVE BubbleInv'
  BY <1>5, <1>e DEF HideOpen, Closed
<1>6. ASSUME NEW t \in Text, Types(t) PROVE BubbleInv'
  BY <1>6, <1>s DEF Types
<1>25. ASSUME Erases PROVE BubbleInv'
  BY <1>25, <1>s DEF Erases
<1>7. ASSUME NEW t \in Text, Retry(t) PROVE BubbleInv'
  <2>1. ShowsPending
    BY <1>0, <1>7 DEF Retry, ShowsPending, View
  <2>2. \A u \in Text : outbox[u] # "none" => outbox'[u] # "none"
    BY <1>0, <1>7 DEF Retry
  <2> QED
    BY <1>7, <1>p, <2>1, <2>2 DEF Retry
<1>8. ASSUME Submit PROVE BubbleInv'
  <2>1. ShowsPending
    BY <1>0, <1>8 DEF Submit, ShowsPending, View
  <2>2. \A u \in Text : outbox[u] # "none" => outbox'[u] # "none"
    BY <1>0, <1>8 DEF Submit
  <2> QED
    BY <1>8, <1>p, <2>1, <2>2 DEF Submit
<1>9. ASSUME RefreshChat PROVE BubbleInv'
  BY <1>9, <1>s DEF RefreshChat
<1>10. ASSUME NEW m \in Message, UpsertMessage(m) PROVE BubbleInv'
  BY <1>10, <1>s DEF UpsertMessage, Signal
<1>11. ASSUME NEW m \in Message, Backfill(m) PROVE BubbleInv'
  <2>1. missed' = missed \/ missed'
    BY <1>11 DEF Backfill, ThreadInv, TypeOK, CountTypes
  <2> QED
    BY <1>11, <1>s, <2>1 DEF Backfill, Signal
<1>12. ASSUME NEW m \in Message, RetiredScanEnds(m) PROVE BubbleInv'
  <2>1. \A u \in Text : u \in lingering' => u \in lingering
    BY <1>12 DEF RetiredScanEnds
  <2> QED
    BY <1>12, <1>k, <2>1 DEF RetiredScanEnds
\* The end of an attempt changes the look of its own row only.
<1>t. ASSUME NEW t \in Text,
             (\E answered \in BOOLEAN : Settles(t, answered)) \/ Fails(t)
      PROVE  /\ \A u \in Text \ {t} : outbox'[u] = outbox[u]
             /\ \A u \in Text : outbox[u] # "none" => outbox'[u] # "none"
  BY <1>0, <1>t DEF Settles, Fails
<1>13. ASSUME NEW t \in Text, SendEnds(t) PROVE BubbleInv'
  <2>1. /\ \A u \in Text \ {t} : outbox'[u] = outbox[u]
        /\ \A u \in Text : outbox[u] # "none" => outbox'[u] # "none"
        /\ UNCHANGED <<sentTo, lingering, link, missed, view>>
    BY <1>13, <1>t DEF SendEnds
  <2>2. events \subseteq events' /\ <<"outbox", sentTo[t]>> \in events'
    <3>1. CASE Signal({<<"outbox", sentTo[t]>>})
      BY <3>1 DEF Signal
    <3>2. CASE \E answered \in BOOLEAN :
                 Signal((IF answered THEN {"changed", "outbox"} ELSE {"outbox"})
                          \X {sentTo[t]})
      BY <3>2 DEF Signal
    <3> QED
      BY <1>13, <3>1, <3>2 DEF SendEnds
  <2>3. CASE sentTo[t] = view.chat
    BY <1>k, <2>1, <2>2, <2>3
  <2>4. CASE sentTo[t] # view.chat
    <3>1. \A u \in Text : sentTo[u] = view.chat => SameLook(outbox'[u], outbox[u])
      BY <2>1, <2>4 DEF SameLook
    <3>2. CASE link = "up"
      BY <1>k, <2>1, <2>2, <3>1, <3>2
    <3>3. CASE link # "up"
      BY <1>k, <2>1, <3>3
    <3> QED
      BY <3>2, <3>3
  <2> QED
    BY <2>3, <2>4
<1>14. ASSUME NEW t \in Text, RetiredSendEnds(t) PROVE BubbleInv'
  <2>1. \A u \in Text : outbox[u] # "none" => outbox'[u] # "none"
    BY <1>14, <1>t DEF RetiredSendEnds
  <2>2. \A u \in Text : u \in lingering' => u \in lingering
    BY <1>14 DEF RetiredSendEnds
  <2>3. missed' /\ view' = view
    BY <1>14 DEF RetiredSendEnds
  <2> QED
    BY <1>k, <2>1, <2>2, <2>3
<1>15. ASSUME NEW g \in Picture, ReadRequest(g) \/ DownloadBegins(g) \/ RetiredEnds(g)
       PROVE  BubbleInv'
  BY <1>15, <1>s DEF ReadRequest, DownloadBegins, RetiredEnds
<1>16. ASSUME DownloadEnds \/ DownloadFails PROVE BubbleInv'
  BY <1>16, <1>s DEF DownloadEnds, DownloadFails, Signal
<1>17. ASSUME NEW e \in events, BroadcastToNobody(e) PROVE BubbleInv'
  BY <1>17, <1>k DEF BroadcastToNobody
<1>18. ASSUME NEW e \in events, HandleEvent(e) PROVE BubbleInv'
  <2>0. /\ UNCHANGED <<outbox, sentTo, lingering, link>> /\ events' = events \ {e}
        /\ e \in Event
    BY <1>0, <1>18 DEF HandleEvent
  <2>1. CASE e[1] = "changed" /\ OnChanged(e[2])
    <3>1. e # <<"outbox", view.chat>>
      BY <2>1
    <3>2. e[2] \in Chat
      BY <2>0, <2>1 DEF Event
    <3>3. CASE view.chat = e[2]
      BY <2>0, <2>1, <3>2, <3>3, <1>r DEF OnChanged, ThreadViewAssumption
    <3>4. CASE view.chat # e[2]
      BY <2>0, <2>1, <3>1, <3>4, <1>h DEF OnChanged
    <3> QED
      BY <3>3, <3>4
  <2>2. CASE e[1] = "outbox" /\ OnOutboxChanged(e[2])
    <3>1. CASE view.chat = e[2]
      <4>1. ShowsPending
        BY <1>0, <2>0, <2>2, <3>1
           DEF OnOutboxChanged, RefreshOutbox, ShowsPending, Pending, View
      <4> QED
        BY <2>0, <4>1, <1>p
    <3>2. CASE view.chat # e[2]
      <4>1. e # <<"outbox", view.chat>>
        BY <3>2
      <4>2. view' = view /\ missed' = missed
        BY <2>2, <3>2 DEF OnOutboxChanged, RefreshOutbox
      <4> QED
        BY <2>0, <4>1, <4>2, <1>s
    <3> QED
      BY <3>1, <3>2
  <2>3. CASE e[1] = "page" /\ OnBackfillPage(e[2])
    <3>1. e # <<"outbox", view.chat>>
      BY <2>3
    <3>2. e[2] \in Chat
      BY <2>0, <2>3 DEF Event
    <3>3. LoadNewest(e[2]) \/ NothingShown
      BY <2>3 DEF OnBackfillPage
    <3> QED
      BY <2>0, <3>1, <3>2, <3>3, <1>n, <1>h
  <2>4. CASE e[1] = "ready" /\ OnAttachmentReady(e[2])
    <3>1. e # <<"outbox", view.chat>>
      BY <2>4
    <3>2. view'.outbox = view.outbox /\ view'.chat = view.chat /\ missed' = missed
      BY <1>0, <2>4 DEF OnAttachmentReady, View
    <3> QED
      BY <2>0, <3>1, <3>2, <1>s
  <2> QED
    BY <1>18, <2>1, <2>2, <2>3, <2>4 DEF HandleEvent
<1>19. ASSUME LinkConnects PROVE BubbleInv'
  <2>1. UNCHANGED <<outbox, sentTo, lingering>> /\ RefreshFromRepo
    BY <1>19 DEF LinkConnects, HelloHeard
  <2>2. CASE view.chat = NoChat
    <3>1. view' = view
      BY <2>1, <2>2 DEF RefreshFromRepo, NothingShown
    <3>2. view.outbox = {}
      BY <1>0, <2>2 DEF BubblesHaveRows
    <3> QED
      BY <2>1, <2>2, <3>1, <3>2, <1>e
  <2> QED
    BY <2>1, <2>2, <1>r
<1>20. ASSUME LinkDrops PROVE BubbleInv'
  BY <1>20, <1>k DEF LinkDrops
\* A claimed row keeps its look.
<1>d. ASSUME NEW D \in SUBSET Text, Claimed(D)
      PROVE  \A u \in Text : /\ SameLook(outbox'[u], outbox[u])
                             /\ outbox[u] # "none" => outbox'[u] # "none"
                             /\ u \in D => outbox'[u] # "none"
  BY <1>0, <1>d DEF Claimed, SameLook
<1>21. ASSUME StopBackend PROVE BubbleInv'
  <2>1. PICK D \in SUBSET Text : Claimed(D) /\ lingering' = lingering \cup D \cup {"scan"}
    BY <1>21 DEF StopBackend
  <2>2. \A u \in Text : /\ SameLook(outbox'[u], outbox[u])
                        /\ outbox[u] # "none" => outbox'[u] # "none"
                        /\ u \in lingering' => u \in lingering \/ outbox'[u] # "none"
    BY <1>d, <2>1
  <2>3. UNCHANGED <<sentTo, link, view>>
    BY <1>21 DEF StopBackend
  <2>4. missed' \/ (missed' = missed /\ events' = events)
    BY <1>21 DEF StopBackend, ThreadInv, TypeOK, CountTypes
  <2>5. CASE missed' \/ link # "up"
    BY <1>k, <2>2, <2>3, <2>5
  <2>6. CASE missed' = missed /\ events' = events /\ link = "up"
    BY <1>k, <2>2, <2>3, <2>6
  <2> QED
    BY <2>4, <2>5, <2>6
<1>22. ASSUME StartBackend PROVE BubbleInv'
  <2> DEFINE interrupted == IF lingering \cap Text # {} THEN {}
                            ELSE {t \in Text : outbox[t] = "sending"}
  <2>1. /\ outbox' = [t \in Text |-> IF t \in interrupted THEN "failed" ELSE outbox[t]]
        /\ missed' = (missed \/ interrupted # {})
        /\ UNCHANGED <<sentTo, link, lingering, view, events>>
    BY <1>22 DEF StartBackend
  <2>2. \A u \in Text : outbox[u] # "none" => outbox'[u] # "none"
    <3> HIDE DEF interrupted
    <3> QED
      BY <2>1
  <2>3. CASE interrupted # {} \/ link # "up"
    <3> HIDE DEF interrupted
    <3> QED
      BY <1>k, <2>1, <2>2, <2>3
  <2>4. CASE interrupted = {} /\ link = "up"
    <3>1. \A u \in Text : outbox'[u] = outbox[u]
      <4> HIDE DEF interrupted
      <4> QED
        BY <2>1, <2>4
    <3>2. missed' = missed
      BY <2>1, <2>4 DEF ThreadInv, TypeOK, CountTypes
    <3> HIDE DEF interrupted
    <3> QED
      BY <1>k, <2>1, <2>2, <2>4, <3>1, <3>2 DEF SameLook
  <2> QED
    BY <2>3, <2>4
<1>23. ASSUME AgentEnds PROVE BubbleInv'
  <2>1. PICK D \in SUBSET Text : Claimed(D)
    BY <1>23 DEF AgentEnds
  <2>2. \A u \in Text : outbox[u] # "none" => outbox'[u] # "none"
    BY <1>d, <2>1
  <2> QED
    BY <1>23, <1>k, <2>2 DEF AgentEnds
<1>24. ASSUME UNCHANGED vars PROVE BubbleInv'
  BY <1>24, <1>s DEF vars
<1> QED
  BY <1>1, <1>2, <1>3, <1>4, <1>5, <1>6, <1>7, <1>8, <1>9, <1>10, <1>11, <1>12, <1>13,
     <1>14, <1>15, <1>16, <1>17, <1>18, <1>19, <1>20, <1>21, <1>22, <1>23, <1>24, <1>25
     DEF Next, UserStep, WorkerStep, ChannelStep, BackendStep

-----------------------------------------------------------------------------

LEMMA ThreadInit == Init => ThreadInv
<1> SUFFICES ASSUME Init PROVE ThreadInv
  OBVIOUS
<1>1. StoreTypes
  <2>1. PICK n \in 0..Newest : stored = [m \in Message |-> IF m <= n THEN 1 ELSE 0]
    BY DEF Init
  <2>2. stored \in [Message -> 0..2]
    BY <2>1
  <2> QED
    BY <2>2 DEF Init, StoreTypes
<1>2. DownloadTypes /\ ChannelTypes /\ DraftTypes
  BY DEF Init, DownloadTypes, ChannelTypes, DraftTypes
<1>3. CountTypes
  <2>1. acts \in 0..MaxActs /\ faults \in 0..MaxFaults
    BY DEF Init
  <2>2. missed \in BOOLEAN
    BY DEF Init
  <2> QED
    BY <2>1, <2>2 DEF Init, CountTypes
<1>4. DraftsStayHome /\ DraftsAreOwn
  BY DEF Init, DraftsStayHome, DraftsAreOwn, Belongs, Closed
<1>5. WorkerTypes /\ BubblesHaveRows
  BY DEF Init, WorkerTypes, BubblesHaveRows, Closed
<1> QED
  BY <1>1, <1>2, <1>3, <1>4, <1>5, ClosedIsView DEF Init, ThreadInv, TypeOK

LEMMA ThreadStep ==
  ASSUME ThreadInv, NoBubbleForgotten, [Next]_vars
  PROVE  ThreadInv' /\ NoBubbleForgotten'
BY TypeStep, DraftStep, BubbleStep DEF ThreadInv, DraftsInv, BubbleInv

LEMMA BubblesInit == Init => NoBubbleForgotten
BY DEF Init, NoBubbleForgotten

\* What is typed for a conversation is in the composer while that conversation
\* is open and among its drafts while it is not, and is sent to no other one:
\* ThreadView's _drafts, _stash_draft and show_empty against every order of
\* switches, hides, rebuilds and sends, whatever the agent, its backends and
\* the channel do meanwhile.
THEOREM DraftsStayWhereTheyBelong == Spec => []ThreadInv
<1> DEFINE Both == ThreadInv /\ NoBubbleForgotten
<1>1. Init => Both
  BY ThreadInit, BubblesInit
<1>2. Both /\ [Next]_vars => Both'
  BY ThreadStep
<1> QED
  BY <1>1, <1>2, PTL DEF Spec

\* While the link is up, the bubbles under the open conversation are those of
\* the pending rows as they are, or the event that will make them so is on its
\* way, or the row was changed in a way nothing tells the window: enqueue,
\* claim, success, failure and retry (app/store/outbox.py, main_window.py)
\* against switches, rebuilds, lost links and agents that end.
THEOREM BubblesAreTold == Spec => []NoBubbleForgotten
<1> DEFINE Both == ThreadInv /\ NoBubbleForgotten
<1>1. Init => Both
  BY ThreadInit, BubblesInit
<1>2. Both /\ [Next]_vars => Both'
  BY ThreadStep
<1> QED
  BY <1>1, <1>2, PTL DEF Spec

=============================================================================
