---------------------------- MODULE PhoneLinkProofs ----------------------------
(***************************************************************************)
(* Proofs about PhoneLink and the session it serves, for every number of   *)
(* addresses, notifications, threads, acts and changes of the world.       *)
(***************************************************************************)
EXTENDS PhoneLink, FiniteSetTheorems, SequenceTheorems, TLAPS

USE PhoneServeAssumption, PhoneLinkAssumption

(***************************************************************************)
(* Sequences.                                                              *)
(***************************************************************************)
LEMMA Appended ==
  ASSUME NEW S, NEW s \in Seq(S), NEW x \in S
  PROVE  /\ Append(s, x) \in Seq(S) /\ Len(Append(s, x)) = Len(s) + 1
         /\ DOMAIN Append(s, x) = DOMAIN s \cup {Len(s) + 1}
         /\ Len(s) + 1 \notin DOMAIN s
         /\ \A i \in DOMAIN s : Append(s, x)[i] = s[i]
         /\ Append(s, x)[Len(s) + 1] = x
OBVIOUS

LEMMA Consumed ==
  ASSUME NEW S, NEW s \in Seq(S), s # <<>>
  PROVE  /\ Tail(s) \in Seq(S) /\ Len(Tail(s)) = Len(s) - 1 /\ Len(s) \in Nat
         /\ Head(s) \in S /\ Head(s) = s[1] /\ 1 \in DOMAIN s
         /\ \A i \in DOMAIN Tail(s) :
              i + 1 \in DOMAIN s /\ i + 1 # 1 /\ Tail(s)[i] = s[i + 1]
         /\ \A i, j \in DOMAIN Tail(s) : i + 1 = j + 1 => i = j
OBVIOUS

(***************************************************************************)
(* A connected session: types.                                             *)
(***************************************************************************)
LEMMA NoFetchIsCommand == NoFetch \in Command
BY DEF NoFetch, Command

\* A command that is written, and the answer it may get.
LEMMA AsksTypes ==
  ASSUME ServeTypeOK,
         NEW kind \in {"attributes", "name", "test"}, NEW n \in Note \cup {NoNote},
         NEW text \in Subject \cup {NoNote}, kind = "attributes" => n \in Note,
         Asks(kind, n, text)
  PROVE  fetch' \in Command /\ air' \in Seq(Fragment)
<1> DEFINE s == IF kind = "attributes" THEN n ELSE kind
<1>1. s \in Subject
  <2>1. "name" \in Subject /\ "test" \in Subject /\ Note \subseteq Subject
    BY DEF Subject
  <2> QED
    BY <2>1
<1>2. Answer(s) \in Seq(Fragment)
  <2> HIDE DEF s
  <2>1. [of |-> s, part |-> "head"] \in Fragment /\ [of |-> s, part |-> "tail"] \in Fragment
    BY <1>1 DEF Fragment
  <2> QED
    BY <2>1 DEF Answer
<1>3. air' = air \o Answer(s) \/ air' = air
  BY DEF Asks
<1>4. air' \in Seq(Fragment)
  <2> HIDE DEF s
  <2>1. air \in Seq(Fragment)
    BY DEF ServeTypeOK
  <2>2. air \o Answer(s) \in Seq(Fragment)
    BY <1>2, <2>1, ConcatProperties
  <2> QED
    BY <1>3, <2>1, <2>2
<1>5. <<>> \in Seq(Fragment)
  OBVIOUS
<1> QED
  BY <1>4, <1>5 DEF Asks, Command

\* What is asked about: the notification of the command, its text once it is whole.
LEMMA FetchShape ==
  ASSUME ServeTypeOK, OnePlaceEach
  PROVE  /\ fetch \in Command /\ fetch.note \in Note \cup {NoNote}
         /\ fetch.kind \in {"attributes", "name"} => fetch.note \in Note
         /\ fetch.text \in Subject \cup {NoNote} /\ fetch.got \in Seq(Fragment)
         /\ Whole(fetch) => fetch.got[1].of = Expects(fetch)
         /\ Note \subseteq Subject
<1>1. fetch \in Command
  BY DEF ServeTypeOK
<1>2. /\ fetch.note \in Note \cup {NoNote} /\ fetch.text \in Subject \cup {NoNote}
      /\ fetch.got \in Seq(Fragment)
  BY <1>1 DEF Command
<1>3. fetch.kind \in {"attributes", "name"} => fetch.note \in Note
  BY <1>2 DEF OnePlaceEach
<1>4. Whole(fetch) => fetch.got[1].of = Expects(fetch)
  <2> SUFFICES ASSUME Whole(fetch) PROVE fetch.got[1].of = Expects(fetch)
    OBVIOUS
  <2>1. Len(fetch.got) = 2 /\ ~Foreign(fetch)
    BY DEF Whole
  <2>2. fetch.got # <<>>
    <3>1. Len(<<>>) = 0
      OBVIOUS
    <3> QED
      BY <2>1, <3>1
  <2> QED
    BY <2>1, <2>2 DEF Foreign, HeadOfOwn
<1> QED
  BY <1>1, <1>2, <1>3, <1>4 DEF Subject

LEMMA ToldType ==
  ASSUME ServeTypeOK, NEW n \in Note, NEW text \in Subject, NEW name, Told(n, text, name)
  PROVE  told' \in Seq(Telling)
<1>1. [note |-> n, text |-> text, named |-> name = "known"] \in Telling
  BY DEF Telling
<1> QED
  BY <1>1, Appended DEF Told, ServeTypeOK

\* The ways a command ends: dropped, followed by a request for the name, or told.
GoesNoFurther == fetch' = NoFetch /\ UNCHANGED <<air, told>>
AsksForTheName ==
  fetch.note \in Note /\ Asks("name", fetch.note, fetch.note) /\ UNCHANGED told
IsTold ==
  /\ fetch.note \in Note /\ \E name \in {"unknown", "known", "none"} : Told(fetch.note, fetch.note, name)
  /\ fetch' = NoFetch /\ UNCHANGED air

LEMMA HowACommandEnds ==
  ASSUME ServeTypeOK, OnePlaceEach, NEW whole \in BOOLEAN, whole => Whole(fetch),
         CommandEnds(whole)
  PROVE  /\ GoesNoFurther \/ AsksForTheName \/ IsTold
         /\ names' \in {"unknown", "known", "none"}
         /\ UNCHANGED <<queue, testing, posted>>
<1>1. UNCHANGED <<queue, testing, posted>>
  BY DEF CommandEnds
<1>2. names \in {"unknown", "known", "none"}
  BY DEF ServeTypeOK
<1>3. CASE fetch.kind = "attributes" /\ AttributesEnd(whole) /\ UNCHANGED names
  <2>0. fetch.note \in Note
    BY <1>3, FetchShape
  <2>1. CASE ~whole \/ fetch.note \in Muted
    BY <1>1, <1>2, <1>3, <2>1 DEF AttributesEnd, GoesNoFurther
  <2>2. CASE whole /\ fetch.note \notin Muted
    <3>1. fetch.got[1].of = fetch.note
      BY <1>3, <2>2, FetchShape DEF Expects
    <3> QED
      BY <1>1, <1>2, <1>3, <2>0, <2>2, <3>1 DEF AttributesEnd, AsksForTheName, IsTold
  <2> QED
    BY <2>1, <2>2
<1>4. CASE fetch.kind = "name" /\ NameEnds(whole)
  <2>1. fetch.note \in Note /\ fetch.text = fetch.note
    BY <1>4, FetchShape DEF OnePlaceEach
  <2>2. PICK name \in {"known", "none"} : names' = name /\ Told(fetch.note, fetch.text, name)
    BY <1>4 DEF NameEnds
  <2>3. IsTold
    BY <1>4, <2>1, <2>2 DEF NameEnds, IsTold
  <2> QED
    BY <1>1, <2>2, <2>3
<1>5. CASE fetch.kind = "test" /\ fetch' = NoFetch /\ UNCHANGED <<air, names, told>>
  BY <1>1, <1>2, <1>5 DEF GoesNoFurther
<1> QED
  BY <1>3, <1>4, <1>5 DEF CommandEnds

\* Every step of the session.
ServeStep ==
  \/ ServeTests \/ ServeFetches \/ FragmentArrives \/ ServeAnswered \/ ServeGivesUp
  \/ SessionDropped
  \/ testing' \in BOOLEAN /\ UNCHANGED <<queue, fetch, air, names, posted, told>>
  \/ \E n \in Note : NotePosted(n) \/ NoteReplayed(n)

LEMMA AnswersEnd ==
  ASSUME ServeTypeOK, OnePlaceEach, ServeAnswered \/ ServeGivesUp
  PROVE  /\ GoesNoFurther \/ AsksForTheName \/ IsTold
         /\ names' \in {"unknown", "known", "none"}
         /\ UNCHANGED <<queue, testing, posted>>
<1>1. Whole(fetch) \in BOOLEAN /\ FALSE \in BOOLEAN
  BY DEF Whole
<1>2. CASE ServeAnswered
  BY <1>1, <1>2, HowACommandEnds DEF ServeAnswered
<1>3. CASE ServeGivesUp
  BY <1>1, <1>3, HowACommandEnds DEF ServeGivesUp
<1> QED
  BY <1>2, <1>3

LEMMA ServeTypes ==
  ASSUME ServeTypeOK, OnePlaceEach, ServeStep
  PROVE  ServeTypeOK'
<1>0. /\ queue \in Seq(Note) /\ Len(queue) <= MaxPending /\ Len(queue) \in Nat
      /\ fetch \in Command /\ air \in Seq(Fragment)
      /\ names \in {"unknown", "known", "none"} /\ testing \in BOOLEAN
      /\ posted \subseteq Note /\ told \in Seq(Telling)
  BY DEF ServeTypeOK
<1>1. CASE ServeTests
  <2>1. Asks("test", NoNote, NoNote)
    BY <1>1 DEF ServeTests
  <2>2. fetch' \in Command /\ air' \in Seq(Fragment)
    BY <2>1, AsksTypes
  <2>3. testing' \in BOOLEAN
    BY <1>1 DEF ServeTests
  <2> QED
    BY <1>0, <1>1, <2>2, <2>3 DEF ServeTests, ServeTypeOK
<1>2. CASE ServeFetches
  <2>1. Asks("attributes", Head(queue), NoNote) /\ Head(queue) \in Note
    BY <1>0, <1>2, Consumed DEF ServeFetches
  <2>2. fetch' \in Command /\ air' \in Seq(Fragment)
    BY <2>1, AsksTypes
  <2>3. queue' \in Seq(Note) /\ Len(queue') <= MaxPending
    BY <1>0, <1>2, Consumed DEF ServeFetches
  <2> QED
    BY <1>0, <1>2, <2>2, <2>3 DEF ServeFetches, ServeTypeOK
<1>3. CASE FragmentArrives
  <2>1. air' \in Seq(Fragment) /\ Head(air) \in Fragment
    BY <1>0, <1>3, Consumed DEF FragmentArrives
  <2>2. Append(fetch.got, Head(air)) \in Seq(Fragment)
    BY <2>1, FetchShape, Appended
  <2>3. fetch' \in Command
    BY <1>0, <1>3, <2>2 DEF FragmentArrives, Command
  <2> QED
    BY <1>0, <1>3, <2>1, <2>3 DEF FragmentArrives, ServeTypeOK
<1>4. CASE ServeAnswered \/ ServeGivesUp
  <2>0. /\ names' \in {"unknown", "known", "none"}
        /\ UNCHANGED <<queue, testing, posted>>
    BY <1>4, AnswersEnd
  <2>1. CASE GoesNoFurther
    BY <1>0, <2>0, <2>1, NoFetchIsCommand DEF GoesNoFurther, ServeTypeOK
  <2>2. CASE AsksForTheName
    <3>1. fetch' \in Command /\ air' \in Seq(Fragment)
      BY <2>2, AsksTypes, FetchShape DEF AsksForTheName
    <3> QED
      BY <1>0, <2>0, <2>2, <3>1 DEF AsksForTheName, ServeTypeOK
  <2>3. CASE IsTold
    <3>1. told' \in Seq(Telling)
      BY <2>3, ToldType, FetchShape DEF IsTold
    <3> QED
      BY <1>0, <2>0, <2>3, <3>1, NoFetchIsCommand DEF IsTold, ServeTypeOK
  <2> QED
    BY <1>4, <2>1, <2>2, <2>3, AnswersEnd
<1>5. CASE SessionDropped
  <2>1. Len(<<>>) <= MaxPending
    OBVIOUS
  <2> QED
    BY <1>0, <1>5, <2>1, NoFetchIsCommand DEF SessionDropped, ServeTypeOK
<1>6. ASSUME NEW n \in Note, NotePosted(n) \/ NoteReplayed(n) PROVE ServeTypeOK'
  <2>1. PICK kind : EventArrives(n, kind)
    BY <1>6 DEF NotePosted, NoteReplayed
  <2>2. queue' \in Seq(Note) /\ Len(queue') <= MaxPending
    <3>1. CASE Len(queue) < MaxPending /\ queue' = Append(queue, n)
      <4>1. Len(queue) + 1 <= MaxPending
        BY <1>0, <3>1
      <4> QED
        BY <1>0, <3>1, <4>1, Appended
    <3> QED
      BY <1>0, <2>1, <3>1 DEF EventArrives
  <2> QED
    BY <1>0, <2>1, <2>2 DEF EventArrives, ServeTypeOK
<1>7. CASE testing' \in BOOLEAN /\ UNCHANGED <<queue, fetch, air, names, posted, told>>
  BY <1>0, <1>7 DEF ServeTypeOK
<1> QED
  BY <1>1, <1>2, <1>3, <1>4, <1>5, <1>6, <1>7 DEF ServeStep

(***************************************************************************)
(* A connected session: a notification is in one place at a time.          *)
(***************************************************************************)
LEMMA ToldGrows ==
  ASSUME ServeTypeOK, NEW n \in Note, NEW text \in Subject, NEW name, Told(n, text, name)
  PROVE  /\ DOMAIN told' = DOMAIN told \cup {Len(told) + 1} /\ Len(told) + 1 \notin DOMAIN told
         /\ \A k \in DOMAIN told : told'[k] = told[k]
         /\ told'[Len(told) + 1].note = n /\ told'[Len(told) + 1].text = text
<1>1. [note |-> n, text |-> text, named |-> name = "known"] \in Telling
  BY DEF Telling
<1>2. told \in Seq(Telling)
  BY DEF ServeTypeOK
<1> QED
  BY <1>1, <1>2, Appended DEF Told

LEMMA ServePlaces ==
  ASSUME ServeTypeOK, OnePlaceEach, ToldAsSent, ServeStep
  PROVE  OnePlaceEach' /\ ToldAsSent'
<1>0. queue \in Seq(Note) /\ air \in Seq(Fragment) /\ posted \subseteq Note
  BY DEF ServeTypeOK
<1>f. ASSUME UNCHANGED told PROVE ToldAsSent'
  BY <1>f DEF ToldAsSent
<1>1. CASE ServeTests
  <2>1. fetch.note = NoNote /\ fetch'.note = NoNote /\ fetch'.kind = "test"
    BY <1>1 DEF ServeTests, Asks, OnePlaceEach
  <2>2. \A i \in DOMAIN queue : queue[i] # NoNote
    BY <1>0
  <2> QED
    BY <1>1, <1>f, <2>1, <2>2 DEF ServeTests, OnePlaceEach
<1>2. CASE ServeFetches
  <2>1. fetch'.note = queue[1] /\ fetch'.kind = "attributes"
    BY <1>0, <1>2, Consumed DEF ServeFetches, Asks
  <2>2. /\ queue[1] \in Note /\ 1 \in DOMAIN queue
        /\ \A i \in DOMAIN queue' : i + 1 \in DOMAIN queue /\ i + 1 # 1 /\ queue'[i] = queue[i + 1]
        /\ \A i, j \in DOMAIN queue' : i + 1 = j + 1 => i = j
    BY <1>0, <1>2, Consumed DEF ServeFetches
  <2>3. UNCHANGED <<told, posted>>
    BY <1>2 DEF ServeFetches
  <2>4. \A i \in DOMAIN queue' :
          /\ queue'[i] \in posted /\ queue'[i] # queue[1]
          /\ \A j \in DOMAIN queue' : queue'[i] = queue'[j] => i = j
          /\ \A k \in DOMAIN told : told[k].note # queue'[i]
    BY <2>2 DEF OnePlaceEach
  <2> QED
    BY <1>f, <2>1, <2>2, <2>3, <2>4 DEF OnePlaceEach
<1>3. CASE FragmentArrives
  <2>1. fetch'.kind = fetch.kind /\ fetch'.note = fetch.note /\ fetch'.text = fetch.text
    BY <1>3, FetchShape DEF FragmentArrives, Command
  <2> QED
    BY <1>3, <1>f, <2>1 DEF FragmentArrives, OnePlaceEach
<1>4. CASE ServeAnswered \/ ServeGivesUp
  <2>0. UNCHANGED <<queue, posted>>
    BY <1>4, AnswersEnd
  <2>n. \A i \in DOMAIN queue : queue[i] # NoNote
    BY <1>0
  <2>1. CASE GoesNoFurther
    BY <1>f, <2>0, <2>n, <2>1 DEF GoesNoFurther, NoFetch, OnePlaceEach
  <2>2. CASE AsksForTheName
    <3>1. fetch'.kind = "name" /\ fetch'.note = fetch.note /\ fetch'.text = fetch.note
          /\ told' = told /\ fetch.note # NoNote
      BY <2>2 DEF AsksForTheName, Asks
    <3> QED
      BY <1>f, <2>0, <3>1 DEF OnePlaceEach
  <2>3. CASE IsTold
    <3>1. /\ DOMAIN told' = DOMAIN told \cup {Len(told) + 1} /\ Len(told) + 1 \notin DOMAIN told
          /\ \A k \in DOMAIN told : told'[k] = told[k]
          /\ told'[Len(told) + 1].note = fetch.note /\ told'[Len(told) + 1].text = fetch.note
      BY <2>3, ToldGrows, FetchShape DEF IsTold
    <3>2. fetch'.kind = "none" /\ fetch'.note = NoNote /\ fetch.note # NoNote
      BY <2>3 DEF IsTold, NoFetch
    <3>3. fetch.note \in posted /\ \A k \in DOMAIN told : told[k].note # fetch.note
      BY <3>2 DEF OnePlaceEach
    <3>4. ToldAsSent'
      BY <3>1, <3>3 DEF ToldAsSent
    <3>5. \A k \in DOMAIN told' : told'[k].note = fetch.note \/ (k \in DOMAIN told /\ told'[k] = told[k])
      BY <3>1
    <3>6. \A k \in DOMAIN told' : told'[k].note \in posted
      BY <3>3, <3>5 DEF OnePlaceEach
    <3>7. \A i \in DOMAIN queue, k \in DOMAIN told' : told'[k].note # queue[i]
      BY <3>5 DEF OnePlaceEach
    <3> QED
      BY <2>0, <2>n, <3>2, <3>4, <3>6, <3>7 DEF OnePlaceEach
  <2> QED
    BY <1>4, <2>1, <2>2, <2>3, AnswersEnd
<1>5. CASE SessionDropped
  <2>1. queue' = <<>> /\ fetch'.kind = "none" /\ fetch'.note = NoNote
        /\ UNCHANGED <<told, posted>> /\ DOMAIN queue' = {}
    BY <1>5 DEF SessionDropped, NoFetch
  <2> QED
    BY <1>f, <2>1 DEF OnePlaceEach
<1>6. ASSUME NEW n \in Note, NotePosted(n) \/ NoteReplayed(n)
      PROVE  OnePlaceEach' /\ ToldAsSent'
  <2>0. UNCHANGED <<fetch, told>> /\ posted' = posted \cup {n}
    BY <1>6 DEF NotePosted, NoteReplayed, EventArrives
  <2>1. CASE queue' = queue
    BY <1>f, <2>0, <2>1 DEF OnePlaceEach
  <2>2. CASE queue' = Append(queue, n) /\ n \notin posted
    <3>1. /\ DOMAIN queue' = DOMAIN queue \cup {Len(queue) + 1}
          /\ Len(queue) + 1 \notin DOMAIN queue
          /\ \A i \in DOMAIN queue : queue'[i] = queue[i]
          /\ queue'[Len(queue) + 1] = n
      BY <1>0, <2>2, Appended
    <3>2. /\ fetch.note # n /\ \A k \in DOMAIN told : told[k].note # n
          /\ \A i \in DOMAIN queue : queue[i] # n
      BY <2>2 DEF OnePlaceEach
    <3>3. \A i \in DOMAIN queue' :
            /\ queue'[i] \in posted' /\ queue'[i] # fetch.note
            /\ \A j \in DOMAIN queue' : queue'[i] = queue'[j] => i = j
            /\ \A k \in DOMAIN told : told[k].note # queue'[i]
      BY <2>0, <3>1, <3>2 DEF OnePlaceEach
    <3> QED
      BY <1>f, <2>0, <3>3 DEF OnePlaceEach
  <2> QED
    BY <1>6, <2>1, <2>2 DEF NotePosted, NoteReplayed, EventArrives, ShouldAlert
<1>7. CASE UNCHANGED <<queue, fetch, air, names, posted, told>>
  BY <1>7, <1>f DEF OnePlaceEach
<1> QED
  BY <1>1, <1>2, <1>3, <1>4, <1>5, <1>6, <1>7 DEF ServeStep

(***************************************************************************)
(* The threads of the link: what starts and stops them.                    *)
(***************************************************************************)
USE DEF worldVars, windowVars, workerVars, GuiIsFree

Gui == [at : {"free", "joining", "late", "flagged"}, thread : Thread \cup {NoThread}]
FlagTypes == [want : BOOLEAN, stop : BOOLEAN, owed : BOOLEAN]

LEMMA Flags ==
  /\ flags \in FlagTypes =>
       /\ [flags EXCEPT !.want = TRUE] \in FlagTypes
       /\ [flags EXCEPT !.owed = TRUE] \in FlagTypes
  /\ [want |-> FALSE, stop |-> TRUE, owed |-> FALSE] \in FlagTypes
  /\ \A wanted \in BOOLEAN : [want |-> wanted, stop |-> FALSE, owed |-> FALSE] \in FlagTypes
BY DEF FlagTypes

LEMMA LoopSlot ==
  /\ NotRunning \in Slot /\ NotRunning.at = "none"
  /\ [NotRunning EXCEPT !.at = "loop"] \in Slot /\ [NotRunning EXCEPT !.at = "loop"].at = "loop"
  /\ [NotRunning EXCEPT !.at = "gone"] \in Slot /\ [NotRunning EXCEPT !.at = "gone"].at = "gone"
  /\ FreeGui \in Gui /\ FreeGui.at = "free"
BY DEF NotRunning, Slot, Maybe, FreeGui, Gui

\* What is left of the others when one thread alone has anything left to do
Alone ==
  /\ \A t \in Thread : Busy(t) => t = current
  /\ \A t \in Thread : thread[t].at # "respawning"

\* A new thread is the only one that is busy, when all the others have ended.
LEMMA SpawnedAlone ==
  ASSUME WorkerTypes, NEW ending \in SUBSET Thread, NEW wanted \in BOOLEAN,
         Spawned(ending, wanted), \A t \in Thread : Busy(t) => t \in ending
  PROVE  /\ WorkerTypes' /\ Alone'
         /\ flags'.want = wanted /\ ~flags'.stop /\ ~flags'.owed
<1>1. PICK t \in Thread :
        /\ thread' = [u \in Thread |->
                        IF u = t THEN [NotRunning EXCEPT !.at = "loop"]
                        ELSE IF u \in ending THEN [NotRunning EXCEPT !.at = "gone"]
                        ELSE thread[u]]
        /\ current' = t
        /\ flags' = [want |-> wanted, stop |-> FALSE, owed |-> FALSE]
  BY DEF Spawned
<1>2. thread \in [Thread -> Slot]
  BY DEF WorkerTypes
<1>3. flags' \in FlagTypes /\ flags'.want = wanted /\ ~flags'.stop /\ ~flags'.owed
  BY <1>1, Flags
<1>4. thread' \in [Thread -> Slot]
  BY <1>1, <1>2, LoopSlot
<1>5. thread'[t].at = "loop" /\ \A u \in Thread : u # t => thread'[u].at \in {"none", "gone"}
  BY <1>1, <1>2, LoopSlot DEF Busy
<1>6. \A u \in Thread : thread'[u].at \in {"found", "up"} => FALSE
  BY <1>5
<1>7. Alone'
  BY <1>1, <1>5 DEF Alone, Busy
<1> QED
  BY <1>1, <1>3, <1>4, <1>6, <1>7 DEF WorkerTypes, FlagTypes

\* start() beside at most the current thread; a join it begins is for that one.
LEMMA StartIsAlone ==
  ASSUME WorkerTypes, OneStarter, gui \in Gui, GuiIsFree, Start, aims' \in 0..1,
         Alive(current) => aims' = 0 /\ ~flags.owed
  PROVE  WorkerTypes' /\ OneStarter' /\ gui' \in Gui
<1>0. flags \in FlagTypes /\ current \in Thread \cup {NoThread}
  BY DEF WorkerTypes, FlagTypes
<1>1. CASE ~Alive(current)
  <2>1. Spawned({}, TRUE) /\ gui' = gui
    BY <1>1 DEF Start
  <2>2. \A t \in Thread : Busy(t) => t \in {}
    BY <1>1 DEF OneStarter, Alive, Busy
  <2>3. /\ WorkerTypes' /\ Alone'
        /\ flags'.want /\ ~flags'.stop /\ ~flags'.owed
    BY <2>1, <2>2, SpawnedAlone
  <2> QED
    BY <2>1, <2>3 DEF OneStarter, Alone
<1>2. CASE Alive(current)
  <2>1. /\ flags' = [flags EXCEPT !.want = TRUE] /\ UNCHANGED <<thread, current>>
        /\ gui' = IF flags.stop THEN [at |-> "joining", thread |-> current] ELSE gui
    BY <1>2 DEF Start
  <2>2. flags' \in FlagTypes /\ flags'.want /\ flags'.stop = flags.stop /\ flags'.owed = flags.owed
    BY <1>0, <2>1, Flags DEF FlagTypes
  <2>3. WorkerTypes' /\ Alone'
    BY <1>2, <2>1, <2>2 DEF WorkerTypes, FlagTypes, OneStarter, Alone, Busy, Owed
  <2>4. gui' \in Gui
    BY <1>0, <2>1 DEF Gui
  <2>5. aims' = 0 /\ ~flags'.owed
    BY <1>2, <2>2
  <2>6. gui'.at # "free" => gui'.at = "joining" /\ gui'.thread = current' /\ flags'.stop
    BY <2>1, <2>2
  <2> QED
    BY <2>2, <2>3, <2>4, <2>5, <2>6 DEF OneStarter, Alone
<1> QED
  BY <1>1, <1>2

\* Applying the settings.
LEMMA ApplyIsAlone ==
  ASSUME "two_aims" \notin Hazards, "late_look" \notin Hazards,
         WorkerTypes, WindowTypes, OneStarter, GuiIsFree,
         NEW s \in Choice, Apply(s)
  PROVE  /\ WorkerTypes' /\ OneStarter' /\ gui' \in Gui
         /\ aimed' \in Maybe(Address) /\ aims' \in 0..2
<1>0. gui \in Gui /\ aims \in 0..1 /\ flags \in FlagTypes
  BY DEF WindowTypes, WorkerTypes, OneStarter, Gui, FlagTypes
<1>1. aimed' \in Maybe(Address)
  BY DEF Apply, Choice
<1>2. CASE ~Alive(current) /\ Start /\ UNCHANGED aims
  BY <1>0, <1>1, <1>2, StartIsAlone
<1>3. CASE /\ Stop /\ UNCHANGED <<gui, thread, current>>
           /\ aims' = aims \/ (aims = 0 /\ aims' = 1)
  <2>1. flags' \in FlagTypes /\ flags'.stop /\ ~flags'.owed
    BY <1>3, Flags DEF Stop
  <2>2. WorkerTypes' /\ Alone'
    BY <1>3, <2>1 DEF WorkerTypes, FlagTypes, OneStarter, Alone, Busy, Stop
  <2>3. aims' \in 0..1
    BY <1>0, <1>3
  <2> QED
    BY <1>0, <1>1, <1>3, <2>1, <2>2, <2>3 DEF OneStarter, Alone
<1>4. CASE UNCHANGED <<gui, aims, thread, current, flags>>
  BY <1>0, <1>1, <1>4 DEF WorkerTypes, OneStarter, Busy, Owed
<1> QED
  <2>1. \/ ~Alive(current) /\ Start /\ UNCHANGED aims
        \/ Stop /\ UNCHANGED <<gui, aims, thread, current>>
        \/ Stop /\ aims < 1 /\ aims' = aims + 1 /\ UNCHANGED <<gui, thread, current>>
        \/ UNCHANGED <<gui, aims, thread, current, flags>>
    BY DEF Apply
  <2>2. aims < 1 /\ aims' = aims + 1 => aims = 0 /\ aims' = 1
    BY <1>0
  <2> QED
    BY <1>2, <1>3, <1>4, <2>1, <2>2

(***************************************************************************)
(* Every step keeps one starter, and with it one thread.                   *)
(***************************************************************************)
Linked == WindowTypes /\ WorkerTypes /\ OneStarter
Inductive == TypeOK /\ OneStarter /\ OnePlaceEach /\ ToldAsSent

LEMMA WindowStepKeeps ==
  ASSUME "two_aims" \notin Hazards, "late_look" \notin Hazards, Inductive, WindowStep
  PROVE  Linked'
<1>0. /\ WindowTypes /\ WorkerTypes /\ OneStarter /\ settings \in Choice
      /\ gui \in Gui /\ wizard \in Setup /\ paired \subseteq Address
      /\ aimed \in Maybe(Address) /\ aims \in 0..1 /\ flags \in FlagTypes
      /\ dialog \in [open : BOOLEAN, on : BOOLEAN, address : Maybe(Address), named : BOOLEAN]
      /\ mail \in Seq(Address) /\ current \in Thread \cup {NoThread}
  BY DEF Inductive, TypeOK, OtherTypes, WindowTypes, WorkerTypes, OneStarter, Gui, FlagTypes, Address
<1>f. ASSUME UNCHANGED <<thread, current, flags, gui, aims>> PROVE WorkerTypes' /\ OneStarter'
  BY <1>0, <1>f DEF WorkerTypes, OneStarter, Busy, Owed
<1>1. CASE DialogOpens
  <2>1. dialog' \in [open : BOOLEAN, on : BOOLEAN, address : Maybe(Address), named : BOOLEAN]
    BY <1>0, <1>1 DEF DialogOpens, Choice
  <2> QED
    BY <1>0, <1>1, <1>f, <2>1 DEF DialogOpens, WindowTypes, Linked
<1>2. CASE UserPicks
  <2>1. PICK a \in paired \cup {b \in Beacon : answers[b] # "silent"} :
          dialog' = [dialog EXCEPT !.on = TRUE, !.address = a, !.named = a \in paired]
    BY <1>2 DEF UserPicks
  <2>2. a \in Maybe(Address) /\ (a \in paired) \in BOOLEAN
    BY <1>0 DEF Address, Maybe
  <2>3. dialog' \in [open : BOOLEAN, on : BOOLEAN, address : Maybe(Address), named : BOOLEAN]
    BY <1>0, <2>1, <2>2
  <2> QED
    BY <1>0, <1>2, <1>f, <2>3 DEF UserPicks, WindowTypes, Linked
<1>3. CASE UserSwitches
  <2>1. dialog' \in [open : BOOLEAN, on : BOOLEAN, address : Maybe(Address), named : BOOLEAN]
    BY <1>0, <1>3 DEF UserSwitches
  <2> QED
    BY <1>0, <1>3, <1>f, <2>1 DEF UserSwitches, WindowTypes, Linked
<1>4. CASE DialogCloses
  <2>1. PICK s \in {settings, [on |-> dialog.on, address |-> dialog.address,
                               named |-> dialog.named]} : settings' = s /\ Apply(s)
    BY <1>4 DEF DialogCloses
  <2>2. s \in Choice
    BY <1>0 DEF Choice
  <2>3. Closed \in [open : BOOLEAN, on : BOOLEAN, address : Maybe(Address), named : BOOLEAN]
        /\ NoSetup \in Setup
    BY DEF Closed, NoSetup, Setup, Maybe
  <2>4. /\ WorkerTypes' /\ OneStarter' /\ gui' \in Gui
        /\ aimed' \in Maybe(Address) /\ aims' \in 0..2
    BY <1>0, <1>4, <2>1, <2>2, ApplyIsAlone DEF DialogCloses
  <2> QED
    BY <1>4, <2>1, <2>2, <2>3, <2>4 DEF DialogCloses, WindowTypes, Linked, Gui
<1>5. CASE UserTests
  <2>1. CASE Alive(current)
    BY <1>0, <1>5, <1>f, <2>1 DEF UserTests, WindowTypes, Linked
  <2>2. CASE ~Alive(current)
    <3>1. /\ WorkerTypes' /\ OneStarter' /\ gui' \in Gui
          /\ aimed' \in Maybe(Address) /\ aims' \in 0..2
      BY <1>0, <1>5, <2>2, ApplyIsAlone DEF UserTests
    <3> QED
      BY <1>0, <1>5, <3>1 DEF UserTests, WindowTypes, Linked, Gui
  <2> QED
    BY <2>1, <2>2
<1>6. CASE AimEnds
  <2>1. aims' = 0 /\ ~flags.owed
    BY <1>0, <1>6 DEF AimEnds, OneStarter
  <2>2. WorkerTypes' /\ OneStarter' /\ gui' \in Gui
    BY <1>0, <1>6, <2>1, StartIsAlone DEF AimEnds
  <2> QED
    BY <1>0, <1>6, <2>1, <2>2 DEF AimEnds, WindowTypes, Linked, Gui
<1>7. CASE LearnedArrives
  <2>1. Head(mail) \in Maybe(Address)
    BY <1>0, <1>7, Consumed DEF LearnedArrives, Maybe
  <2>2. settings' \in Choice /\ aimed' \in Maybe(Address)
    BY <1>0, <1>7, <2>1 DEF LearnedArrives, Choice
  <2> QED
    BY <1>0, <1>7, <1>f, <2>2 DEF LearnedArrives, WindowTypes, Linked
<1>8. CASE JoinEnds
  <2>0. /\ gui.at = "joining" /\ gui.thread = current /\ aims = 0
        /\ flags.want /\ flags.stop /\ ~flags.owed
        /\ UNCHANGED <<settings, aimed, aims, dialog, wizard>>
    BY <1>0, <1>8 DEF JoinEnds, OneStarter
  <2>1. CASE Alive(gui.thread)
    <3>1. gui' = [gui EXCEPT !.at = "late"] /\ UNCHANGED <<thread, current, flags>>
      BY <1>8, <2>1 DEF JoinEnds
    <3>2. gui' \in Gui /\ gui'.at = "late" /\ gui'.thread = gui.thread
      BY <1>0, <3>1 DEF Gui
    <3>3. OneStarter' /\ WorkerTypes'
      BY <1>0, <2>0, <3>1, <3>2 DEF OneStarter, WorkerTypes, Busy, Owed
    <3> QED
      BY <1>0, <2>0, <3>2, <3>3 DEF WindowTypes, Linked, Gui
  <2>2. CASE ~Alive(gui.thread)
    <3>1. Spawned({}, TRUE) /\ gui' = FreeGui
      BY <1>8, <2>0, <2>2 DEF JoinEnds
    <3>2. \A t \in Thread : Busy(t) => t \in {}
      BY <2>0, <2>2 DEF OneStarter, Inductive, Alive, Busy
    <3>3. /\ WorkerTypes' /\ Alone'
          /\ flags'.want /\ ~flags'.stop /\ ~flags'.owed
      BY <1>0, <3>1, <3>2, SpawnedAlone
    <3>4. OneStarter'
      BY <1>0, <2>0, <3>1, <3>3, LoopSlot DEF OneStarter, Alone
    <3> QED
      BY <1>0, <2>0, <3>1, <3>3, <3>4, LoopSlot DEF WindowTypes, Linked, Gui
  <2> QED
    BY <2>1, <2>2
<1>9. CASE RestartIsOwed
  <2>0. /\ gui.thread = current /\ aims = 0 /\ flags.stop /\ flags.want
        /\ gui' = [gui EXCEPT !.at = "flagged"] /\ flags' = [flags EXCEPT !.owed = TRUE]
        /\ UNCHANGED <<settings, aimed, aims, dialog, wizard, thread, current>>
    BY <1>0, <1>9 DEF RestartIsOwed, OneStarter
  <2>1. gui' \in Gui /\ gui'.at = "flagged" /\ gui'.thread = current
    BY <1>0, <2>0 DEF Gui
  <2>2. flags' \in FlagTypes /\ flags'.stop /\ flags'.want /\ flags'.owed
    BY <1>0, <2>0, Flags DEF FlagTypes
  <2>3. WorkerTypes'
    BY <1>0, <2>0, <2>2 DEF WorkerTypes, FlagTypes
  <2>4. OneStarter'
    BY <1>0, <2>0, <2>1, <2>2 DEF OneStarter, Busy, Owed
  <2> QED
    BY <1>0, <2>0, <2>1, <2>3, <2>4 DEF WindowTypes, Linked, Gui
<1>10. CASE StartReturns
  <2>0. /\ gui.at = "flagged" /\ gui' = FreeGui /\ aims = 0
        /\ UNCHANGED <<settings, aimed, aims, dialog, wizard>>
    BY <1>0, <1>10 DEF StartReturns, OneStarter
  <2>1. CASE OwedAfterAll
    <3>1. Spawned({}, TRUE)
      BY <1>10, <2>1 DEF StartReturns, OwedAfterAll
    <3>2. \A t \in Thread : Busy(t) => t \in {}
      BY <1>0, <2>0, <2>1 DEF OneStarter, OwedAfterAll, Alive, Busy
    <3>3. /\ WorkerTypes' /\ Alone'
          /\ flags'.want /\ ~flags'.stop /\ ~flags'.owed
      BY <1>0, <3>1, <3>2, SpawnedAlone
    <3>4. OneStarter'
      BY <1>0, <2>0, <3>3, LoopSlot DEF OneStarter, Alone
    <3> QED
      BY <1>0, <2>0, <3>3, <3>4, LoopSlot DEF WindowTypes, Linked, Gui
  <2>2. CASE ~OwedAfterAll
    <3>1. UNCHANGED <<thread, current, flags>>
      BY <1>10, <2>2 DEF StartReturns
    <3>2. OneStarter' /\ WorkerTypes'
      BY <1>0, <2>0, <3>1, LoopSlot DEF OneStarter, WorkerTypes, Busy, Owed
    <3> QED
      BY <1>0, <2>0, <3>2, LoopSlot DEF WindowTypes, Linked, Gui
  <2> QED
    BY <2>1, <2>2
<1> QED
  BY <1>1, <1>2, <1>3, <1>4, <1>5, <1>6, <1>7, <1>8, <1>9, <1>10 DEF WindowStep

LEMMA SetupTypes ==
  ASSUME wizard \in Setup, paired \subseteq Entry, WizardStep
  PROVE  wizard' \in Setup
<1>w. /\ \A left \in SUBSET Address : [wizard EXCEPT !.left = left] \in Setup
      /\ \A a \in Address, verdict \in {"pending", "needs"}, left \in SUBSET Address :
           [wizard EXCEPT !.verdict = verdict, !.address = a, !.left = left] \in Setup
      /\ \A a \in Address : [NoSetup EXCEPT !.verdict = "works", !.address = a] \in Setup
      /\ \A left \in SUBSET Address : [NoSetup EXCEPT !.on = TRUE, !.left = left] \in Setup
  BY DEF Setup, NoSetup, Maybe
<1>l. wizard.left \subseteq Address
  BY DEF Setup
<1>1. CASE WizardStarts
  <2>1. \A listed \in Listed : Broadcasting \cup listed \in SUBSET Address
    BY DEF Broadcasting, Address, Listed
  <2>2. PICK listed \in Listed :
          wizard' = [NoSetup EXCEPT !.on = TRUE, !.left = Broadcasting \cup listed]
    BY <1>1 DEF WizardStarts
  <2>3. Broadcasting \cup listed \in SUBSET Address
    BY <2>1
  <2> QED
    BY <1>w, <2>2, <2>3
<1>2. CASE WizardEnds
  <2>1. wizard.verdict \in {"none", "works", "pending", "needs"}
    BY DEF Setup
  <2>2. \A listed \in Listed :
          Ruling(wizard.verdict, listed) \in {"none", "works", "pending", "needs"}
    BY <2>1 DEF Ruling
  <2> QED
    BY <1>2, <2>2 DEF WizardEnds, Setup
<1>3. ASSUME NEW a \in Address, WizardTries(a) PROVE wizard' \in Setup
  <2>1. wizard.left \ {a} \in SUBSET Address
        /\ \A listed \in Listed : Refusal(listed) \in {"pending", "needs"}
    BY <1>l DEF Refusal
  <2>2. \/ wizard' = [wizard EXCEPT !.left = @ \ {a}]
        \/ \E verdict \in {"pending", "needs"} :
             wizard' = [wizard EXCEPT !.verdict = verdict, !.address = a, !.left = @ \ {a}]
    BY <1>3, <2>1 DEF WizardTries, Remember
  <2>3. [wizard EXCEPT !.left = wizard.left \ {a}] \in Setup
    BY <1>w, <2>1
  <2>4. \A verdict \in {"pending", "needs"} :
          [wizard EXCEPT !.verdict = verdict, !.address = a, !.left = wizard.left \ {a}] \in Setup
    BY <1>w, <2>1
  <2> QED
    BY <2>2, <2>3, <2>4
<1>4. ASSUME NEW a \in Address, WizardProves(a) PROVE wizard' \in Setup
  BY <1>4, <1>w DEF WizardProves
<1> QED
  BY <1>1, <1>2, <1>3, <1>4 DEF WizardStep

LEMMA WizardStepKeeps ==
  ASSUME "late_look" \notin Hazards, Inductive, WizardStep
  PROVE  Linked'
<1>0. /\ WindowTypes /\ WorkerTypes /\ OneStarter /\ gui \in Gui /\ wizard \in Setup
      /\ flags \in FlagTypes /\ wizard.address \in Maybe(Address) /\ wizard' \in Setup
      /\ dialog \in [open : BOOLEAN, on : BOOLEAN, address : Maybe(Address), named : BOOLEAN]
  BY SetupTypes DEF Inductive, TypeOK, OtherTypes, WindowTypes, WorkerTypes, Gui, FlagTypes, Setup
<1>f. ASSUME UNCHANGED <<thread, current, flags, gui, aims>> PROVE WorkerTypes' /\ OneStarter'
  BY <1>0, <1>f DEF WorkerTypes, OneStarter, Busy, Owed
<1>d. ASSUME NEW a \in Maybe(Address)
      PROVE  [dialog EXCEPT !.on = TRUE, !.address = a, !.named = FALSE]
               \in [open : BOOLEAN, on : BOOLEAN, address : Maybe(Address), named : BOOLEAN]
  BY <1>0
<1>1. CASE WizardStarts
  <2>1. CASE Alive(current)
    <3>1. /\ flags' = [want |-> FALSE, stop |-> TRUE, owed |-> FALSE] /\ gui.at = "free"
          /\ \A t \in Thread : thread[t].at # "respawning"
          /\ UNCHANGED <<thread, current, gui, aims>>
      BY <1>1, <2>1 DEF WizardStarts, Stop
    <3>2. flags' \in FlagTypes /\ flags'.stop /\ ~flags'.owed
      BY <3>1, Flags
    <3>3. WorkerTypes' /\ Alone'
      BY <1>0, <3>1, <3>2 DEF WorkerTypes, FlagTypes, OneStarter, Alone, Busy
    <3>4. OneStarter'
      BY <1>0, <3>1, <3>2, <3>3 DEF OneStarter, Alone
    <3> QED
      BY <1>0, <1>1, <3>3, <3>4 DEF WizardStarts, WindowTypes, Linked
  <2>2. CASE ~Alive(current)
    BY <1>0, <1>1, <1>f, <2>2 DEF WizardStarts, WindowTypes, Linked
  <2> QED
    BY <2>1, <2>2
<1>2. CASE WizardEnds
  <2>1. \/ dialog' = dialog
        \/ dialog' = [dialog EXCEPT !.on = TRUE, !.address = wizard.address, !.named = FALSE]
    BY <1>2 DEF WizardEnds
  <2>2. dialog' \in [open : BOOLEAN, on : BOOLEAN, address : Maybe(Address), named : BOOLEAN]
    BY <1>0, <1>d, <2>1
  <2> QED
    BY <1>0, <1>2, <1>f, <2>2 DEF WizardEnds, WindowTypes, Linked
<1>3. ASSUME NEW a \in Address, WizardTries(a) PROVE Linked'
  BY <1>0, <1>3, <1>f DEF WizardTries, WindowTypes, Linked
<1>4. ASSUME NEW a \in Address, WizardProves(a) PROVE Linked'
  <2>1. dialog' \in [open : BOOLEAN, on : BOOLEAN, address : Maybe(Address), named : BOOLEAN]
    BY <1>4, <1>d DEF WizardProves, Maybe
  <2> QED
    BY <1>0, <1>4, <1>f, <2>1 DEF WizardProves, WindowTypes, Linked
<1> QED
  BY <1>1, <1>2, <1>3, <1>4 DEF WizardStep

LEMMA WorkerStepKeeps ==
  ASSUME Inductive, NEW t \in Thread, WorkerStep(t)
  PROVE  Linked'
<1>0. /\ WindowTypes /\ WorkerTypes /\ OneStarter /\ thread \in [Thread -> Slot]
      /\ settings.address \in Maybe(Address)
  BY DEF Inductive, TypeOK, WindowTypes, WorkerTypes, Choice
\* A thread that goes on, or ends, leaves the others alone.
<1>g. ASSUME NEW slot \in Slot, Busy(t) \/ slot.at = "none", slot.at = "respawning" => Owed,
             slot.at \in {"found", "up"} => slot.device \in Address, thread' = [thread EXCEPT ![t] = slot],
             UNCHANGED <<windowVars, current, flags>>
      PROVE  Linked'
  <2>1. thread' \in [Thread -> Slot] /\ \A u \in Thread : u # t => thread'[u] = thread[u]
    BY <1>0, <1>g
  <2>2. \A u \in Thread : Busy(u)' => u = current'
    BY <1>0, <1>g, <2>1 DEF OneStarter, Busy
  <2>3. \A u \in Thread : thread'[u].at = "respawning" => Owed'
    BY <1>0, <1>g, <2>1 DEF OneStarter, Owed
  <2>6. OneStarter'
    BY <1>0, <1>g, <2>2, <2>3 DEF OneStarter
  <2>4. WindowTypes'
    BY <1>0, <1>g DEF WindowTypes
  <2>5. \A u \in Thread : thread'[u].at \in {"found", "up"} => thread'[u].device \in Address
    BY <1>0, <1>g, <2>1 DEF WorkerTypes
  <2> QED
    BY <1>0, <1>g, <2>1, <2>4, <2>5, <2>6 DEF WorkerTypes, Linked
<1>a. \A at \in {"none", "loop", "found", "up", "wait", "ending", "respawning", "gone"} :
        /\ [thread[t] EXCEPT !.at = at] \in Slot
        /\ [thread[t] EXCEPT !.at = at].at = at
        /\ [thread[t] EXCEPT !.at = at].device = thread[t].device
  BY <1>0 DEF Slot
<1>l. [NotRunning EXCEPT !.at = "loop"] \in Slot /\ NotRunning \in Slot
      /\ [NotRunning EXCEPT !.at = "loop"].at = "loop" /\ NotRunning.at = "none"
  BY LoopSlot DEF NotRunning
<1>1. CASE WorkerFinds(t)
  <2>1. PICK device \in Address :
          thread' = [thread EXCEPT ![t] = [at |-> "found", aim |-> settings.address,
                                           device |-> device]]
    BY <1>1 DEF WorkerFinds
  <2>2. [at |-> "found", aim |-> settings.address, device |-> device] \in Slot
    BY <1>0 DEF Slot, Maybe
  <2>3. Busy(t) /\ UNCHANGED <<windowVars, current, flags>>
    BY <1>1 DEF WorkerFinds, Busy
  <2> QED
    BY <1>g, <2>1, <2>2, <2>3
<1>2. CASE WorkerLeaves(t)
  <2>1. PICK at \in {"ending", "wait"} : thread' = [thread EXCEPT ![t].at = at]
    BY <1>2 DEF WorkerLeaves
  <2> QED
    BY <1>2, <1>g, <1>a, <2>1 DEF WorkerLeaves, Busy
<1>3. CASE WorkerFails(t)
  BY <1>3, <1>g, <1>a DEF WorkerFails, Busy
<1>4. CASE WorkerConnects(t)
  <2>1. thread[t].device \in Address
    BY <1>0, <1>4 DEF WorkerConnects, WorkerTypes
  <2> QED
    BY <1>4, <1>g, <1>a, <2>1 DEF WorkerConnects, Busy
<1>5. CASE SessionEnds(t)
  BY <1>5, <1>g, <1>l DEF SessionEnds, Busy
<1>6. CASE WaitEnds(t)
  BY <1>6, <1>g, <1>l DEF WaitEnds, Busy
<1>7. CASE ThreadLooks(t)
  BY <1>7, <1>g, <1>a DEF ThreadLooks, Busy
<1>8. CASE ThreadRespawns(t)
  <2>1. /\ Spawned({t}, flags.want) /\ flags.owed /\ flags.want /\ thread[t].at = "respawning"
        /\ UNCHANGED windowVars
    BY <1>0, <1>8 DEF ThreadRespawns, OneStarter, Owed
  <2>2. \A u \in Thread : Busy(u) => u \in {t}
    BY <1>0, <2>1 DEF OneStarter, Busy
  <2>3. /\ WorkerTypes' /\ Alone'
        /\ flags'.want /\ ~flags'.stop /\ ~flags'.owed
    BY <1>0, <2>1, <2>2, SpawnedAlone
  <2>4. aims = 0 /\ gui.at \notin {"joining", "late"}
    BY <1>0, <2>1 DEF OneStarter
  <2>5. OneStarter'
    BY <1>0, <2>1, <2>3, <2>4 DEF OneStarter, Alone
  <2> QED
    BY <1>0, <2>1, <2>3, <2>5 DEF WindowTypes, Linked
<1>9. CASE ThreadEnds(t)
  BY <1>9, <1>g, <1>l DEF ThreadEnds
<1> QED
  BY <1>1, <1>2, <1>3, <1>4, <1>5, <1>6, <1>7, <1>8, <1>9 DEF WorkerStep

(***************************************************************************)
(* The search for the phone, the signals and the world.                    *)
(***************************************************************************)
LEMMA SearchTypes ==
  ASSUME OtherTypes
  PROVE  /\ \A a, d, p : Finds(a, d, p, search) => search' \in Search
         /\ \A a \in Address, met \in {"refuses", "bare", "silent"} :
              AfterFailure(search, a, met) \in Search
         /\ \A a \in Address : [search EXCEPT !.sidelined = {}, !.suspect = a] \in Search
         /\ [search EXCEPT !.fails = 0] \in Search
<1>0. search \in Search /\ search.suspect \in Maybe(Address) /\ search.fails \in 0..3
      /\ search.sidelined \subseteq Address /\ search.probe \in BOOLEAN
  BY DEF OtherTypes, Search
<1>1. ASSUME NEW a, NEW d, NEW p, Finds(a, d, p, search) PROVE search' \in Search
  <2>1. {search.suspect} \ {NoAddress} \in SUBSET Address
    BY <1>0 DEF Maybe
  <2>2. \A listed : Rotated(search, listed) \in Search
    BY <1>0, <2>1 DEF Rotated, Search
  <2>3. PICK r \in Search : search' = r \/ search' = [r EXCEPT !.probe = FALSE]
    BY <1>0, <1>1, <2>2 DEF Finds
  <2>4. [r EXCEPT !.probe = FALSE] \in Search
    BY DEF Search
  <2> QED
    BY <2>3, <2>4
<1>2. ASSUME NEW a \in Address, NEW met \in {"refuses", "bare", "silent"}
      PROVE  AfterFailure(search, a, met) \in Search
  <2>1. Sideline(search, a) \in Search
    BY <1>0 DEF Sideline, Search, Maybe
  <2>2. [Sideline(search, a) EXCEPT !.probe = TRUE] \in Search
    BY <2>1 DEF Search
  <2>3. [search EXCEPT !.fails = IF @ < 3 THEN @ + 1 ELSE @, !.probe = @ \/ search.fails = 1]
          \in Search
    <3>1. (IF search.fails < 3 THEN search.fails + 1 ELSE search.fails) \in 0..3
      BY <1>0
    <3>2. (search.probe \/ search.fails = 1) \in BOOLEAN
      BY <1>0
    <3> QED
      BY <1>0, <3>1, <3>2 DEF Search
  <2> QED
    BY <2>1, <2>2, <2>3 DEF AfterFailure
<1>3. ASSUME NEW a \in Address PROVE [search EXCEPT !.sidelined = {}, !.suspect = a] \in Search
  BY <1>0 DEF Search, Maybe
<1>4. [search EXCEPT !.fails = 0] \in Search
  BY <1>0 DEF Search
<1> QED
  BY <1>1, <1>2, <1>3, <1>4

LEMMA OtherStep ==
  ASSUME TypeOK, [Next]_vars
  PROVE  OtherTypes'
<1>0. /\ OtherTypes /\ answers \in [Address -> {"shares", "refuses", "bare", "silent"}]
      /\ paired \subseteq Entry /\ search \in Search /\ mail \in Seq(Address)
      /\ Len(mail) <= MaxMail /\ Len(mail) \in Nat /\ acts \in 0..MaxActs
      /\ thread \in [Thread -> Slot]
  BY DEF TypeOK, OtherTypes, WorkerTypes
<1>f. ASSUME UNCHANGED <<worldVars, search, mail>>, UNCHANGED acts \/ Act PROVE OtherTypes'
  BY <1>0, <1>f DEF OtherTypes, Act
<1>m. ASSUME NEW a \in Address, Mails(a) \/ UNCHANGED mail
      PROVE  mail' \in Seq(Address) /\ Len(mail') <= MaxMail
  <2>1. CASE Mails(a)
    <3>1. Len(mail) + 1 <= MaxMail
      BY <1>0, <2>1 DEF Mails
    <3> QED
      BY <1>0, <2>1, <3>1, Appended DEF Mails
  <2> QED
    BY <1>0, <1>m, <2>1
<1>1. ASSUME WindowStep PROVE OtherTypes'
  <2>1. CASE LearnedArrives
    <3>1. mail' \in Seq(Address) /\ Len(mail') <= MaxMail
      BY <1>0, <2>1, Consumed DEF LearnedArrives
    <3> QED
      BY <1>0, <2>1, <3>1 DEF LearnedArrives, OtherTypes
  <2> QED
    BY <1>1, <1>f, <2>1 DEF WindowStep, DialogOpens, UserPicks, UserSwitches, DialogCloses,
       UserTests, AimEnds, JoinEnds, RestartIsOwed, StartReturns
<1>2. ASSUME WizardStep PROVE OtherTypes'
  BY <1>2, <1>f DEF WizardStep, WizardStarts, WizardEnds, WizardTries, WizardProves
<1>3. ASSUME NEW t \in Thread, WorkerStep(t) PROVE OtherTypes'
  <2>1. CASE WorkerFinds(t)
    <3>1. PICK device \in Address, proof \in BOOLEAN :
            /\ Finds(settings.address, device, proof, search)
            /\ IF proof THEN Mails(device) ELSE UNCHANGED mail
      BY <2>1 DEF WorkerFinds
    <3>2. search' \in Search
      BY <1>0, <3>1, SearchTypes
    <3>3. mail' \in Seq(Address) /\ Len(mail') <= MaxMail
      BY <1>m, <3>1
    <3> QED
      BY <1>0, <2>1, <3>2, <3>3 DEF WorkerFinds, OtherTypes
  <2>2. CASE \/ WorkerLeaves(t) \/ WaitEnds(t) \/ ThreadLooks(t) \/ ThreadRespawns(t)
             \/ ThreadEnds(t)
    BY <1>f, <2>2 DEF WorkerLeaves, WaitEnds, ThreadLooks, ThreadRespawns, ThreadEnds
  <2>3. CASE WorkerFails(t) \/ WorkerConnects(t)
    <3>1. thread[t].device \in Address
      BY <2>3 DEF WorkerFails, WorkerConnects, TypeOK, WorkerTypes
    <3>2. search' \in Search
      <4>1. answers[thread[t].device] # "shares" =>
              answers[thread[t].device] \in {"refuses", "bare", "silent"}
        BY <1>0, <3>1
      <4>2. \/ search' = AfterFailure(search, thread[t].device, answers[thread[t].device])
               /\ answers[thread[t].device] # "shares"
            \/ search' = AfterFailure(search, thread[t].device, "silent")
            \/ search' = [search EXCEPT !.sidelined = {}, !.suspect = thread[t].device]
        BY <2>3 DEF WorkerFails, WorkerConnects
      <4> QED
        BY <1>0, <3>1, <4>1, <4>2, SearchTypes
    <3>3. acts' \in 0..MaxActs
      BY <1>0, <2>3 DEF WorkerFails, WorkerConnects, Act
    <3>4. mail' \in Seq(Address) /\ Len(mail') <= MaxMail
      BY <1>m, <2>3, <3>1 DEF WorkerFails, WorkerConnects
    <3> QED
      BY <1>0, <2>3, <3>2, <3>3, <3>4 DEF WorkerFails, WorkerConnects, OtherTypes
  <2>4. CASE SessionEnds(t)
    <3>1. search' \in Search
      BY <1>0, <2>4, SearchTypes DEF SessionEnds
    <3>2. acts' \in 0..MaxActs
      BY <1>0, <2>4 DEF SessionEnds, Act
    <3> QED
      BY <1>0, <2>4, <3>1, <3>2 DEF SessionEnds, OtherTypes
  <2> QED
    BY <1>3, <2>1, <2>2, <2>3, <2>4 DEF WorkerStep
<1>4. ASSUME Serve PROVE OtherTypes'
  BY <1>4, <1>f DEF Serve, Serving
<1>5. ASSUME PhoneNotifies PROVE OtherTypes'
  BY <1>5, <1>f DEF PhoneNotifies, Serving
<1>6. ASSUME AnswerChanges PROVE OtherTypes'
  <2>1. answers' \in [Address -> {"shares", "refuses", "bare", "silent"}]
    BY <1>0, <1>6 DEF AnswerChanges
  <2>2. acts' \in 0..MaxActs
    BY <1>0, <1>6 DEF AnswerChanges, Act
  <2> QED
    BY <1>0, <1>6, <2>1, <2>2 DEF AnswerChanges, OtherTypes
<1>7. ASSUME PairingChanges PROVE OtherTypes'
  <2>1. paired' \subseteq Entry
    BY <1>0, <1>7 DEF PairingChanges
  <2>2. acts' \in 0..MaxActs
    BY <1>0, <1>7 DEF PairingChanges, Act
  <2> QED
    BY <1>0, <1>7, <2>1, <2>2 DEF PairingChanges, OtherTypes
<1>8. ASSUME UNCHANGED vars PROVE OtherTypes'
  BY <1>8, <1>f DEF vars
<1> QED
  BY <1>1, <1>2, <1>3, <1>4, <1>5, <1>6, <1>7, <1>8 DEF Next

(***************************************************************************)
(* The invariant.                                                          *)
(***************************************************************************)
LEMMA SessionSteps ==
  ASSUME TypeOK, [Next]_vars
  PROVE  ServeStep
<1>1. testing \in BOOLEAN
  BY DEF TypeOK, ServeTypeOK
<1>f. ASSUME UNCHANGED serveVars PROVE ServeStep
  BY <1>1, <1>f DEF serveVars, ServeStep
<1>2. ASSUME WindowStep PROVE ServeStep
  <2>1. CASE UserTests
    <3>1. testing' \in BOOLEAN
      BY <1>1, <2>1 DEF UserTests, Connected
    <3> QED
      BY <2>1, <3>1 DEF UserTests, ServeStep
  <2> QED
    BY <1>2, <1>f, <2>1 DEF WindowStep, DialogOpens, UserPicks, UserSwitches, DialogCloses,
       AimEnds, LearnedArrives, JoinEnds, RestartIsOwed, StartReturns
<1>3. ASSUME WizardStep PROVE ServeStep
  BY <1>3, <1>f DEF WizardStep, WizardStarts, WizardEnds, WizardTries, WizardProves
<1>4. ASSUME NEW t \in Thread, WorkerStep(t) PROVE ServeStep
  BY <1>4, <1>f DEF WorkerStep, WorkerFinds, WorkerLeaves, WorkerFails, WorkerConnects,
     SessionEnds, WaitEnds, ThreadLooks, ThreadRespawns, ThreadEnds, ServeStep
<1>5. ASSUME Serve \/ PhoneNotifies PROVE ServeStep
  BY <1>5 DEF Serve, PhoneNotifies, ServeStep
<1>6. ASSUME AnswerChanges \/ PairingChanges \/ UNCHANGED vars PROVE ServeStep
  BY <1>6, <1>f DEF AnswerChanges, PairingChanges, vars
<1> QED
  BY <1>2, <1>3, <1>4, <1>5, <1>6 DEF Next

LEMMA LinkedStep ==
  ASSUME "two_aims" \notin Hazards, "late_look" \notin Hazards, Inductive, [Next]_vars
  PROVE  Linked'
<1>0. WindowTypes /\ WorkerTypes /\ OneStarter
  BY DEF Inductive, TypeOK
<1>f. ASSUME UNCHANGED <<windowVars, workerVars>> PROVE Linked'
  BY <1>0, <1>f DEF Linked, WindowTypes, WorkerTypes, OneStarter, Busy, Owed
<1> QED
  BY <1>f, WindowStepKeeps, WizardStepKeeps, WorkerStepKeeps
     DEF Next, Serve, Serving, PhoneNotifies, AnswerChanges, PairingChanges, vars

\* One starter leaves one thread on the radio.
LEMMA OneStarterOneThread ==
  ASSUME WorkerTypes, OneStarter
  PROVE  OneThreadOnTheRadio
<1>1. Working \subseteq {current} /\ \A t \in Working : t = current
  <2>1. \A t \in Thread : t # NoThread
    OBVIOUS
  <2> QED
    BY <2>1 DEF Working, OneStarter, Busy
<1>2. Cardinality(Working) <= 1
  <2>1. Cardinality({current}) = 1 /\ IsFiniteSet({current})
    BY FS_Singleton
  <2>2. Cardinality(Working) <= Cardinality({current})
    BY <1>1, <2>1, FS_Subset
  <2> QED
    BY <2>1, <2>2
<1> QED
  BY <1>1, <1>2 DEF OneThreadOnTheRadio, OneStarter

LEMMA PhoneInit ==
  ASSUME Init
  PROVE  Inductive
<1>0. NoAddress \in Maybe(Address)
  BY DEF Maybe
<1>1. WindowTypes
  <2>1. settings \in Choice /\ aimed \in Maybe(Address)
    BY DEF Init, Choice, Maybe
  <2>2. gui \in Gui /\ aims = 0
    BY LoopSlot DEF Init
  <2>3. dialog \in [open : BOOLEAN, on : BOOLEAN, address : Maybe(Address), named : BOOLEAN]
        /\ wizard \in Setup
    BY <1>0 DEF Init, Closed, NoSetup, Setup
  <2> QED
    BY <2>1, <2>2, <2>3 DEF WindowTypes, Gui
<1>2. WorkerTypes /\ OneStarter
  <2>1. PICK t \in Thread :
          /\ thread = [u \in Thread |-> IF u = t THEN [NotRunning EXCEPT !.at = "loop"]
                                        ELSE NotRunning]
          /\ current = t
    BY DEF Init
  <2>2. thread \in [Thread -> Slot] /\ \A u \in Thread : u # t => thread[u].at = "none"
    BY <2>1, LoopSlot
  <2>3. \A u \in Thread : thread[u].at \notin {"found", "up"}
    BY <2>1 DEF NotRunning
  <2>4. flags \in FlagTypes /\ flags.want /\ ~flags.owed
    BY DEF Init, FlagTypes
  <2>5. gui.at = "free" /\ aims = 0
    BY DEF Init, FreeGui
  <2> QED
    BY <2>1, <2>2, <2>3, <2>4, <2>5, LoopSlot DEF WorkerTypes, FlagTypes, OneStarter, Busy
<1>3. OtherTypes
  <2>1. search \in Search
    BY <1>0 DEF Init, Search
  <2>2. mail \in Seq(Address) /\ Len(mail) <= MaxMail /\ acts \in 0..MaxActs
    BY DEF Init
  <2> QED
    BY <2>1, <2>2 DEF Init, OtherTypes
<1>4. ServeTypeOK
  <2>1. queue \in Seq(Note) /\ Len(queue) <= MaxPending
    BY DEF Init, ServeInit
  <2>2. testing \in BOOLEAN
    BY DEF Init, ServeInit
  <2> QED
    BY <2>1, <2>2, NoFetchIsCommand DEF Init, ServeInit, ServeTypeOK
<1>5. OnePlaceEach /\ ToldAsSent
  BY DEF Init, ServeInit, NoFetch, OnePlaceEach, ToldAsSent
<1> QED
  BY <1>1, <1>2, <1>3, <1>4, <1>5 DEF Inductive, TypeOK

-----------------------------------------------------------------------------

\* Unless the link is aimed at another phone twice within 1.5 s, or a call of the
\* window falls between a thread's last look and what follows from it, no order
\* of starts, stops, joins that time out and owed restarts leaves two threads on
\* the radio or a thread that works for a window that ended it; and every
\* notification is told once and with its own text, whatever answers are late
\* or lost (PhoneLinkWorker's start, stop, _maybe_respawn, _run and _serve).
THEOREM PhoneLinkInvariant ==
  ASSUME "two_aims" \notin Hazards, "late_look" \notin Hazards
  PROVE  Spec => []PhoneInv
<1>1. Init => Inductive
  BY PhoneInit
<1>2. Inductive /\ [Next]_vars => Inductive'
  <2> SUFFICES ASSUME Inductive, [Next]_vars PROVE Inductive'
    OBVIOUS
  <2>1. TypeOK /\ OnePlaceEach /\ ToldAsSent /\ ServeTypeOK
    BY DEF Inductive, TypeOK
  <2>2. ServeStep
    BY <2>1, SessionSteps
  <2>3. ServeTypeOK' /\ OnePlaceEach' /\ ToldAsSent'
    BY <2>1, <2>2, ServeTypes, ServePlaces
  <2>4. WindowTypes' /\ WorkerTypes' /\ OneStarter'
    BY LinkedStep DEF Linked
  <2>5. OtherTypes'
    BY <2>1, OtherStep
  <2> QED
    BY <2>3, <2>4, <2>5 DEF Inductive, TypeOK
<1>3. Inductive => PhoneInv
  BY OneStarterOneThread DEF Inductive, TypeOK, PhoneInv
<1> QED
  BY <1>1, <1>2, <1>3, PTL DEF Spec

\* While Windows answers the queries for the paired list, the guided setup says
\* that the phone is not paired only when that list holds no iPhone, whatever was
\* paired and removed meanwhile (setup_iphone's last look at the list).
THEOREM NotPairedIsNeverWrong ==
  ASSUME "blind_list" \notin Hazards
  PROVE  Spec => NotPairedIsTrue
<1> DEFINE SetupOK == wizard \in Setup /\ paired \subseteq Entry
           Verdict == wizard.on /\ ~wizard'.on /\ wizard'.verdict = "needs" => paired = {}
<1>1. Init => SetupOK
  BY DEF Init, NoSetup, Setup, Maybe
<1>2. SetupOK /\ [Next]_vars => SetupOK' /\ [Verdict]_vars
  <2> SUFFICES ASSUME SetupOK, [Next]_vars PROVE SetupOK' /\ (Verdict \/ UNCHANGED vars)
    OBVIOUS
  <2>f. ASSUME UNCHANGED <<wizard, paired>> PROVE SetupOK' /\ Verdict
    BY <2>f
  <2>1. CASE WindowStep
    <3>1. NoSetup \in Setup /\ NoSetup.verdict = "none"
      BY DEF NoSetup, Setup, Maybe
    <3>2. CASE DialogCloses
      BY <3>1, <3>2 DEF DialogCloses
    <3> QED
      BY <2>1, <2>f, <3>2 DEF WindowStep, DialogOpens, UserPicks, UserSwitches,
         UserTests, AimEnds, LearnedArrives, JoinEnds, RestartIsOwed, StartReturns
  <2>2. CASE WizardStep
    <3>0. SetupOK'
      BY <2>2, SetupTypes DEF WizardStep, WizardStarts, WizardEnds, WizardTries, WizardProves
    <3>1. CASE WizardStarts
      BY <3>0, <3>1 DEF WizardStarts
    <3>2. CASE WizardEnds
      <4>1. wizard' = [wizard EXCEPT !.on = FALSE, !.verdict = Ruling(wizard.verdict, paired)]
        BY <3>2 DEF WizardEnds, Listed
      <4>2. wizard'.verdict = Ruling(wizard.verdict, paired)
        BY <4>1 DEF Setup
      <4> QED
        BY <3>0, <4>2 DEF Ruling
    <3>3. ASSUME NEW a \in Address, WizardTries(a) PROVE SetupOK' /\ Verdict
      <4>1. wizard'.on = wizard.on
        BY <3>3 DEF WizardTries, Remember, Setup
      <4> QED
        BY <3>0, <4>1
    <3>4. ASSUME NEW a \in Address, WizardProves(a) PROVE SetupOK' /\ Verdict
      <4>1. wizard'.verdict = "works"
        BY <3>4 DEF WizardProves, NoSetup
      <4> QED
        BY <3>0, <4>1
    <3> QED
      BY <2>2, <3>1, <3>2, <3>3, <3>4 DEF WizardStep
  <2>3. ASSUME NEW t \in Thread, WorkerStep(t) PROVE SetupOK' /\ Verdict
    BY <2>3, <2>f DEF WorkerStep, WorkerFinds, WorkerLeaves, WorkerFails, WorkerConnects,
       SessionEnds, WaitEnds, ThreadLooks, ThreadRespawns, ThreadEnds
  <2>4. CASE Serve \/ PhoneNotifies \/ AnswerChanges
    BY <2>4, <2>f DEF Serve, Serving, PhoneNotifies, AnswerChanges
  <2>5. CASE PairingChanges
    <3>1. paired' \subseteq Entry /\ wizard' = wizard
      BY <2>5 DEF PairingChanges
    <3> QED
      BY <3>1
  <2>6. CASE UNCHANGED vars
    BY <2>6 DEF vars
  <2> QED
    BY <2>1, <2>2, <2>3, <2>4, <2>5, <2>6 DEF Next
<1> QED
  BY <1>1, <1>2, PTL DEF Spec, NotPairedIsTrue

=============================================================================
