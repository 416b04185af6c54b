----------------------------- MODULE PhoneServe -----------------------------
(***************************************************************************)
(* Serving one connected session of the phone link: events of the          *)
(* Notification Source are queued, one command at a time asks for their    *)
(* attributes, and the answers come back in fragments on the Data Source   *)
(* (link.py: _subscribe, _serve; ancs.py).                                 *)
(*                                                                         *)
(* An answer is a head, which carries the command and the uid or the       *)
(* application, and a tail.  The phone answers in order; an answer may be  *)
(* late: the command that asked for it has then been given up, and its     *)
(* fragments reach whatever command is pending.  All notifications are of  *)
(* one application.                                                        *)
(***************************************************************************)
EXTENDS Naturals, Sequences

CONSTANTS
  Note,        \* notifications of the phone
  Muted,       \* those of an application the settings ignore
  NoNote,
  MaxPending   \* length of the queue (10 in the code)

ASSUME PhoneServeAssumption ==
  Muted \subseteq Note /\ NoNote \notin Note /\ MaxPending \in Nat \ {0}

VARIABLES
  queue,    \* events waiting for their attributes
  fetch,    \* the command in flight: its kind, notification and fragments
  air,      \* fragments on their way from the phone
  names,    \* _app_names of the application: "unknown", "known" or "none"
  testing,  \* _test_flag
  posted,   \* notifications the phone has shown
  told      \* history: what the notification signal carried, in order

serveVars == <<queue, fetch, air, names, testing, posted, told>>

NoFetch == [kind |-> "none", note |-> NoNote, text |-> NoNote, got |-> <<>>]

\* Whom an answer is for: a notification, or the name of an application.
Subject == Note \cup {"name", "test"}
Fragment == [of : Subject, part : {"head", "tail"}]
Answer(s) == <<[of |-> s, part |-> "head"], [of |-> s, part |-> "tail"]>>

Command == [kind : {"none", "attributes", "name", "test"}, note : Note \cup {NoNote},
            text : Subject \cup {NoNote}, got : Seq(Fragment)]
Telling == [note : Note, text : Subject, named : BOOLEAN]

ServeTypeOK ==
  /\ queue \in Seq(Note) /\ Len(queue) <= MaxPending
  /\ fetch \in Command /\ air \in Seq(Fragment)
  /\ names \in {"unknown", "known", "none"}
  /\ testing \in BOOLEAN /\ posted \subseteq Note
  /\ told \in Seq(Telling)

ServeInit ==
  /\ queue = <<>> /\ fetch = NoFetch /\ air = <<>>
  /\ names = "unknown" /\ testing = FALSE
  /\ posted = {} /\ told = <<>>

\* The end of a session drops its queue, its command and its fragments.
SessionDropped ==
  /\ queue' = <<>> /\ fetch' = NoFetch /\ air' = <<>>
  /\ UNCHANGED <<names, testing, posted, told>>

-----------------------------------------------------------------------------
(* Notification Source.                                                    *)

\* should_alert: neither changes and removals, nor the backlog which the phone
\* replays on every connection.
ShouldAlert(kind) == kind = "added"

\* on_notification_source
EventArrives(n, kind) ==
  /\ queue' = IF ShouldAlert(kind) /\ Len(queue) < MaxPending
              THEN Append(queue, n) ELSE queue
  /\ posted' = posted \cup {n}
  /\ UNCHANGED <<fetch, air, names, testing, told>>

NotePosted(n) == n \notin posted /\ EventArrives(n, "added")
NoteReplayed(n) == n \in posted /\ EventArrives(n, "replayed")

-----------------------------------------------------------------------------
(* _serve: one command in flight.                                          *)

Expects(f) == IF f.kind = "attributes" THEN f.note ELSE f.kind

\* The command is written; the phone answers it now or never.
Asks(kind, n, text) ==
  /\ fetch' = [kind |-> kind, note |-> n, text |-> text, got |-> <<>>]
  /\ air' \in {air \o Answer(IF kind = "attributes" THEN n ELSE kind), air}

ServeTests ==
  /\ fetch.kind = "none" /\ testing /\ testing' = FALSE
  /\ Asks("test", NoNote, NoNote)
  /\ UNCHANGED <<queue, names, posted, told>>

ServeFetches ==
  /\ fetch.kind = "none" /\ ~testing /\ queue # <<>>
  /\ queue' = Tail(queue)
  /\ Asks("attributes", Head(queue), NoNote)
  /\ UNCHANGED <<names, testing, posted, told>>

\* Mutant: the uid of an answer is not compared.
HeadOfAny(f, fragment) == fragment.part = "head" /\ (fragment.of \in Note) = (f.note # NoNote)
\* _try_parse: the command, and the uid or the application
HeadOfOwn(f, fragment) == fragment = [of |-> Expects(f), part |-> "head"]

Foreign(f) == f.got # <<>> /\ ~HeadOfOwn(f, f.got[1])
Whole(f) == Len(f.got) = 2 /\ ~Foreign(f)
Done(f) == Foreign(f) \/ Whole(f)

\* on_data_source: fed to the pending response, if one is not yet done.
FragmentArrives ==
  /\ air # <<>> /\ air' = Tail(air)
  /\ fetch' = IF fetch.kind = "none" \/ Done(fetch) THEN fetch
              ELSE [fetch EXCEPT !.got = Append(@, Head(air))]
  /\ UNCHANGED <<queue, names, testing, posted, told>>

Told(n, text, name) ==
  told' = Append(told, [note |-> n, text |-> text, named |-> name = "known"])

\* A response that is not whole drops the event; of an application that is
\* ignored it goes no further.
AttributesEnd(whole) ==
  LET text == fetch.got[1].of IN
  IF ~whole \/ fetch.note \in Muted
  THEN fetch' = NoFetch /\ UNCHANGED <<air, told>>
  ELSE IF names = "unknown"
  THEN Asks("name", fetch.note, text) /\ UNCHANGED told
  ELSE fetch' = NoFetch /\ Told(fetch.note, text, names) /\ UNCHANGED air

\* _app_display_name: kept whatever came of it.
NameEnds(whole) ==
  LET name == IF whole THEN "known" ELSE "none" IN
  /\ names' = name /\ Told(fetch.note, fetch.text, name)
  /\ fetch' = NoFetch /\ UNCHANGED air

CommandEnds(whole) ==
  /\ \/ fetch.kind = "attributes" /\ AttributesEnd(whole) /\ UNCHANGED names
     \/ fetch.kind = "name" /\ NameEnds(whole)
     \/ fetch.kind = "test" /\ fetch' = NoFetch /\ UNCHANGED <<air, names, told>>
  /\ UNCHANGED <<queue, testing, posted>>

ServeAnswered == Done(fetch) /\ CommandEnds(Whole(fetch))

\* Mutant: a command waits for its answer.
WaitsForever == FALSE /\ UNCHANGED serveVars
\* COMMAND_TIMEOUT_S, or the write fails
ServeGivesUp == ~Done(fetch) /\ CommandEnds(FALSE)

-----------------------------------------------------------------------------
\* A notification is told once, and with its own text, whatever answers were
\* late, missing or meant for a command that was given up.
ToldAsSent ==
  \A i, j \in DOMAIN told :
    /\ told[i].text = told[i].note
    /\ told[i].note = told[j].note => i = j

\* What that rests on: a notification is in one place at a time, waiting, asked
\* about or told, and its text stays its own while the name is asked for.
OnePlaceEach ==
  /\ fetch.kind \in {"attributes", "name"} <=> fetch.note # NoNote
  /\ fetch.kind = "name" => fetch.text = fetch.note
  /\ fetch.note # NoNote =>
       fetch.note \in posted /\ \A k \in DOMAIN told : told[k].note # fetch.note
  /\ \A k \in DOMAIN told : told[k].note \in posted
  /\ \A i \in DOMAIN queue :
       /\ queue[i] \in posted /\ queue[i] # fetch.note
       /\ \A j \in DOMAIN queue : queue[i] = queue[j] => i = j
       /\ \A k \in DOMAIN told : told[k].note # queue[i]
=============================================================================
