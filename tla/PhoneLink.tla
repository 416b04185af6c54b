------------------------------ MODULE PhoneLink ------------------------------
(***************************************************************************)
(* Mirroring the notifications of an iPhone over Bluetooth.                *)
(*                                                                         *)
(*   window   main_window.py and settings_dialog.py, the GUI thread: the   *)
(*            settings, the dialog and the guided setup; start and stop    *)
(*   worker   phone/link.py, PhoneLinkWorker: a thread that finds the      *)
(*            phone, connects, subscribes and serves (PhoneServe)          *)
(*   world    Windows' paired list and what each address answers           *)
(*                                                                         *)
(* An address is an entry of the paired list, which never broadcasts, or a *)
(* beacon, an anonymous broadcast of an Apple device.  Time is abstracted: *)
(* a wait may end at any moment, a join may time out.  Everything the      *)
(* environment does is drawn from one budget.  Status texts are left out.  *)
(***************************************************************************)
EXTENDS PhoneServe, FiniteSets

CONSTANTS
  Entry,       \* addresses the paired list may hold, each named iPhone
  Beacon,      \* anonymous broadcast addresses
  NoAddress,
  Thread,      \* slots for threads of the worker
  NoThread,
  MaxActs,     \* bound: acts of the user and changes of the world
  MaxMail,     \* bound: signals of the worker waiting for the GUI thread
  Hazards      \* which of AllHazards the environment may produce

\* two_aims: the link is re-aimed twice within the 1.5 s of one re-aim
\* unreachable_entry: an entry of the paired list cannot be connected to
\* late_look: a stop() falls between a thread's look at an owed restart and the
\*   respawn, or both looks of start() between that look and the thread's death
\* blind_list: a query for the paired list fails, which reads as entries missing
AllHazards == {"two_aims", "unreachable_entry", "late_look", "blind_list"}

Address == Entry \cup Beacon

ASSUME PhoneLinkAssumption ==
  /\ IsFiniteSet(Entry) /\ IsFiniteSet(Beacon) /\ Entry \cap Beacon = {}
  /\ NoAddress \notin Address /\ NoThread \notin Thread
  /\ MaxActs \in Nat /\ MaxMail \in Nat \ {0}
  /\ Hazards \subseteq AllHazards

VARIABLES
  answers,   \* what a connection to an address meets
  paired,    \* Windows' paired list
  settings,  \* phone_link_enabled, phone_ble_address, and whether
             \* phone_ble_name is the name of the paired entries
  aimed,     \* _phone_last_address
  aims,      \* re-aims whose delayed start is still to come
  gui,       \* where the GUI thread is inside start(), and the thread meant
  dialog,    \* the settings dialog: open, and what it will save
  wizard,    \* the guided setup: running, candidates left, verdict
  thread,    \* per slot: where it is, the stored address it read, the device
  current,   \* _thread
  flags,     \* want, stop, owed: _want, _stop, _restart_pending
  search,    \* _sidelined, _last_suspect, _needs_probe, _consecutive_failures
  mail,      \* learned signals on their way to the GUI thread
  acts

worldVars == <<answers, paired>>
windowVars == <<settings, aimed, aims, gui, dialog, wizard>>
workerVars == <<thread, current, flags, search>>
vars == <<worldVars, windowVars, workerVars, mail, acts, serveVars>>

NotRunning == [at |-> "none", aim |-> NoAddress, device |-> NoAddress]
Closed == [open |-> FALSE, on |-> FALSE, address |-> NoAddress, named |-> FALSE]
NoSetup == [on |-> FALSE, left |-> {}, verdict |-> "none", address |-> NoAddress]
FreeGui == [at |-> "free", thread |-> NoThread]

Maybe(S) == S \cup {NoAddress}

Choice == [on : BOOLEAN, address : Maybe(Address), named : BOOLEAN]
Setup == [on : BOOLEAN, left : SUBSET Address, address : Maybe(Address),
          verdict : {"none", "works", "pending", "needs"}]
Slot == [at : {"none", "loop", "found", "up", "wait", "ending", "respawning", "gone"},
         aim : Maybe(Address), device : Maybe(Address)]
Search == [sidelined : SUBSET Address, suspect : Maybe(Address), probe : BOOLEAN,
           fails : 0..3]

WindowTypes ==
  /\ settings \in Choice
  /\ aimed \in Maybe(Address) /\ aims \in 0..2
  /\ gui \in [at : {"free", "joining", "late", "flagged"}, thread : Thread \cup {NoThread}]
  /\ dialog \in [open : BOOLEAN, on : BOOLEAN, address : Maybe(Address), named : BOOLEAN]
  /\ wizard \in Setup

WorkerTypes ==
  /\ thread \in [Thread -> Slot] /\ current \in Thread \cup {NoThread}
  /\ \A t \in Thread : thread[t].at \in {"found", "up"} => thread[t].device \in Address
  /\ flags \in [want : BOOLEAN, stop : BOOLEAN, owed : BOOLEAN]

OtherTypes ==
  /\ answers \in [Address -> {"shares", "refuses", "bare", "silent"}]
  /\ paired \subseteq Entry /\ search \in Search
  /\ mail \in Seq(Address) /\ Len(mail) <= MaxMail
  /\ acts \in 0..MaxActs

TypeOK == WindowTypes /\ WorkerTypes /\ OtherTypes /\ ServeTypeOK

\* is_alive(): a thread that is "gone" has nothing left to do, and still is.
Alive(t) == t # NoThread /\ thread[t].at # "none"
Connected == \E t \in Thread : thread[t].at = "up"

Init ==
  /\ answers \in [Address -> {"shares", "refuses", "bare", "silent"}]
  /\ "unreachable_entry" \in Hazards \/ \A e \in Entry : answers[e] # "silent"
  /\ paired \in SUBSET Entry
  /\ settings \in [on : {TRUE}, address : Address, named : {FALSE}]
  /\ aimed = settings.address /\ aims = 0 /\ gui = FreeGui
  /\ dialog = Closed /\ wizard = NoSetup
  /\ \E t \in Thread :
       /\ thread = [u \in Thread |-> IF u = t THEN [NotRunning EXCEPT !.at = "loop"]
                                     ELSE NotRunning]
       /\ current = t
  /\ flags = [want |-> TRUE, stop |-> FALSE, owed |-> FALSE]
  /\ search = [sidelined |-> {}, suspect |-> NoAddress, probe |-> FALSE, fails |-> 0]
  /\ mail = <<>> /\ acts = 0 /\ ServeInit

Act == acts < MaxActs /\ acts' = acts + 1

-----------------------------------------------------------------------------
(* Start and stop, called by the GUI thread.                               *)

\* _spawn, by the GUI thread or by the threads of the worker that end with it
Spawned(ending, wanted) ==
  \E t \in Thread :
    /\ thread[t].at = "none"
    /\ thread' = [u \in Thread |->
                    IF u = t THEN [NotRunning EXCEPT !.at = "loop"]
                    ELSE IF u \in ending THEN [NotRunning EXCEPT !.at = "gone"]
                    ELSE thread[u]]
    /\ current' = t
    /\ flags' = [want |-> wanted, stop |-> FALSE, owed |-> FALSE]

\* start(): nothing beside a running thread; a stopping one is joined first.
Start ==
  IF ~Alive(current) THEN Spawned({}, TRUE) /\ UNCHANGED gui
  ELSE /\ flags' = [flags EXCEPT !.want = TRUE]
       /\ gui' = IF flags.stop THEN [at |-> "joining", thread |-> current] ELSE gui
       /\ UNCHANGED <<thread, current>>

\* The join succeeds, or its 4 s are over ...
JoinEnds ==
  /\ gui.at = "joining"
  /\ IF Alive(gui.thread)
     THEN gui' = [gui EXCEPT !.at = "late"] /\ UNCHANGED <<thread, current, flags>>
     ELSE Spawned({}, flags.want) /\ gui' = FreeGui
  /\ UNCHANGED <<worldVars, settings, aimed, aims, dialog, wizard, search, mail,
                 acts, serveVars>>

\* ... and the restart is left to the thread.
RestartIsOwed ==
  /\ gui.at = "late" /\ gui' = [gui EXCEPT !.at = "flagged"]
  /\ flags' = [flags EXCEPT !.owed = TRUE]
  /\ UNCHANGED <<worldVars, settings, aimed, aims, dialog, wizard, thread, current,
                 search, mail, acts, serveVars>>

\* Mutant: only the thread looks for an owed restart.
NoSecondLook == FALSE
\* The second look at the thread: it may have ended in between.
OwedAfterAll == ~Alive(gui.thread) /\ flags.owed /\ flags.want

StartReturns ==
  /\ gui.at = "flagged" /\ gui' = FreeGui
  /\ thread[gui.thread].at = "gone" => "late_look" \in Hazards
  /\ IF OwedAfterAll THEN Spawned({}, flags.want) ELSE UNCHANGED <<thread, current, flags>>
  /\ UNCHANGED <<worldVars, settings, aimed, aims, dialog, wizard, search, mail,
                 acts, serveVars>>

Stop ==
  /\ (\E t \in Thread : thread[t].at = "respawning") => "late_look" \in Hazards
  /\ flags' = [want |-> FALSE, stop |-> TRUE, owed |-> FALSE]

-----------------------------------------------------------------------------
(* The window.                                                             *)

\* _apply_phone_link_settings with the settings s
Apply(s) ==
  LET wanted == s.on /\ s.address # NoAddress IN
  /\ aimed' = s.address
  /\ \/ /\ wanted /\ ~Alive(current) /\ Start /\ UNCHANGED aims
     \/ /\ ~wanted /\ Alive(current) /\ Stop
        /\ UNCHANGED <<gui, aims, thread, current>>
     \/ /\ wanted /\ Alive(current) /\ s.address # aimed /\ Stop
        /\ aims < IF "two_aims" \in Hazards THEN 2 ELSE 1
        /\ aims' = aims + 1
        /\ UNCHANGED <<gui, thread, current>>
     \/ /\ wanted = Alive(current) /\ (wanted => s.address = aimed)
        /\ UNCHANGED <<gui, aims, thread, current, flags>>

GuiIsFree == gui.at = "free"

\* open_settings: the dialog keeps the choice it was opened with.
DialogOpens ==
  /\ GuiIsFree /\ ~dialog.open /\ Act
  /\ dialog' = [open |-> TRUE, on |-> settings.on, address |-> settings.address,
                named |-> settings.named]
  /\ UNCHANGED <<worldVars, settings, aimed, aims, gui, wizard, workerVars, mail,
                 serveVars>>

\* A row of the picker: an entry of the paired list, or a broadcast.
UserPicks ==
  /\ GuiIsFree /\ dialog.open /\ ~wizard.on /\ Act
  /\ \E a \in paired \cup {b \in Beacon : answers[b] # "silent"} :
       dialog' = [dialog EXCEPT !.on = TRUE, !.address = a, !.named = a \in paired]
  /\ UNCHANGED <<worldVars, settings, aimed, aims, gui, wizard, workerVars, mail,
                 serveVars>>

UserSwitches ==
  /\ GuiIsFree /\ dialog.open /\ ~wizard.on /\ Act
  /\ dialog' = [dialog EXCEPT !.on = ~@]
  /\ UNCHANGED <<worldVars, settings, aimed, aims, gui, wizard, workerVars, mail,
                 serveVars>>

\* Save writes every field, Cancel none; both apply the settings.  A setup that
\* still runs has nobody to report to.
DialogCloses ==
  /\ GuiIsFree /\ dialog.open
  /\ \E s \in {settings, [on |-> dialog.on, address |-> dialog.address,
                          named |-> dialog.named]} :
       settings' = s /\ Apply(s)
  /\ dialog' = Closed /\ wizard' = NoSetup
  /\ UNCHANGED <<worldVars, search, mail, acts, serveVars>>

\* The timer of a re-aim
AimEnds ==
  /\ GuiIsFree /\ aims > 0 /\ aims' = aims - 1 /\ Start
  /\ UNCHANGED <<worldVars, settings, aimed, dialog, wizard, search, mail, acts,
                 serveVars>>

\* _on_phone_learned
LearnedArrives ==
  /\ GuiIsFree /\ mail # <<>> /\ mail' = Tail(mail)
  /\ settings' = [settings EXCEPT !.address = Head(mail)] /\ aimed' = Head(mail)
  /\ UNCHANGED <<worldVars, aims, gui, dialog, wizard, workerVars, acts, serveVars>>

\* test_phone_link: start a link that does not run, or ask for a round trip.
\* (While it is not connected the test cuts the present wait short.)
UserTests ==
  /\ GuiIsFree /\ Act /\ settings.on /\ settings.address # NoAddress
  /\ IF Alive(current)
     THEN /\ testing' = (testing \/ Connected)
          /\ UNCHANGED <<aimed, aims, gui, thread, current, flags>>
     ELSE Apply(settings) /\ UNCHANGED testing
  /\ UNCHANGED <<worldVars, settings, dialog, wizard, search, mail,
                 queue, fetch, air, names, posted, told>>

-----------------------------------------------------------------------------
(* The guided setup: setup_iphone, attach-only, on a thread of its own.    *)

Broadcasting == {b \in Beacon : answers[b] # "silent"}

\* _paired_rows_with_notes: what a read of the paired list may return.  A query
\* that fails only leaves a note.
Listed == IF "blind_list" \in Hazards THEN SUBSET paired ELSE {paired}

\* _connect_wizard pauses the link, which may take a while to notice.
WizardStarts ==
  /\ GuiIsFree /\ dialog.open /\ ~wizard.on /\ Act
  /\ \E listed \in Listed :
       wizard' = [NoSetup EXCEPT !.on = TRUE, !.left = Broadcasting \cup listed]
  /\ IF Alive(current) THEN Stop ELSE UNCHANGED flags
  /\ UNCHANGED <<worldVars, settings, aimed, aims, gui, dialog, thread, current,
                 search, mail, serveVars>>

\* remember: evidence of a bond outranks the guess that there is none.
Remember(verdict, a) ==
  IF wizard.verdict = "none" \/ (verdict = "pending" /\ wizard.verdict = "needs")
  THEN [wizard EXCEPT !.verdict = verdict, !.address = a, !.left = @ \ {a}]
  ELSE [wizard EXCEPT !.left = @ \ {a}]

\* A refusal: the record of the address, and the paired list as authority
Refusal(listed) == IF listed # {} THEN "pending" ELSE "needs"

\* _try_candidate: broadcasts first, the strongest first; then the entries.
WizardTries(a) ==
  /\ wizard.on /\ a \in wizard.left /\ answers[a] # "shares"
  /\ a \in Beacon \/ wizard.left \cap Beacon = {}
  /\ \E listed \in Listed :
       wizard' = IF answers[a] = "refuses" THEN Remember(Refusal(listed), a)
                 ELSE [wizard EXCEPT !.left = @ \ {a}]
  /\ UNCHANGED <<worldVars, settings, aimed, aims, gui, dialog, workerVars, mail,
                 acts, serveVars>>

\* A candidate that answers ends the setup, and the picker with its address.
WizardProves(a) ==
  /\ wizard.on /\ a \in wizard.left /\ answers[a] = "shares"
  /\ a \in Beacon \/ wizard.left \cap Beacon = {}
  /\ wizard' = [NoSetup EXCEPT !.verdict = "works", !.address = a]
  /\ dialog' = [dialog EXCEPT !.on = TRUE, !.address = a, !.named = FALSE]
  /\ UNCHANGED <<worldVars, settings, aimed, aims, gui, workerVars, mail, acts,
                 serveVars>>

\* Mutant: the verdict of the candidates stands.
AsRemembered(verdict, listed) == verdict
\* The last check of the authority before the harshest verdict
Ruling(verdict, listed) ==
  IF verdict = "needs" /\ listed # {} THEN "pending" ELSE verdict

\* A verdict short of proof leaves the picker open: its address is taken with
\* OK, or left.
WizardEnds ==
  /\ wizard.on /\ wizard.left = {}
  /\ \E listed \in Listed :
       wizard' = [wizard EXCEPT !.on = FALSE, !.verdict = Ruling(@, listed)]
  /\ dialog' \in {dialog} \cup
       IF wizard.verdict = "none" THEN {}
       ELSE {[dialog EXCEPT !.on = TRUE, !.address = wizard.address, !.named = FALSE]}
  /\ UNCHANGED <<worldVars, settings, aimed, aims, gui, workerVars, mail, acts,
                 serveVars>>

-----------------------------------------------------------------------------
(* The worker's thread: finding the phone.                                 *)

\* The listing order of the paired list
First(S) == CHOOSE e \in S : TRUE

\* Mutant: the set of failed addresses is never restarted.
KeepSidelined(s, listed) == s
\* _rotation_choice: when every entry had its turn, only the latest is left out.
Rotated(s, listed) ==
  IF listed \subseteq s.sidelined
  THEN [s EXCEPT !.sidelined = {s.suspect} \ {NoAddress}] ELSE s

\* _probe_candidates: a broadcast that serves notifications to this PC.
Proven(s) == {b \in Beacon \ s.sidelined : answers[b] \in {"shares", "refuses"}}

\* Where the stored address leads: the first entry of the chosen name, else it.
Target(a, listed) == IF settings.named /\ listed # {} THEN First(listed) ELSE a

\* _find_device as a relation: the stored address, the device found, whether it
\* was found by proof, and the state of the search before and after.  The list is
\* read twice, for the rotation and for the target.
Finds(a, device, proof, s) ==
  \E listed, again \in Listed :
  LET rotates == s.sidelined # {} /\ listed # {}
      r == IF rotates THEN Rotated(s, listed) ELSE s
      fresh == listed \ r.sidelined
      target == Target(a, again)
      visible == {target, a} \cap Broadcasting
  IN
  /\ search' = IF proof THEN [r EXCEPT !.probe = FALSE] ELSE r
  /\ IF rotates /\ fresh # {} THEN ~proof /\ device = First(fresh)
     ELSE IF s.probe /\ Proven(r) # {} THEN proof /\ device \in Proven(r)
     ELSE IF visible # {} THEN ~proof /\ device \in visible
     ELSE IF Cardinality(Broadcasting) = 1 /\ ~s.probe
          THEN ~proof /\ device \in Broadcasting
     ELSE IF Proven(r) # {} THEN proof /\ device \in Proven(r)
     ELSE ~proof /\ device = target

Mails(a) == Len(mail) < MaxMail /\ mail' = Append(mail, a)

\* The top of _main's loop, up to the connection.  Stop is not looked at again
\* before the connection is made.
WorkerFinds(t) ==
  /\ thread[t].at = "loop" /\ ~flags.stop /\ settings.address # NoAddress
  /\ \E device \in Address, proof \in BOOLEAN :
       /\ Finds(settings.address, device, proof, search)
       /\ thread' = [thread EXCEPT ![t] = [at |-> "found", aim |-> settings.address,
                                           device |-> device]]
       /\ IF proof THEN Mails(device) ELSE UNCHANGED mail
  /\ UNCHANGED <<worldVars, windowVars, current, flags, acts, serveVars>>

\* No phone is chosen, or the link is to stop.
WorkerLeaves(t) ==
  /\ thread[t].at = "loop"
  /\ \/ flags.stop /\ thread' = [thread EXCEPT ![t].at = "ending"]
     \/ ~flags.stop /\ settings.address = NoAddress
        /\ thread' = [thread EXCEPT ![t].at = "wait"]
  /\ UNCHANGED <<worldVars, windowVars, current, flags, search, mail, acts,
                 serveVars>>

Sideline(s, a) == [s EXCEPT !.sidelined = @ \cup {a}, !.suspect = a]

\* PairingNeeded, AncsMissing and any other failure of a session
AfterFailure(s, a, met) ==
  CASE met = "refuses" -> Sideline(s, a)
    [] met = "bare" -> [Sideline(s, a) EXCEPT !.probe = TRUE]
    [] met = "silent" -> [s EXCEPT !.fails = IF @ < 3 THEN @ + 1 ELSE @,
                                   !.probe = @ \/ s.fails = 1]

\* _session: the connection, the service, the subscription
WorkerFails(t) ==
  /\ thread[t].at = "found"
  /\ \/ answers[thread[t].device] # "shares" /\ UNCHANGED acts
        /\ search' = AfterFailure(search, thread[t].device, answers[thread[t].device])
     \/ Act /\ search' = AfterFailure(search, thread[t].device, "silent")
  /\ thread' = [thread EXCEPT ![t].at = "wait"]
  /\ UNCHANGED <<worldVars, windowVars, current, flags, mail, serveVars>>

WorkerConnects(t) ==
  /\ thread[t].at = "found" /\ answers[thread[t].device] = "shares"
  /\ search' = [search EXCEPT !.sidelined = {}, !.suspect = thread[t].device]
  /\ IF thread[t].device # thread[t].aim THEN Mails(thread[t].device)
     ELSE UNCHANGED mail
  /\ thread' = [thread EXCEPT ![t].at = "up"]
  /\ UNCHANGED <<worldVars, windowVars, current, flags, acts, serveVars>>

\* A session ends: it is stopped, the phone is gone, or the radio drops it.
SessionEnds(t) ==
  /\ thread[t].at = "up"
  /\ \/ (flags.stop \/ answers[thread[t].device] = "silent") /\ UNCHANGED acts
     \/ Act
  /\ thread' = [thread EXCEPT ![t] = [NotRunning EXCEPT !.at = "loop"]]
  /\ search' = [search EXCEPT !.fails = 0]
  /\ SessionDropped
  /\ UNCHANGED <<worldVars, windowVars, current, flags, mail>>

\* A wait is over, cut short by a kick, or stopped.
WaitEnds(t) ==
  /\ thread[t].at = "wait"
  /\ thread' = [thread EXCEPT ![t] = [NotRunning EXCEPT !.at = "loop"]]
  /\ UNCHANGED <<worldVars, windowVars, current, flags, search, mail, acts,
                 serveVars>>

-----------------------------------------------------------------------------
(* The worker's thread: its end.                                           *)

Owed == flags.owed /\ flags.want

\* _run's finally: _maybe_respawn looks ...
ThreadLooks(t) ==
  /\ thread[t].at = "ending"
  /\ thread' = [thread EXCEPT ![t].at = IF Owed THEN "respawning" ELSE "gone"]
  /\ UNCHANGED <<worldVars, windowVars, current, flags, search, mail, acts, serveVars>>

\* ... and spawns what it saw owed: a stop() in between is cleared unseen.
ThreadRespawns(t) ==
  /\ thread[t].at = "respawning" /\ Spawned({t}, flags.want)
  /\ UNCHANGED <<worldVars, windowVars, search, mail, acts, serveVars>>

ThreadEnds(t) ==
  /\ thread[t].at = "gone" /\ thread' = [thread EXCEPT ![t] = NotRunning]
  /\ UNCHANGED <<worldVars, windowVars, current, flags, search, mail, acts, serveVars>>

-----------------------------------------------------------------------------
(* Serving, and the world.                                                 *)

Serving == Connected /\ UNCHANGED <<worldVars, windowVars, workerVars, mail>>

Serve ==
  /\ Serving /\ UNCHANGED acts
  /\ ServeTests \/ ServeFetches \/ FragmentArrives \/ ServeAnswered \/ ServeGivesUp

PhoneNotifies ==
  /\ Serving /\ Act
  /\ \E n \in Note : NotePosted(n) \/ NoteReplayed(n)

\* The phone moves, its broadcast rotates, its switch is flipped.
AnswerChanges ==
  /\ Act
  /\ \E a \in Address, met \in {"shares", "refuses", "bare", "silent"} :
       /\ a \in Entry /\ met = "silent" => "unreachable_entry" \in Hazards
       /\ answers' = [answers EXCEPT ![a] = met]
  /\ UNCHANGED <<paired, windowVars, workerVars, mail, serveVars>>

\* The user pairs the phone, or removes an entry; pairing is what the guided
\* setup asks for while it runs.
PairingChanges ==
  /\ IF wizard.on THEN UNCHANGED acts ELSE Act
  /\ \E e \in Entry : paired' = (IF e \in paired THEN paired \ {e} ELSE paired \cup {e})
  /\ UNCHANGED <<answers, windowVars, workerVars, mail, serveVars>>

-----------------------------------------------------------------------------
WindowStep ==
  \/ DialogOpens \/ UserPicks \/ UserSwitches \/ DialogCloses \/ UserTests
  \/ AimEnds \/ LearnedArrives
  \/ JoinEnds \/ RestartIsOwed \/ StartReturns

WizardStep ==
  \/ WizardStarts \/ WizardEnds
  \/ \E a \in Address : WizardTries(a) \/ WizardProves(a)

WorkerStep(t) ==
  \/ WorkerFinds(t) \/ WorkerLeaves(t) \/ WorkerFails(t) \/ WorkerConnects(t)
  \/ SessionEnds(t) \/ WaitEnds(t)
  \/ ThreadLooks(t) \/ ThreadRespawns(t) \/ ThreadEnds(t)

Next ==
  \/ WindowStep \/ WizardStep \/ \E t \in Thread : WorkerStep(t)
  \/ Serve \/ PhoneNotifies \/ AnswerChanges \/ PairingChanges

Spec == Init /\ [][Next]_vars

\* Threads run, timers fire, signals are delivered.  The user need not act.
Fairness ==
  /\ \A t \in Thread : WF_vars(WorkerStep(t))
  /\ WF_vars(JoinEnds \/ RestartIsOwed \/ StartReturns)
  /\ WF_vars(AimEnds) /\ WF_vars(LearnedArrives) /\ WF_vars(Serve)

FairSpec == Spec /\ Fairness

-----------------------------------------------------------------------------
(* Properties.                                                             *)

\* Delayed stops, owed restarts and re-aims never leave two threads on the
\* radio, nor a thread that works for a window that has ended it.
Working == {t \in Thread : thread[t].at \in {"loop", "found", "up", "wait"}}
OneThreadOnTheRadio ==
  /\ Cardinality(Working) <= 1
  /\ Working # {} => current \in Working
  /\ Working # {} /\ ~flags.stop => flags.want

\* What that rests on: only the current thread has anything left to do, a join is
\* for it, and a restart is owed only when no re-aim is left to start the link too.
\* (With two re-aims pending both may: README, 9.)
Busy(t) == thread[t].at \notin {"none", "gone"}
OneStarter ==
  /\ \A t \in Thread : Busy(t) => t = current
  /\ \A t \in Thread : thread[t].at = "respawning" => Owed
  /\ flags.stop \/ flags.want
  /\ aims <= 1
  /\ gui.at # "free" \/ flags.owed => aims = 0
  /\ gui.at \in {"joining", "late"} =>
       gui.thread = current /\ flags.want /\ flags.stop /\ ~flags.owed
  /\ gui.at = "flagged" /\ flags.owed => gui.thread = current

PhoneInv ==
  TypeOK /\ OneThreadOnTheRadio /\ OneStarter /\ ToldAsSent /\ OnePlaceEach

\* start() is never swallowed: however long the old thread takes to stop, the
\* link runs again, unless it is stopped meanwhile.
Running == current \in Working /\ ~flags.stop
StartIsHonoured == flags.want ~> (Running \/ ~flags.want)

\* While a paired entry shares its notifications the link is found again,
\* although others refuse, withhold the service or have left.
Shared ==
  /\ flags.want
  /\ \E e \in paired : answers[e] = "shares"
  /\ settings.address \in paired \cup Broadcasting
LinkIsFound == Shared ~> (Connected \/ ~Shared)

\* The setup says that the phone is not paired only when Windows' paired list
\* holds no iPhone, whatever changed while it went through the candidates.
NotPairedIsTrue ==
  [][wizard.on /\ ~wizard'.on /\ wizard'.verdict = "needs" => paired = {}]_vars

\* An event that was queued is settled, whatever answers fail to come.
QueueIsServed == (queue # <<>>) ~> (queue = <<>> \/ ~Connected)

\* "The background link resumes after the dialog closes": a link that is
\* switched on, for a phone that is chosen, runs unless its settings are open.
\* Not so after a setup whose thread was still ending (README, 9).
LinkResumes ==
  (settings.on /\ ~dialog.open) ~> (flags.want \/ ~settings.on \/ dialog.open)
=============================================================================
