---------------------------- MODULE AgentLifetime ----------------------------
(***************************************************************************)
(* Who runs the background agent, and how a window replaces an agent of    *)
(* another version.                                                        *)
(*                                                                         *)
(*   supervisor   agent_supervisor.pyw: one per user (a mutex), started by *)
(*                a window, the installer, logon or the hourly failsafe,   *)
(*                from the folder of either version                        *)
(*   agent        run_agent.py: one per user (a lock file); takes over the *)
(*                database, opens the channel, writes a heartbeat          *)
(*   link         AgentLink of a running window of version "new"           *)
(*   installer    run_agent.py --wait-ready                                *)
(*                                                                         *)
(* Time is abstracted to the orders the code waits for: a shot that is     *)
(* pending may fire at any time, a deadline may pass at any time, and what *)
(* a throttle forbids is allowed again after a step of its own.  Equal     *)
(* shots pending at once are one.  The commands a link buffers are in      *)
(* SendPath.                                                               *)
(***************************************************************************)
EXTENDS Naturals, FiniteSets

CONSTANTS
  Agent,       \* slots for agent processes
  NoAgent,
  MaxForced,   \* forced spawns of a handoff (8 in the code)
  MaxFaults,   \* bound: crashes, hangs, kills, failsafes and time-outs
  MaxStops,    \* bound: stops and launches from outside the window
  Hazards      \* which of AllHazards the environment may produce

\* broken_lock: the lock file is taken while its holder lives
\* old_folder: the folder of the old version is still launched
\* unwatched_hang: an agent hangs that no supervisor holds, or its supervisor
\*   is killed while it hangs; only a supervisor reads the heartbeat of its
\*   child
AllHazards == {"broken_lock", "old_folder", "unwatched_hang"}

ASSUME AgentLifetimeAssumption ==
  /\ NoAgent \notin Agent /\ IsFiniteSet(Agent)
  /\ MaxForced \in Nat \ {0} /\ MaxFaults \in Nat /\ MaxStops \in Nat
  /\ Hazards \subseteq AllHazards

Version == {"old", "new"}

VARIABLES
  agent,      \* per slot: state, version and exit code of the process
  endpoint,   \* the agents that listen under the name of the channel
  owner,      \* meta active_agent_instance_id
  asked,      \* agents with a stop_agent command still to be read
  sup,        \* the supervisor with the mutex: state, version, child
  arriving,   \* versions of supervisors started, not yet at the mutex
  link,       \* AgentLink: peer and handshake, the state of the handoff, and
              \* throttled, paused: its two clocks
  shots,      \* single shots of the link: "poll", "launch", "retry"
  installer,  \* "idle", "waiting" or "done"
  requested,  \* history: agents told to stop, by a command or as not owner
  launches,   \* history: forced spawns since the last agent of version "new"
  broken,     \* history: the lock file was taken from a living holder
  faults, stops

vars == <<agent, endpoint, owner, asked, sup, arriving, link, shots,
          installer, requested, launches, broken, faults, stops>>
linkVars == <<link, shots, launches>>
agentVars == <<agent, endpoint, owner, asked>>
bounds == <<broken, faults, stops>>

NoProcess == [state |-> "free", ver |-> "new", rc |-> 0]
Booted(v) == [state |-> "boot", ver |-> v, rc |-> 0]
IdleLink == [peer |-> NoAgent, greeted |-> FALSE, valid |-> FALSE,
             active |-> FALSE, forced |-> 0, late |-> FALSE,
             paused |-> FALSE, throttled |-> FALSE]

\* Past the lock file, and serving the channel.
Owning == {"locked", "up", "hung", "quit", "closed"}
Serving == {"up", "hung", "quit"}
Holders == {a \in Agent : agent[a].state \in Owning}
Connected == link.peer # NoAgent

AgentTypes ==
  /\ agent \in [Agent -> [state : Owning \cup {"free", "boot", "gone"},
                          ver : Version, rc : {0, 1, 3}]]
  /\ owner \in Agent
  /\ endpoint \subseteq Agent /\ asked \subseteq Agent /\ requested \subseteq Agent

SupervisorTypes ==
  /\ sup \in [state : {"off", "launch", "watch", "monitor", "backoff"},
              ver : Version, child : Agent \cup {NoAgent}]
  /\ arriving \subseteq Version

LinkTypes ==
  /\ link \in [peer : Agent \cup {NoAgent}, greeted : BOOLEAN, valid : BOOLEAN,
               active : BOOLEAN, forced : 0..MaxForced + 1, late : BOOLEAN,
               paused : BOOLEAN, throttled : BOOLEAN]
  /\ shots \subseteq {"poll", "launch", "retry"}
  /\ launches \in 0..MaxForced + 1

OtherTypes ==
  /\ installer \in {"idle", "waiting", "done"} /\ broken \in BOOLEAN
  /\ faults \in 0..MaxFaults /\ stops \in 0..MaxStops

TypeOK == AgentTypes /\ SupervisorTypes /\ LinkTypes /\ OtherTypes

\* The window of the new version opens beside an agent of either version.
Init ==
  \E a \in Agent, v \in Version :
    /\ agent = [b \in Agent |-> IF b = a THEN [state |-> "up", ver |-> v, rc |-> 0]
                                ELSE NoProcess]
    /\ endpoint = {a} /\ owner = a /\ asked = {}
    /\ sup = [state |-> "watch", ver |-> v, child |-> a] /\ arriving = {}
    /\ link = IdleLink /\ shots = {} /\ installer = "idle"
    /\ requested = {} /\ launches = 0 /\ broken = FALSE /\ faults = 0 /\ stops = 0

Fault == faults < MaxFaults /\ faults' = faults + 1

-----------------------------------------------------------------------------
(* The agent process.                                                      *)

\* A process is gone.  The slot of the supervisor's child is kept until the
\* supervisor polls its exit code.
Exits(a, rc) ==
  /\ agent' = [agent EXCEPT ![a] =
       IF sup.child = a THEN [@ EXCEPT !.state = "gone", !.rc = rc] ELSE NoProcess]
  /\ endpoint' = endpoint \ {a} /\ asked' = asked \ {a}

\* Its window notices; closing the channel disconnects as well.
Hangup(a) ==
  IF link.peer = a
  THEN link' = [link EXCEPT !.peer = NoAgent, !.greeted = FALSE, !.valid = FALSE]
  ELSE UNCHANGED link

\* Mutant: the lock file is not asked.
Unlocked == TRUE
\* tryLock, with a stale time of 0: only a dead holder gives way.
LockIsFree == Holders = {}

\* main: the lock, then AgentCore.__init__, which takes over the database.
AgentLocks(a) ==
  /\ agent[a].state = "boot"
  /\ IF LockIsFree THEN UNCHANGED <<broken, faults>>
     ELSE "broken_lock" \in Hazards /\ Fault /\ broken' = TRUE
  /\ agent' = [agent EXCEPT ![a].state = "locked"] /\ owner' = a
  /\ UNCHANGED <<endpoint, asked, sup, arriving, linkVars, installer, requested,
                 stops>>

\* AGENT_EXIT_DUPLICATE
AgentIsDuplicate(a) ==
  /\ agent[a].state = "boot" /\ ~LockIsFree
  /\ Exits(a, 3)
  /\ UNCHANGED <<owner, sup, arriving, linkVars, installer, requested, bounds>>

\* AgentServer.__init__ listens.  The channel is a named pipe, whose name two
\* agents can serve; removeServer is for the socket files of other systems.
AgentListens(a) ==
  /\ agent[a].state = "locked"
  /\ agent' = [agent EXCEPT ![a].state = "up"] /\ endpoint' = endpoint \cup {a}
  /\ UNCHANGED <<owner, asked, sup, arriving, linkVars, installer, requested,
                 bounds>>

\* It cannot listen: it leaves as a duplicate, having taken the database.  Past
\* a broken lock the name is another agent's, and no further fault is needed.
AgentCannotListen(a) ==
  /\ agent[a].state = "locked"
  /\ IF endpoint = {} THEN Fault ELSE UNCHANGED faults
  /\ Exits(a, 3)
  /\ UNCHANGED <<owner, sup, arriving, linkVars, installer, requested, broken, stops>>

\* handle_command: stop_agent quits the event loop.
AgentStops(a) ==
  /\ agent[a].state = "up" /\ a \in asked
  /\ agent' = [agent EXCEPT ![a].state = "quit"] /\ asked' = asked \ {a}
  /\ UNCHANGED <<endpoint, owner, sup, arriving, linkVars, installer,
                 requested, bounds>>

\* Mutant: the heartbeat is written whoever owns the database.
NeverRetires(a) == FALSE /\ UNCHANGED vars

\* _heartbeat_tick of an agent that no longer owns the database
AgentRetires(a) ==
  /\ agent[a].state = "up" /\ owner # a
  /\ agent' = [agent EXCEPT ![a].state = "quit"]
  /\ requested' = requested \cup {a}
  /\ UNCHANGED <<endpoint, owner, asked, sup, arriving, linkVars, installer,
                 bounds>>

\* aboutToQuit: the workers are joined (up to 25 s), then the channel closes.
AgentCloses(a) ==
  /\ agent[a].state = "quit"
  /\ agent' = [agent EXCEPT ![a].state = "closed"]
  /\ endpoint' = endpoint \ {a} /\ asked' = asked \ {a}
  /\ Hangup(a)
  /\ UNCHANGED <<owner, sup, arriving, shots, launches, installer, requested,
                 bounds>>

AgentExits(a) ==
  /\ agent[a].state = "closed"
  /\ Exits(a, 0)
  /\ UNCHANGED <<owner, sup, arriving, linkVars, installer, requested, bounds>>

AgentCrashes(a) ==
  /\ agent[a].state \in Owning \ {"closed"} /\ Fault
  /\ Exits(a, 1) /\ Hangup(a)
  /\ UNCHANGED <<owner, sup, arriving, shots, launches, installer, requested,
                 broken, stops>>

Unwatched == "unwatched_hang" \in Hazards

\* The event loop hangs.
AgentHangs(a) ==
  /\ agent[a].state = "up" /\ (sup.child = a \/ Unwatched) /\ Fault
  /\ agent' = [agent EXCEPT ![a].state = "hung"]
  /\ UNCHANGED <<endpoint, owner, asked, sup, arriving, linkVars, installer,
                 requested, broken, stops>>

-----------------------------------------------------------------------------
(* The supervisor.                                                         *)

\* A supervisor reaches the mutex: it becomes the one, or leaves at once.
SupervisorArrives(v) ==
  /\ v \in arriving /\ arriving' = arriving \ {v}
  /\ sup' = IF sup.state = "off"
            THEN [state |-> "launch", ver |-> v, child |-> NoAgent] ELSE sup
  /\ UNCHANGED <<agentVars, linkVars, installer, requested, bounds>>

SupervisorLaunches(a) ==
  /\ sup.state = "launch" /\ agent[a].state = "free"
  /\ agent' = [agent EXCEPT ![a] = Booted(sup.ver)]
  /\ sup' = [sup EXCEPT !.state = "watch", !.child = a]
  /\ requested' = requested \ {a}
  /\ UNCHANGED <<endpoint, owner, asked, arriving, linkVars, installer, bounds>>

\* What the exit code of the child leads to.
ExitLeadsTo(rc) == IF rc = 3 THEN "monitor" ELSE IF rc = 0 THEN "off" ELSE "backoff"

SupervisorPolls ==
  /\ sup.state = "watch" /\ agent[sup.child].state = "gone"
  /\ sup' = [sup EXCEPT !.state = ExitLeadsTo(agent[sup.child].rc), !.child = NoAgent]
  /\ agent' = [agent EXCEPT ![sup.child] = NoProcess]
  /\ UNCHANGED <<endpoint, owner, asked, arriving, linkVars, installer,
                 requested, bounds>>

\* Mutant: the exit code of a terminated agent is taken as it is.
AsExited(rc) == ExitLeadsTo(rc)
\* A stale termination is a recovery, whatever the code.
AfterTermination(rc) == "backoff"

\* Mutant: only the exit of the child ends the watch.
NeverStale(a) == FALSE /\ UNCHANGED faults
\* A heartbeat older than 180 s: the child hangs; or the machine slept, or the
\* child is held up on its way out.
HeartbeatIsStale(a) ==
  \/ agent[a].state = "hung" /\ UNCHANGED faults
  \/ agent[a].state \in {"up", "quit"} /\ Fault

SupervisorTerminates ==
  /\ sup.state = "watch"
  /\ HeartbeatIsStale(sup.child)
  /\ \E rc \in IF agent[sup.child].state = "quit" THEN {0, 1} ELSE {1} :
       sup' = [sup EXCEPT !.state = AfterTermination(rc), !.child = NoAgent]
  /\ agent' = [agent EXCEPT ![sup.child] = NoProcess]
  /\ endpoint' = endpoint \ {sup.child} /\ asked' = asked \ {sup.child}
  /\ Hangup(sup.child)
  /\ UNCHANGED <<owner, arriving, shots, launches, installer, requested, broken, stops>>

\* The back-off, or the 15 s between two probes of an agent run elsewhere
SupervisorRetries ==
  /\ sup.state \in {"monitor", "backoff"}
  /\ sup' = [sup EXCEPT !.state = "launch"]
  /\ UNCHANGED <<agentVars, arriving, linkVars, installer, requested, bounds>>

\* The supervisor dies; a living child goes on as an orphan.
SupervisorKilled ==
  /\ sup.state # "off" /\ Fault
  /\ sup.child # NoAgent /\ agent[sup.child].state = "hung" => Unwatched
  /\ sup' = [sup EXCEPT !.state = "off", !.child = NoAgent]
  /\ agent' = [a \in Agent |->
       IF a = sup.child /\ agent[a].state = "gone" THEN NoProcess ELSE agent[a]]
  /\ UNCHANGED <<endpoint, owner, asked, arriving, linkVars, installer,
                 requested, broken, stops>>

\* The Startup entry or the hourly task of the folder that is left over
OldFolderLaunches ==
  /\ "old_folder" \in Hazards /\ Fault
  /\ arriving' = arriving \cup {"old"}
  /\ UNCHANGED <<agentVars, sup, linkVars, installer, requested, broken, stops>>

-----------------------------------------------------------------------------
(* The window's link.                                                      *)

\* The agent that reads stop_agent from its channel
Asks(a) == asked' = asked \cup {a} /\ requested' = requested \cup {a}

\* _maybe_spawn_agent
Spawn(l, force) ==
  IF l.throttled /\ ~force
  THEN link' = l /\ UNCHANGED arriving
  ELSE link' = [l EXCEPT !.throttled = TRUE] /\ arriving' = arriving \cup {"new"}

Dropped(l) == [l EXCEPT !.peer = NoAgent, !.greeted = FALSE, !.valid = FALSE]

\* _connect_now and its outcome: the endpoint, or an error and a spawn.
LinkConnects ==
  /\ ~link.paused /\ ~Connected
  /\ \/ \E a \in endpoint : link' = [link EXCEPT !.peer = a] /\ UNCHANGED arriving
     \/ endpoint = {} /\ Spawn(link, FALSE)
  /\ UNCHANGED <<agentVars, sup, shots, installer, requested, launches, bounds>>

\* _on_hello_timeout: the agent accepts the connection and says nothing.
LinkHearsNothing ==
  /\ Connected /\ ~link.greeted
  /\ agent[link.peer].state # "up"
  /\ Spawn(Dropped(link), link.active)
  /\ UNCHANGED <<agentVars, sup, shots, installer, requested, launches, bounds>>

\* _upgrade_expired
OutOfBudget == link.late \/ link.forced >= MaxForced
GivenUp(l) == [l EXCEPT !.active = FALSE, !.paused = FALSE, !.late = FALSE]

\* restart_for_upgrade, from the hello or from the window that receives it
Retiring(l) ==
  [l EXCEPT !.active = TRUE, !.forced = 0, !.late = FALSE, !.paused = TRUE]

\* _dispatch of a hello of this version
LinkValidates ==
  /\ Connected /\ ~link.greeted
  /\ agent[link.peer].state = "up" /\ agent[link.peer].ver = "new"
  /\ link' = [GivenUp(link) EXCEPT !.greeted = TRUE, !.valid = TRUE, !.forced = 0]
  /\ launches' = 0
  /\ UNCHANGED <<agentVars, sup, arriving, shots, installer, requested, bounds>>

\* ... and of another version.  When the budget is spent the handoff is given
\* up and the hello passed on; the window answers it with restart_for_upgrade,
\* as it does when no handoff is active.
LinkMeetsOtherVersion ==
  /\ Connected /\ ~link.greeted
  /\ agent[link.peer].state = "up" /\ agent[link.peer].ver # "new"
  /\ link' = IF link.active /\ ~OutOfBudget
             THEN [link EXCEPT !.greeted = TRUE, !.paused = TRUE]
             ELSE [Retiring(link) EXCEPT !.greeted = TRUE]
  /\ Asks(link.peer) /\ shots' = shots \cup {"poll"}
  /\ UNCHANGED <<agent, endpoint, owner, sup, arriving, installer, launches,
                 bounds>>

Fires(shot) == shot \in shots
\* A shot of a handoff that is over, or that is out of budget
ShotIsIdle(shot) ==
  /\ shots' = shots \ {shot}
  /\ link' = IF link.active THEN GivenUp(link) ELSE link
  /\ UNCHANGED <<arriving, launches>>

\* _poll_upgrade_stop: the old agent has hung up, or its 40 s are over.
LinkPolls ==
  /\ Fires("poll")
  /\ IF ~link.active \/ OutOfBudget THEN ShotIsIdle("poll")
     ELSE /\ shots' = (shots \ {"poll"}) \cup {"launch"}
          /\ link' = Dropped(link) /\ UNCHANGED <<arriving, launches>>
  /\ UNCHANGED <<agentVars, sup, installer, requested, bounds>>

ForcedSpawn(l) ==
  /\ Spawn([l EXCEPT !.forced = @ + 1], TRUE)
  /\ launches' = IF launches > MaxForced THEN launches ELSE launches + 1

\* _launch_upgrade_agent
LinkLaunches ==
  /\ Fires("launch")
  /\ IF ~link.active \/ OutOfBudget THEN ShotIsIdle("launch")
     ELSE /\ shots' = (shots \ {"launch"}) \cup {"retry"}
          /\ ForcedSpawn([link EXCEPT !.paused = FALSE])
  /\ UNCHANGED <<agentVars, sup, installer, requested, bounds>>

\* _retry_upgrade_launch: until the handoff ends, a spawn whenever there is no
\* connection.
LinkRetries ==
  /\ Fires("retry")
  /\ IF ~link.active \/ OutOfBudget THEN ShotIsIdle("retry")
     ELSE ~Connected /\ ForcedSpawn(link) /\ UNCHANGED shots
  /\ UNCHANGED <<agentVars, sup, installer, requested, bounds>>

\* The 180 s of a handoff pass.
HandoffIsLate ==
  /\ link.active /\ ~link.late /\ Fault
  /\ link' = [link EXCEPT !.late = TRUE]
  /\ UNCHANGED <<agentVars, sup, arriving, shots, installer, requested,
                 launches, broken, stops>>

\* The 30 s between two unforced spawns, and the pause between connections
LinkClock ==
  /\ \/ link.throttled /\ link' = [link EXCEPT !.throttled = FALSE]
     \/ link.paused /\ link' = [link EXCEPT !.paused = FALSE]
  /\ UNCHANGED <<agentVars, sup, arriving, shots, installer, requested,
                 launches, bounds>>

-----------------------------------------------------------------------------
(* Stop-Agent.bat, an agent run by hand, and the installer.                *)

\* run_agent.py --stop
StopRequested ==
  /\ stops < MaxStops /\ stops' = stops + 1
  /\ \E a \in endpoint : Asks(a)
  /\ UNCHANGED <<agent, endpoint, owner, sup, arriving, linkVars, installer,
                 broken, faults>>

\* run_agent.py in the foreground
AgentRunByHand(a) ==
  /\ stops < MaxStops /\ stops' = stops + 1
  /\ agent[a].state = "free"
  /\ agent' = [agent EXCEPT ![a] = Booted("new")]
  /\ requested' = requested \ {a}
  /\ UNCHANGED <<endpoint, owner, asked, sup, arriving, linkVars, installer,
                 broken, faults>>

\* run_agent.py --wait-ready
InstallerStarts ==
  /\ installer = "idle" /\ stops < MaxStops /\ stops' = stops + 1
  /\ installer' = "waiting" /\ arriving' = arriving \cup {"new"}
  /\ UNCHANGED <<agentVars, sup, linkVars, requested, broken, faults>>

InstallerMeets ==
  /\ installer = "waiting"
  /\ \E a \in endpoint :
       /\ agent[a].state = "up"
       /\ IF agent[a].ver = "new"
          THEN installer' = "done" /\ UNCHANGED <<asked, requested>>
          ELSE Asks(a) /\ UNCHANGED installer
  /\ UNCHANGED <<agent, endpoint, owner, sup, arriving, linkVars, bounds>>

InstallerLaunches ==
  /\ installer = "waiting" /\ "new" \notin arriving
  /\ arriving' = arriving \cup {"new"}
  /\ UNCHANGED <<agentVars, sup, linkVars, installer, requested, bounds>>

InstallerGivesUp ==
  /\ installer = "waiting" /\ installer' = "done"
  /\ UNCHANGED <<agentVars, sup, arriving, linkVars, requested, bounds>>

-----------------------------------------------------------------------------
AgentStep(a) ==
  \/ AgentLocks(a) \/ AgentIsDuplicate(a) \/ AgentListens(a) \/ AgentStops(a)
  \/ AgentRetires(a) \/ AgentCloses(a) \/ AgentExits(a)

AgentFault(a) == AgentCannotListen(a) \/ AgentCrashes(a) \/ AgentHangs(a)

SupervisorStep ==
  \/ \E v \in Version : SupervisorArrives(v)
  \/ \E a \in Agent : SupervisorLaunches(a)
  \/ SupervisorPolls \/ SupervisorTerminates \/ SupervisorRetries

LinkStep ==
  \/ LinkConnects \/ LinkHearsNothing \/ LinkValidates \/ LinkMeetsOtherVersion
  \/ LinkPolls \/ LinkLaunches \/ LinkRetries

InstallerStep ==
  InstallerStarts \/ InstallerMeets \/ InstallerLaunches \/ InstallerGivesUp

Next ==
  \/ \E a \in Agent : AgentStep(a) \/ AgentFault(a)
  \/ SupervisorStep \/ SupervisorKilled \/ OldFolderLaunches
  \/ LinkStep \/ HandoffIsLate \/ LinkClock
  \/ StopRequested \/ InstallerStep \/ \E a \in Agent : AgentRunByHand(a)

Spec == Init /\ [][Next]_vars

\* Processes run and timers fire.  The installer ends at its deadline.
Fairness ==
  /\ \A a \in Agent : WF_vars(AgentStep(a))
  /\ \A v \in Version : WF_vars(SupervisorArrives(v))
  /\ WF_vars((\E a \in Agent : SupervisorLaunches(a)) \/ SupervisorPolls
             \/ SupervisorTerminates \/ SupervisorRetries)
  /\ WF_vars(LinkConnects \/ LinkHearsNothing \/ LinkValidates
             \/ LinkMeetsOtherVersion)
  /\ WF_vars(LinkPolls) /\ WF_vars(LinkLaunches) /\ WF_vars(LinkRetries)
  /\ WF_vars(LinkClock) /\ WF_vars(InstallerGivesUp)

FairSpec == Spec /\ Fairness

-----------------------------------------------------------------------------
(* Properties.                                                             *)

\* One agent at a time is past the lock file, it owns the database, and the
\* channel is its own: crashes, duplicates, handoffs and rival launches never
\* let two senders run, or leave a channel to a process that has ended.
OneAgentServes ==
  /\ broken \/ (Cardinality(Holders) <= 1 /\ \A a \in Holders : owner = a)
  /\ \A a \in endpoint : agent[a].state \in Serving

\* What LetsGoOnRequest rests on: only an agent that was told to stop leaves
\* with exit code 0, and a command never reaches the next process of a slot.
LeftWithZero(a) ==
  \/ agent[a].state \in {"quit", "closed"}
  \/ agent[a].state = "gone" /\ agent[a].rc = 0
ZeroIsRequested ==
  /\ asked \subseteq requested
  /\ \A a \in asked : agent[a].state \in Serving
  /\ \A a \in Agent : LeftWithZero(a) => a \in requested
  /\ sup.state = "watch" => sup.child \in Agent

LifetimeInv == TypeOK /\ OneAgentServes /\ ZeroIsRequested

\* The supervisor lets go of the service only because its agent was told to
\* stop (or it is killed itself): a hang, a crash or a termination that
\* happens to exit with 0 is a recovery.
LetsGoOnRequest ==
  [][sup.state = "watch" /\ sup'.state = "off" =>
       \/ sup.child \in requested /\ agent[sup.child].state = "gone"
       \/ SupervisorKilled]_vars

\* Two agents past a broken lock do not stay: the one that lost the database
\* retires at its next heartbeat.
RivalsRetire == []<>(Cardinality(Holders) <= 1)

\* An open window always gets back to an agent of its own version, through
\* crashes, hangs, stops, orphans and launches of the old folder.
WindowIsServed == []<>link.valid

\* What the comment on the budget of a handoff says: at most so many forced
\* spawns before an agent of the new version answers.  Not so: a handoff
\* that gives up on an old agent is followed by another one (README, 9).
HandoffIsBounded == launches <= MaxForced
=============================================================================
