-------------------------- MODULE AgentLifetimeProofs --------------------------
(***************************************************************************)
(* Proofs about AgentLifetime for every number of agent processes, forced  *)
(* spawns, faults and stops, with and without its hazards.                 *)
(***************************************************************************)
EXTENDS AgentLifetime, FiniteSetTheorems, TLAPS

USE AgentLifetimeAssumption DEF linkVars, agentVars, bounds, Version

Process == [state : Owning \cup {"free", "boot", "gone"}, ver : Version,
            rc : {0, 1, 3}]
Peer == [peer : Agent \cup {NoAgent}, greeted : BOOLEAN, valid : BOOLEAN,
         active : BOOLEAN, forced : 0..MaxForced + 1, late : BOOLEAN,
         paused : BOOLEAN, throttled : BOOLEAN]

(***************************************************************************)
(* The end of a process touches its own slot and its own endpoint only.    *)
(***************************************************************************)
LEMMA ExitsTypes ==
  ASSUME AgentTypes, NEW a \in Agent, NEW rc \in {0, 1, 3}, Exits(a, rc)
  PROVE  /\ agent' \in [Agent -> Process]
         /\ endpoint' \subseteq Agent /\ asked' \subseteq Agent
<1>1. agent \in [Agent -> Process] /\ endpoint \subseteq Agent /\ asked \subseteq Agent
  BY DEF AgentTypes, Process
<1>2. NoProcess \in Process /\ [agent[a] EXCEPT !.state = "gone", !.rc = rc] \in Process
  <2>1. NoProcess \in Process
    BY DEF NoProcess, Process
  <2>2. PICK p \in Process : p = agent[a]
    BY <1>1
  <2>3. [p EXCEPT !.state = "gone", !.rc = rc] \in Process
    BY DEF Process
  <2> QED
    BY <2>1, <2>2, <2>3
<1>3. agent' = [agent EXCEPT ![a] =
        IF sup.child = a THEN [agent[a] EXCEPT !.state = "gone", !.rc = rc] ELSE NoProcess]
  BY DEF Exits
<1> QED
  BY <1>1, <1>2, <1>3 DEF Exits

(***************************************************************************)
(* What the window does to its link.                                       *)
(***************************************************************************)
LEMMA LinkShapes ==
  ASSUME LinkTypes, SupervisorTypes
  PROVE  /\ link \in Peer /\ Dropped(link) \in Peer /\ GivenUp(link) \in Peer
         /\ \A a \in Agent : Hangup(a) => link' \in Peer
         /\ \A l \in Peer, force \in BOOLEAN :
              Spawn(l, force) => link' \in Peer /\ arriving' \subseteq Version
         /\ ~OutOfBudget => [link EXCEPT !.forced = @ + 1] \in Peer
                            /\ [[link EXCEPT !.paused = FALSE] EXCEPT !.forced = @ + 1] \in Peer
<1>1. link \in Peer
  BY DEF LinkTypes, Peer
<1>2. Dropped(link) \in Peer /\ GivenUp(link) \in Peer
  BY <1>1 DEF Dropped, GivenUp, Peer
<1>3. ASSUME NEW a \in Agent, Hangup(a) PROVE link' \in Peer
  BY <1>1, <1>3 DEF Hangup, Peer
<1>4. ASSUME NEW l \in Peer, NEW force \in BOOLEAN, Spawn(l, force)
      PROVE  link' \in Peer /\ arriving' \subseteq Version
  <2>1. [l EXCEPT !.throttled = TRUE] \in Peer
    BY DEF Peer
  <2> QED
    BY <1>4, <2>1 DEF Spawn, SupervisorTypes
<1>5. ASSUME ~OutOfBudget
      PROVE  [link EXCEPT !.forced = @ + 1] \in Peer
             /\ [[link EXCEPT !.paused = FALSE] EXCEPT !.forced = @ + 1] \in Peer
  <2>1. link.forced + 1 \in 0..MaxForced + 1
    BY <1>1, <1>5 DEF OutOfBudget, Peer
  <2> QED
    BY <1>1, <2>1 DEF Peer
<1> QED
  BY <1>1, <1>2, <1>3, <1>4, <1>5

LEMMA TypeStep ==
  ASSUME TypeOK, ZeroIsRequested, [Next]_vars
  PROVE  TypeOK'
<1>0. AgentTypes /\ SupervisorTypes /\ LinkTypes /\ OtherTypes
  BY DEF TypeOK
<1> USE <1>0
<1>a. ASSUME UNCHANGED <<agent, owner, endpoint>>, asked' \subseteq Agent,
             requested' \subseteq Agent
      PROVE  AgentTypes'
  BY <1>a DEF AgentTypes
<1>s. ASSUME UNCHANGED <<sup, arriving>> PROVE SupervisorTypes'
  BY <1>s DEF SupervisorTypes
<1>l. ASSUME UNCHANGED linkVars PROVE LinkTypes'
  BY <1>l DEF LinkTypes
<1>o. ASSUME UNCHANGED <<installer, bounds>> PROVE OtherTypes'
  BY <1>o DEF OtherTypes
<1>f. ASSUME Fault PROVE faults' \in 0..MaxFaults
  BY <1>f DEF Fault, OtherTypes
<1>t. ASSUME UNCHANGED agentVars, requested' = requested PROVE AgentTypes'
  BY <1>t DEF AgentTypes
<1>h. ASSUME NEW a \in Agent, Hangup(a), UNCHANGED <<shots, launches>> PROVE LinkTypes'
  BY <1>h, LinkShapes DEF LinkTypes, Peer
<1>p. /\ agent \in [Agent -> Process] /\ owner \in Agent
      /\ endpoint \subseteq Agent /\ asked \subseteq Agent /\ requested \subseteq Agent
  BY DEF AgentTypes, Process
<1>q. ASSUME agent' \in [Agent -> Process], owner' \in Agent, endpoint' \subseteq Agent,
             asked' \subseteq Agent, requested' \subseteq Agent
      PROVE  AgentTypes'
  BY <1>q DEF AgentTypes, Process
<1>1. ASSUME NEW a \in Agent, AgentStep(a) PROVE TypeOK'
  <2>1. \A s \in Owning : [agent EXCEPT ![a].state = s] \in [Agent -> Process]
    BY <1>p DEF Process
  <2>2. {"locked", "up", "quit", "closed"} \subseteq Owning
    BY DEF Owning
  <2>3. CASE AgentLocks(a)
    <3>1. AgentTypes'
      BY <1>p, <1>q, <2>1, <2>2, <2>3 DEF AgentLocks
    <3>2. OtherTypes'
      BY <1>f, <2>3 DEF AgentLocks, OtherTypes
    <3> QED
      BY <1>s, <1>l, <2>3, <3>1, <3>2 DEF AgentLocks, TypeOK
  <2>4. CASE AgentIsDuplicate(a)
    <3>1. AgentTypes'
      BY <1>p, <1>q, <2>4, ExitsTypes DEF AgentIsDuplicate
    <3> QED
      BY <1>s, <1>l, <1>o, <2>4, <3>1 DEF AgentIsDuplicate, TypeOK
  <2>5. CASE AgentListens(a)
    <3>1. AgentTypes'
      BY <1>p, <1>q, <2>1, <2>2, <2>5 DEF AgentListens
    <3> QED
      BY <1>s, <1>l, <1>o, <2>5, <3>1 DEF AgentListens, TypeOK
  <2>6. CASE AgentStops(a)
    <3>1. AgentTypes'
      BY <1>p, <1>q, <2>1, <2>2, <2>6 DEF AgentStops
    <3> QED
      BY <1>s, <1>l, <1>o, <2>6, <3>1 DEF AgentStops, TypeOK
  <2>7. CASE AgentRetires(a)
    <3>1. AgentTypes'
      BY <1>p, <1>q, <2>1, <2>2, <2>7 DEF AgentRetires
    <3> QED
      BY <1>s, <1>l, <1>o, <2>7, <3>1 DEF AgentRetires, TypeOK
  <2>8. CASE AgentCloses(a)
    <3>1. AgentTypes'
      BY <1>p, <1>q, <2>1, <2>2, <2>8 DEF AgentCloses
    <3> QED
      BY <1>s, <1>h, <1>o, <2>8, <3>1 DEF AgentCloses, TypeOK
  <2>9. CASE AgentExits(a)
    <3>1. AgentTypes'
      BY <1>p, <1>q, <2>9, ExitsTypes DEF AgentExits
    <3> QED
      BY <1>s, <1>l, <1>o, <2>9, <3>1 DEF AgentExits, TypeOK
  <2> QED
    BY <1>1, <2>3, <2>4, <2>5, <2>6, <2>7, <2>8, <2>9 DEF AgentStep
<1>2. ASSUME NEW a \in Agent, AgentFault(a) PROVE TypeOK'
  <2>1. CASE AgentCannotListen(a)
    <3>1. AgentTypes'
      BY <1>p, <1>q, <2>1, ExitsTypes DEF AgentCannotListen
    <3>2. OtherTypes'
      BY <1>f, <2>1 DEF AgentCannotListen, OtherTypes
    <3> QED
      BY <1>s, <1>l, <2>1, <3>1, <3>2 DEF AgentCannotListen, TypeOK
  <2>2. CASE AgentCrashes(a)
    <3>1. AgentTypes'
      BY <1>p, <1>q, <2>2, ExitsTypes DEF AgentCrashes
    <3>2. OtherTypes'
      BY <1>f, <2>2 DEF AgentCrashes, OtherTypes
    <3> QED
      BY <1>s, <1>h, <2>2, <3>1, <3>2 DEF AgentCrashes, TypeOK
  <2>3. CASE AgentHangs(a)
    <3>1. [agent EXCEPT ![a].state = "hung"] \in [Agent -> Process]
      BY <1>p DEF Process, Owning
    <3>2. AgentTypes'
      BY <1>p, <1>q, <2>3, <3>1 DEF AgentHangs
    <3>3. OtherTypes'
      BY <1>f, <2>3 DEF AgentHangs, OtherTypes
    <3> QED
      BY <1>s, <1>l, <2>3, <3>2, <3>3 DEF AgentHangs, TypeOK
  <2> QED
    BY <1>2, <2>1, <2>2, <2>3 DEF AgentFault
<1>3. NoProcess \in Process
  BY DEF NoProcess, Process
<1>4. \A v \in Version : Booted(v) \in Process
  BY DEF Booted, Process
<1>5. CASE SupervisorStep
  <2>1. ASSUME NEW v \in Version, SupervisorArrives(v) PROVE TypeOK'
    <3>1. SupervisorTypes'
      BY <2>1 DEF SupervisorArrives, SupervisorTypes
    <3> QED
      BY <1>t, <1>l, <1>o, <2>1, <3>1 DEF SupervisorArrives, TypeOK
  <2>2. ASSUME NEW a \in Agent, SupervisorLaunches(a) PROVE TypeOK'
    <3>1. AgentTypes'
      BY <1>p, <1>q, <1>4, <2>2 DEF SupervisorLaunches, SupervisorTypes
    <3>2. SupervisorTypes'
      BY <2>2 DEF SupervisorLaunches, SupervisorTypes
    <3> QED
      BY <1>l, <1>o, <2>2, <3>1, <3>2 DEF SupervisorLaunches, TypeOK
  <2>3. CASE SupervisorPolls
    <3>1. sup.child \in Agent
      BY <2>3 DEF SupervisorPolls, ZeroIsRequested
    <3>2. AgentTypes'
      BY <1>p, <1>q, <1>3, <2>3, <3>1 DEF SupervisorPolls
    <3>3. SupervisorTypes'
      BY <2>3 DEF SupervisorPolls, SupervisorTypes, ExitLeadsTo
    <3> QED
      BY <1>l, <1>o, <2>3, <3>2, <3>3 DEF SupervisorPolls, TypeOK
  <2>4. CASE SupervisorTerminates
    <3>1. sup.child \in Agent
      BY <2>4 DEF SupervisorTerminates, ZeroIsRequested
    <3>2. AgentTypes'
      BY <1>p, <1>q, <1>3, <2>4, <3>1 DEF SupervisorTerminates
    <3>3. SupervisorTypes'
      BY <2>4 DEF SupervisorTerminates, SupervisorTypes, AfterTermination
    <3>4. LinkTypes'
      BY <1>h, <2>4, <3>1 DEF SupervisorTerminates
    <3>5. faults' \in 0..MaxFaults
      BY <1>f, <2>4 DEF SupervisorTerminates, HeartbeatIsStale, OtherTypes
    <3>6. OtherTypes'
      BY <2>4, <3>5 DEF SupervisorTerminates, OtherTypes
    <3> QED
      BY <3>2, <3>3, <3>4, <3>6 DEF TypeOK
  <2>5. CASE SupervisorRetries
    <3>1. SupervisorTypes'
      BY <2>5 DEF SupervisorRetries, SupervisorTypes
    <3> QED
      BY <1>t, <1>l, <1>o, <2>5, <3>1 DEF SupervisorRetries, TypeOK
  <2> QED
    BY <1>5, <2>1, <2>2, <2>3, <2>4, <2>5 DEF SupervisorStep
<1>6. CASE SupervisorKilled
  <2>1. SupervisorTypes'
    BY <1>6 DEF SupervisorKilled, SupervisorTypes
  <2>2. AgentTypes'
    BY <1>p, <1>q, <1>3, <1>6 DEF SupervisorKilled
  <2>3. OtherTypes'
    BY <1>f, <1>6 DEF SupervisorKilled, OtherTypes
  <2> QED
    BY <1>l, <1>6, <2>1, <2>2, <2>3 DEF SupervisorKilled, TypeOK
<1>7. CASE OldFolderLaunches
  <2>1. SupervisorTypes'
    BY <1>7 DEF OldFolderLaunches, SupervisorTypes
  <2>2. OtherTypes'
    BY <1>f, <1>7 DEF OldFolderLaunches, OtherTypes
  <2> QED
    BY <1>t, <1>l, <1>7, <2>1, <2>2 DEF OldFolderLaunches, TypeOK
<1>8. CASE LinkStep
  <2>0. ASSUME link' \in Peer, shots' \subseteq {"poll", "launch", "retry"},
               launches' \in 0..MaxForced + 1
        PROVE  LinkTypes'
    BY <2>0 DEF LinkTypes, Peer
  <2>s. ASSUME sup' = sup, arriving' \subseteq Version PROVE SupervisorTypes'
    BY <2>s DEF SupervisorTypes
  <2>g. link \in Peer /\ shots \subseteq {"poll", "launch", "retry"}
        /\ launches \in 0..MaxForced + 1 /\ arriving \subseteq Version
    BY LinkShapes DEF LinkTypes, SupervisorTypes
  <2>1. CASE LinkConnects
    <3>1. link' \in Peer /\ arriving' \subseteq Version
      <4>1. CASE endpoint = {} /\ Spawn(link, FALSE)
        BY <2>g, <4>1, LinkShapes
      <4>2. CASE \E a \in endpoint : link' = [link EXCEPT !.peer = a] /\ UNCHANGED arriving
        BY <1>p, <2>g, <4>2 DEF Peer
      <4> QED
        BY <2>1, <4>1, <4>2 DEF LinkConnects
    <3> QED
      BY <1>t, <1>o, <2>0, <2>s, <2>g, <2>1, <3>1 DEF LinkConnects, TypeOK
  <2>2. CASE LinkHearsNothing
    <3>1. link.active \in BOOLEAN
      BY <2>g DEF Peer
    <3>2. link' \in Peer /\ arriving' \subseteq Version
      BY <2>2, <3>1, LinkShapes DEF LinkHearsNothing
    <3> QED
      BY <1>t, <1>o, <2>0, <2>s, <2>g, <2>2, <3>2 DEF LinkHearsNothing, TypeOK
  <2>3. CASE LinkValidates
    <3>1. link' \in Peer
      <4>1. GivenUp(link) \in Peer /\ 0 \in 0..MaxForced + 1
        BY LinkShapes
      <4> QED
        BY <2>3, <4>1 DEF LinkValidates, Peer
    <3>2. LinkTypes'
      BY <2>0, <2>g, <2>3, <3>1 DEF LinkValidates
    <3> QED
      BY <1>t, <1>s, <1>o, <2>3, <3>2 DEF LinkValidates, TypeOK
  <2>4. CASE LinkMeetsOtherVersion
    <3>1. link' \in Peer
      <4>1. Retiring(link) \in Peer
        <5>1. 0 \in 0..MaxForced + 1
          OBVIOUS
        <5> QED
          BY <2>g, <5>1 DEF Retiring, Peer
      <4> QED
        BY <2>g, <2>4, <4>1 DEF LinkMeetsOtherVersion, Peer
    <3>2. LinkTypes'
      BY <2>0, <2>g, <2>4, <3>1 DEF LinkMeetsOtherVersion
    <3>3. link.peer \in Agent
      BY <2>g, <2>4 DEF LinkMeetsOtherVersion, Connected, Peer
    <3>4. AgentTypes'
      BY <1>a, <1>p, <2>4, <3>3 DEF LinkMeetsOtherVersion, Asks
    <3> QED
      BY <1>s, <1>o, <2>4, <3>2, <3>4 DEF LinkMeetsOtherVersion, TypeOK
  <2>5. ASSUME NEW shot, ShotIsIdle(shot)
        PROVE  LinkTypes' /\ arriving' \subseteq Version
    BY <2>0, <2>g, <2>5, LinkShapes DEF ShotIsIdle
  <2>6. ASSUME NEW l, ForcedSpawn(l), [l EXCEPT !.forced = @ + 1] \in Peer
        PROVE  link' \in Peer /\ arriving' \subseteq Version /\ launches' \in 0..MaxForced + 1
    <3>1. launches' \in 0..MaxForced + 1
      BY <2>g, <2>6 DEF ForcedSpawn
    <3> QED
      BY <2>6, <3>1, LinkShapes DEF ForcedSpawn
  <2>7. CASE LinkPolls
    <3>1. LinkTypes' /\ arriving' \subseteq Version
      <4>1. CASE ShotIsIdle("poll")
        BY <2>5, <4>1
      <4>2. CASE shots' = (shots \ {"poll"}) \cup {"launch"} /\ link' = Dropped(link)
                 /\ UNCHANGED <<arriving, launches>>
        BY <2>0, <2>g, <4>2, LinkShapes
      <4> QED
        BY <2>7, <4>1, <4>2 DEF LinkPolls
    <3> QED
      BY <1>t, <1>o, <2>s, <2>7, <3>1 DEF LinkPolls, TypeOK
  <2>8. CASE LinkLaunches
    <3>1. LinkTypes' /\ arriving' \subseteq Version
      <4>1. CASE ShotIsIdle("launch")
        BY <2>5, <4>1
      <4>2. CASE ~OutOfBudget /\ shots' = (shots \ {"launch"}) \cup {"retry"}
                 /\ ForcedSpawn([link EXCEPT !.paused = FALSE])
        BY <2>0, <2>g, <2>6, <4>2, LinkShapes
      <4> QED
        BY <2>8, <4>1, <4>2 DEF LinkLaunches
    <3> QED
      BY <1>t, <1>o, <2>s, <2>8, <3>1 DEF LinkLaunches, TypeOK
  <2>9. CASE LinkRetries
    <3>1. LinkTypes' /\ arriving' \subseteq Version
      <4>1. CASE ShotIsIdle("retry")
        BY <2>5, <4>1
      <4>2. CASE ~OutOfBudget /\ ForcedSpawn(link) /\ UNCHANGED shots
        BY <2>0, <2>g, <2>6, <4>2, LinkShapes
      <4> QED
        BY <2>9, <4>1, <4>2 DEF LinkRetries
    <3> QED
      BY <1>t, <1>o, <2>s, <2>9, <3>1 DEF LinkRetries, TypeOK
  <2> QED
    BY <1>8, <2>1, <2>2, <2>3, <2>4, <2>7, <2>8, <2>9 DEF LinkStep
<1>9. CASE HandoffIsLate
  <2>1. LinkTypes'
    BY <1>9 DEF HandoffIsLate, LinkTypes
  <2>2. OtherTypes'
    BY <1>f, <1>9 DEF HandoffIsLate, OtherTypes
  <2> QED
    BY <1>t, <1>s, <1>9, <2>1, <2>2 DEF HandoffIsLate, TypeOK
<1>10. CASE LinkClock
  <2>1. LinkTypes'
    BY <1>10 DEF LinkClock, LinkTypes
  <2> QED
    BY <1>t, <1>s, <1>o, <1>10, <2>1 DEF LinkClock, TypeOK
<1>11. CASE StopRequested
  <2>1. AgentTypes'
    BY <1>a, <1>p, <1>11 DEF StopRequested, Asks
  <2>2. OtherTypes'
    BY <1>11 DEF StopRequested, OtherTypes
  <2> QED
    BY <1>s, <1>l, <1>11, <2>1, <2>2 DEF StopRequested, TypeOK
<1>12. CASE InstallerStep
  <2>1. CASE InstallerStarts
    <3>1. SupervisorTypes' /\ OtherTypes'
      BY <2>1 DEF InstallerStarts, SupervisorTypes, OtherTypes
    <3> QED
      BY <1>t, <1>l, <2>1, <3>1 DEF InstallerStarts, TypeOK
  <2>2. CASE InstallerMeets
    <3>1. AgentTypes' /\ OtherTypes'
      <4>1. UNCHANGED bounds /\ installer' \in {"idle", "waiting", "done"}
        BY <2>2 DEF InstallerMeets, OtherTypes
      <4>2. asked' \subseteq Agent /\ requested' \subseteq Agent
        BY <1>p, <2>2 DEF InstallerMeets, Asks
      <4> QED
        BY <1>a, <2>2, <4>1, <4>2 DEF InstallerMeets, OtherTypes
    <3> QED
      BY <1>s, <1>l, <2>2, <3>1 DEF InstallerMeets, TypeOK
  <2>3. CASE InstallerLaunches
    <3>1. SupervisorTypes'
      BY <2>3 DEF InstallerLaunches, SupervisorTypes
    <3> QED
      BY <1>t, <1>l, <1>o, <2>3, <3>1 DEF InstallerLaunches, TypeOK
  <2>4. CASE InstallerGivesUp
    <3>1. OtherTypes'
      BY <2>4 DEF InstallerGivesUp, OtherTypes
    <3> QED
      BY <1>t, <1>s, <1>l, <2>4, <3>1 DEF InstallerGivesUp, TypeOK
  <2> QED
    BY <1>12, <2>1, <2>2, <2>3, <2>4 DEF InstallerStep
<1>13. ASSUME NEW a \in Agent, AgentRunByHand(a) PROVE TypeOK'
  <2>1. AgentTypes'
    BY <1>p, <1>q, <1>4, <1>13 DEF AgentRunByHand
  <2>2. OtherTypes'
    BY <1>13 DEF AgentRunByHand, OtherTypes
  <2> QED
    BY <1>s, <1>l, <1>13, <2>1, <2>2 DEF AgentRunByHand, TypeOK
<1>14. CASE UNCHANGED vars
  BY <1>t, <1>s, <1>l, <1>o, <1>14 DEF vars, TypeOK
<1> QED
  BY <1>1, <1>2, <1>5, <1>6, <1>7, <1>8, <1>9, <1>10, <1>11, <1>12, <1>13, <1>14 DEF Next

(***************************************************************************)
(* The inductive invariant.  That one agent at most is past the lock file  *)
(* is stated by naming it: the owner of the database.                      *)
(***************************************************************************)
OwnerHolds == broken \/ Holders \subseteq {owner}
ChannelServes == \A a \in endpoint : agent[a].state \in Serving
Safe == OwnerHolds /\ ChannelServes /\ ZeroIsRequested

LEMMA SafeStep ==
  ASSUME TypeOK, Safe, [Next]_vars
  PROVE  Safe'
<1>0. /\ agent \in [Agent -> Process] /\ endpoint \subseteq Agent /\ asked \subseteq Agent
      /\ requested \subseteq Agent /\ sup.child \in Agent \cup {NoAgent}
      /\ link.peer \in Agent \cup {NoAgent}
  BY DEF TypeOK, AgentTypes, SupervisorTypes, LinkTypes, Process
<1> USE <1>0 DEF Holders, Owning, Serving, LeftWithZero
<1>1. ASSUME UNCHANGED <<agent, endpoint, owner, sup, broken>>,
             \A a \in asked' : a \in asked \/ a \in endpoint \/ agent[a].state = "up",
             asked' \subseteq Agent,
             asked' \subseteq requested', requested \subseteq requested'
      PROVE  Safe'
  BY <1>1 DEF Safe, OwnerHolds, ChannelServes, ZeroIsRequested
<1>2. ASSUME UNCHANGED <<agentVars, sup, broken, requested>> PROVE Safe'
  BY <1>2 DEF Safe, OwnerHolds, ChannelServes, ZeroIsRequested
<1>3. ASSUME NEW a \in Agent, NEW rc \in {0, 1, 3}, Exits(a, rc), rc = 0 => a \in requested,
             UNCHANGED <<owner, sup, requested, broken>>
      PROVE  Safe'
  <2>1. /\ \A b \in Agent \ {a} : agent'[b] = agent[b]
        /\ agent'[a].state \in {"free", "gone"}
        /\ agent'[a].state = "gone" => agent'[a].rc = rc
    BY <1>3 DEF Exits, NoProcess, Process
  <2>2. endpoint' = endpoint \ {a} /\ asked' = asked \ {a}
    BY <1>3 DEF Exits
  <2>3. OwnerHolds'
    BY <1>3, <2>1 DEF Safe, OwnerHolds
  <2>4. ChannelServes'
    BY <2>1, <2>2 DEF Safe, ChannelServes
  <2>5. ZeroIsRequested'
    BY <1>3, <2>1, <2>2 DEF Safe, ZeroIsRequested
  <2> QED
    BY <2>3, <2>4, <2>5 DEF Safe
<1>4. ASSUME NEW a \in Agent, NEW s, agent' = [agent EXCEPT ![a].state = s]
      PROVE  /\ agent'[a].state = s /\ agent'[a].rc = agent[a].rc
             /\ \A b \in Agent \ {a} : agent'[b] = agent[b]
  BY <1>4 DEF Process
<1>5. ASSUME NEW a \in Agent, AgentStep(a) PROVE Safe'
  <2>1. CASE AgentLocks(a)
    <3>1. agent'[a].state = "locked" /\ \A b \in Agent \ {a} : agent'[b] = agent[b]
      BY <1>4, <2>1 DEF AgentLocks
    <3>2. OwnerHolds'
      <4>1. CASE LockIsFree
        BY <2>1, <3>1, <4>1 DEF AgentLocks, LockIsFree, OwnerHolds
      <4> QED
        BY <2>1, <4>1 DEF AgentLocks, OwnerHolds
    <3>3. ChannelServes' /\ ZeroIsRequested'
      BY <2>1, <3>1 DEF AgentLocks, Safe, ChannelServes, ZeroIsRequested
    <3> QED
      BY <3>2, <3>3 DEF Safe
  <2>2. CASE AgentIsDuplicate(a)
    BY <1>3, <2>2 DEF AgentIsDuplicate
  <2>3. CASE AgentListens(a)
    <3>1. agent'[a].state = "up" /\ \A b \in Agent \ {a} : agent'[b] = agent[b]
      BY <1>4, <2>3 DEF AgentListens
    <3> QED
      BY <2>3, <3>1 DEF AgentListens, Safe, OwnerHolds, ChannelServes, ZeroIsRequested
  <2>4. CASE AgentStops(a) \/ AgentRetires(a)
    <3>1. agent'[a].state = "quit" /\ \A b \in Agent \ {a} : agent'[b] = agent[b]
      BY <1>4, <2>4 DEF AgentStops, AgentRetires
    <3>2. a \in requested' /\ requested \subseteq requested' /\ asked' \subseteq asked
          /\ UNCHANGED <<endpoint, owner, sup, broken>>
      BY <2>4 DEF AgentStops, AgentRetires, Safe, ZeroIsRequested
    <3>3. agent[a].state = "up"
      BY <2>4 DEF AgentStops, AgentRetires
    <3>4. OwnerHolds' /\ ChannelServes'
      BY <3>1, <3>2, <3>3 DEF Safe, OwnerHolds, ChannelServes
    <3>5. ZeroIsRequested'
      BY <3>1, <3>2, <3>3 DEF Safe, ZeroIsRequested
    <3> QED
      BY <3>4, <3>5 DEF Safe
  <2>5. CASE AgentCloses(a)
    <3>1. agent'[a].state = "closed" /\ \A b \in Agent \ {a} : agent'[b] = agent[b]
      BY <1>4, <2>5 DEF AgentCloses
    <3> QED
      BY <2>5, <3>1 DEF AgentCloses, Safe, OwnerHolds, ChannelServes, ZeroIsRequested
  <2>6. CASE AgentExits(a)
    <3>1. a \in requested
      BY <2>6 DEF AgentExits, Safe, ZeroIsRequested
    <3> QED
      BY <1>3, <2>6, <3>1 DEF AgentExits
  <2> QED
    BY <1>5, <2>1, <2>2, <2>3, <2>4, <2>5, <2>6 DEF AgentStep
<1>6. ASSUME NEW a \in Agent, AgentFault(a) PROVE Safe'
  <2>1. CASE AgentHangs(a)
    <3>1. agent'[a].state = "hung" /\ \A b \in Agent \ {a} : agent'[b] = agent[b]
      BY <1>4, <2>1 DEF AgentHangs
    <3> QED
      BY <2>1, <3>1 DEF AgentHangs, Safe, OwnerHolds, ChannelServes, ZeroIsRequested
  <2> QED
    BY <1>3, <1>6, <2>1 DEF AgentFault, AgentCannotListen, AgentCrashes
<1>7. ASSUME NEW a \in Agent, agent[a].state = "free", NEW v, v \in Version,
             agent' = [agent EXCEPT ![a] = Booted(v)], requested' = requested \ {a},
             UNCHANGED <<endpoint, owner, asked, broken>>,
             sup' = sup \/ sup'.child = a
      PROVE  Safe'
  <2>1. agent'[a].state = "boot" /\ \A b \in Agent \ {a} : agent'[b] = agent[b]
    BY <1>7 DEF Booted
  <2>2. a \notin asked
    BY <1>7 DEF Safe, ZeroIsRequested
  <2>3. OwnerHolds' /\ ChannelServes'
    BY <1>7, <2>1 DEF Safe, OwnerHolds, ChannelServes
  <2>4. sup'.state = "watch" => sup'.child \in Agent
    BY <1>7 DEF Safe, ZeroIsRequested
  <2>5. ZeroIsRequested'
    BY <1>7, <2>1, <2>2, <2>4 DEF Safe, ZeroIsRequested
  <2> QED
    BY <2>3, <2>5 DEF Safe
<1>8. CASE SupervisorStep
  <2>1. ASSUME NEW v \in Version, SupervisorArrives(v) PROVE Safe'
    BY <2>1 DEF SupervisorArrives, Safe, OwnerHolds, ChannelServes, ZeroIsRequested
  <2>2. ASSUME NEW a \in Agent, SupervisorLaunches(a) PROVE Safe'
    <3>1. sup'.child = a /\ sup.ver \in Version
      BY <2>2 DEF SupervisorLaunches, TypeOK, SupervisorTypes
    <3> QED
      BY <1>7, <2>2, <3>1 DEF SupervisorLaunches
  <2>3. CASE SupervisorPolls
    <3>1. sup.child \in Agent /\ sup'.state # "watch"
      BY <2>3 DEF SupervisorPolls, Safe, ZeroIsRequested, ExitLeadsTo, TypeOK, SupervisorTypes
    <3>2. agent'[sup.child].state = "free"
          /\ \A b \in Agent \ {sup.child} : agent'[b] = agent[b]
      BY <2>3, <3>1 DEF SupervisorPolls, NoProcess
    <3>3. agent[sup.child].state = "gone" /\ UNCHANGED <<endpoint, owner, asked, requested, broken>>
      BY <2>3 DEF SupervisorPolls
    <3>4. OwnerHolds' /\ ChannelServes'
      BY <3>1, <3>2, <3>3 DEF Safe, OwnerHolds, ChannelServes
    <3> QED
      BY <3>1, <3>2, <3>3, <3>4 DEF Safe, ZeroIsRequested
  <2>4. CASE SupervisorTerminates
    <3>1. sup.child \in Agent /\ sup'.state # "watch"
      BY <2>4 DEF SupervisorTerminates, Safe, ZeroIsRequested, AfterTermination,
                  TypeOK, SupervisorTypes
    <3>2. agent'[sup.child].state = "free"
          /\ \A b \in Agent \ {sup.child} : agent'[b] = agent[b]
      BY <2>4, <3>1 DEF SupervisorTerminates, NoProcess
    <3>3. endpoint' = endpoint \ {sup.child} /\ asked' = asked \ {sup.child}
          /\ UNCHANGED <<owner, requested, broken>>
      BY <2>4 DEF SupervisorTerminates
    <3>4. OwnerHolds' /\ ChannelServes'
      BY <3>1, <3>2, <3>3 DEF Safe, OwnerHolds, ChannelServes
    <3> QED
      BY <3>1, <3>2, <3>3, <3>4 DEF Safe, ZeroIsRequested
  <2>5. CASE SupervisorRetries
    BY <2>5 DEF SupervisorRetries, Safe, OwnerHolds, ChannelServes, ZeroIsRequested,
                TypeOK, SupervisorTypes
  <2> QED
    BY <1>8, <2>1, <2>2, <2>3, <2>4, <2>5 DEF SupervisorStep
<1>9. CASE SupervisorKilled
  <2>1. \A b \in Agent :
          \/ agent'[b] = agent[b]
          \/ agent[b].state = "gone" /\ agent'[b].state = "free"
    BY <1>9 DEF SupervisorKilled, NoProcess
  <2>2. sup'.state = "off" /\ UNCHANGED <<endpoint, owner, asked, requested, broken>>
    BY <1>9 DEF SupervisorKilled, TypeOK, SupervisorTypes
  <2>3. OwnerHolds' /\ ChannelServes'
    BY <2>1, <2>2 DEF Safe, OwnerHolds, ChannelServes
  <2> QED
    BY <2>1, <2>2, <2>3 DEF Safe, ZeroIsRequested
<1>10. CASE LinkStep
  <2>1. CASE LinkMeetsOtherVersion
    <3>1. link.peer \in Agent /\ agent[link.peer].state = "up"
      BY <2>1 DEF LinkMeetsOtherVersion, Connected
    <3> QED
      BY <1>1, <2>1, <3>1 DEF LinkMeetsOtherVersion, Asks, Safe, ZeroIsRequested
  <2> QED
    BY <1>2, <1>10, <2>1 DEF LinkStep, LinkConnects, LinkHearsNothing, LinkValidates,
       LinkPolls, LinkLaunches, LinkRetries
<1>11. CASE StopRequested
  BY <1>1, <1>11 DEF StopRequested, Asks, Safe, ZeroIsRequested
<1>12. CASE InstallerStep
  <2>1. CASE InstallerMeets
    BY <1>1, <2>1 DEF InstallerMeets, Asks, Safe, ZeroIsRequested
  <2> QED
    BY <1>2, <1>12, <2>1 DEF InstallerStep, InstallerStarts, InstallerLaunches, InstallerGivesUp
<1>13. ASSUME NEW a \in Agent, AgentRunByHand(a) PROVE Safe'
  BY <1>7, <1>13 DEF AgentRunByHand
<1>14. CASE OldFolderLaunches \/ HandoffIsLate \/ LinkClock \/ UNCHANGED vars
  BY <1>2, <1>14 DEF OldFolderLaunches, HandoffIsLate, LinkClock, vars
<1> QED
  BY <1>5, <1>6, <1>8, <1>9, <1>10, <1>11, <1>12, <1>13, <1>14 DEF Next

LEMMA InductiveHolds == Spec => [](TypeOK /\ Safe)
<1>1. Init => TypeOK /\ Safe
  <2> SUFFICES ASSUME NEW a \in Agent, NEW v \in Version,
         agent = [b \in Agent |-> IF b = a THEN [state |-> "up", ver |-> v, rc |-> 0]
                                   ELSE NoProcess],
         endpoint = {a}, owner = a, asked = {},
         sup = [state |-> "watch", ver |-> v, child |-> a], arriving = {},
         link = IdleLink, shots = {}, installer = "idle",
         requested = {}, launches = 0, broken = FALSE, faults = 0, stops = 0
       PROVE TypeOK /\ Safe
    BY DEF Init
  <2>1. AgentTypes
    BY DEF AgentTypes, NoProcess, Owning
  <2>2. SupervisorTypes
    BY DEF SupervisorTypes
  <2>o. OtherTypes
    <3>1. 0 \in 0..MaxFaults /\ 0 \in 0..MaxStops
      OBVIOUS
    <3>2. broken \in BOOLEAN /\ installer \in {"idle", "waiting", "done"}
      OBVIOUS
    <3> QED
      BY <3>1, <3>2 DEF OtherTypes
  <2>3. LinkTypes
    BY DEF LinkTypes, IdleLink
  <2>4. Holders = {a}
    BY DEF Holders, Owning, NoProcess
  <2>5. OwnerHolds /\ ChannelServes
    BY <2>4 DEF OwnerHolds, ChannelServes, Serving
  <2>6. ZeroIsRequested
    BY DEF ZeroIsRequested, LeftWithZero, NoProcess
  <2> QED
    BY <2>1, <2>2, <2>o, <2>3, <2>5, <2>6 DEF TypeOK, Safe
<1>2. TypeOK /\ Safe /\ [Next]_vars => (TypeOK /\ Safe)'
  BY TypeStep, SafeStep DEF Safe
<1> QED
  BY <1>1, <1>2, PTL DEF Spec

(***************************************************************************)
(* One agent at a time is past the lock file and owns the database, and    *)
(* the channel belongs to living processes, through crashes, duplicates,   *)
(* handoffs and rival launches.                                            *)
(***************************************************************************)
THEOREM LifetimeInvariant == Spec => []LifetimeInv
<1>1. TypeOK /\ Safe => LifetimeInv
  <2> SUFFICES ASSUME TypeOK, Safe PROVE LifetimeInv
    OBVIOUS
  <2>1. ASSUME ~broken PROVE Cardinality(Holders) <= 1 /\ \A a \in Holders : owner = a
    <3>1. Holders \subseteq {owner}
      BY <2>1 DEF Safe, OwnerHolds
    <3>2. Cardinality({owner}) = 1 /\ IsFiniteSet({owner})
      BY FS_Singleton
    <3>3. Cardinality(Holders) <= Cardinality({owner})
      BY <3>1, <3>2, FS_Subset
    <3> QED
      BY <3>1, <3>2, <3>3
  <2> QED
    BY <2>1 DEF LifetimeInv, OneAgentServes, Safe, ChannelServes
<1> QED
  BY InductiveHolds, <1>1, PTL

(***************************************************************************)
(* The supervisor gives up the service only for an agent that was told to  *)
(* stop, or because it is killed itself.                                   *)
(***************************************************************************)
THEOREM SupervisorIsFaithful == Spec => LetsGoOnRequest
<1>1. TypeOK /\ Safe /\ [Next]_vars =>
        [sup.state = "watch" /\ sup'.state = "off" =>
           \/ sup.child \in requested /\ agent[sup.child].state = "gone"
           \/ SupervisorKilled]_vars
  <2> SUFFICES ASSUME TypeOK, Safe, Next, sup.state = "watch", sup'.state = "off",
                      ~SupervisorKilled
               PROVE  sup.child \in requested /\ agent[sup.child].state = "gone"
    OBVIOUS
  <2>1. sup' # sup
    OBVIOUS
  <2>2. CASE SupervisorStep
    <3>1. CASE SupervisorPolls
      <4>1. ExitLeadsTo(agent[sup.child].rc) = "off"
        BY <3>1 DEF SupervisorPolls, TypeOK, SupervisorTypes
      <4>2. agent[sup.child].state = "gone" /\ agent[sup.child].rc = 0
        BY <3>1, <4>1 DEF SupervisorPolls, ExitLeadsTo
      <4> QED
        BY <4>2 DEF Safe, ZeroIsRequested, LeftWithZero
    <3>2. CASE SupervisorTerminates
      BY <3>2 DEF SupervisorTerminates, AfterTermination, TypeOK, SupervisorTypes
    <3>3. ASSUME NEW a \in Agent, SupervisorLaunches(a) PROVE FALSE
      BY <3>3 DEF SupervisorLaunches
    <3> QED
      BY <2>1, <2>2, <3>1, <3>2, <3>3 DEF SupervisorStep, SupervisorArrives, SupervisorRetries
  <2>3. CASE \E a \in Agent : AgentStep(a) \/ AgentFault(a) \/ AgentRunByHand(a)
    BY <2>1, <2>3 DEF AgentStep, AgentFault, AgentLocks, AgentIsDuplicate, AgentListens,
       AgentStops, AgentRetires, AgentCloses, AgentExits, AgentCannotListen,
       AgentCrashes, AgentHangs, AgentRunByHand
  <2>4. CASE LinkStep \/ HandoffIsLate \/ LinkClock
    BY <2>1, <2>4 DEF LinkStep, LinkConnects, LinkHearsNothing, LinkValidates,
       LinkMeetsOtherVersion, LinkPolls, LinkLaunches, LinkRetries, HandoffIsLate, LinkClock
  <2>5. CASE OldFolderLaunches \/ StopRequested \/ InstallerStep
    BY <2>1, <2>5 DEF OldFolderLaunches, StopRequested, InstallerStep, InstallerStarts,
       InstallerMeets, InstallerLaunches, InstallerGivesUp
  <2> QED
    BY <2>2, <2>3, <2>4, <2>5 DEF Next
<1> QED
  BY InductiveHolds, <1>1, PTL DEF Spec, LetsGoOnRequest
=============================================================================
