------------------------------ MODULE SendFence ------------------------------
(***************************************************************************)
(* What sending promises, without saying how: posts to the Mac and         *)
(* restarts of Messages exclude each other, two posts never carry the same *)
(* row, and a row the Mac has accepted is never posted again.              *)
(***************************************************************************)
EXTENDS Naturals

CONSTANTS Id, Thread

VARIABLES
  calls,       \* <<thread, row>> pairs in a REST call
  accepted,    \* rows with a positive answer
  restart      \* Messages is being restarted for a waiting agent: "no" or "yes"

fenceVars == <<calls, accepted, restart>>

Init == calls = {} /\ accepted = {} /\ restart = "no"

Post(t, i) ==
  /\ restart = "no"
  /\ i \notin accepted
  /\ \A c \in calls : c[1] # t /\ c[2] # i
  /\ calls' = calls \cup {<<t, i>>}
  /\ UNCHANGED <<accepted, restart>>

Finish(c) ==
  /\ c \in calls
  /\ calls' = calls \ {c}
  /\ accepted' \in {accepted, accepted \cup {c[2]}}
  /\ UNCHANGED restart

\* The process making the calls ends; what the Mac made of them is unknown.
Abort ==
  /\ calls' = {} /\ restart' \in {"no", restart}
  /\ UNCHANGED accepted

BeginRestart ==
  /\ restart = "no" /\ calls = {}
  /\ restart' = "yes"
  /\ UNCHANGED <<calls, accepted>>

EndRestart ==
  /\ restart = "yes"
  /\ restart' = "no"
  /\ UNCHANGED <<calls, accepted>>

Next ==
  \/ \E t \in Thread, i \in Id : Post(t, i)
  \/ \E c \in calls : Finish(c)
  \/ Abort \/ BeginRestart \/ EndRestart

Spec == Init /\ [][Next]_fenceVars
=============================================================================
