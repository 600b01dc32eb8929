----------------------------- MODULE ObsSession -----------------------------
(***************************************************************************)
(* The remote control of OBS: ObsController, which runs a session while    *)
(* the panel is shown, and ObsClient, the connection of one attempt.  A    *)
(* session connects, watches and polls OBS, closes, and tries again after  *)
(* a delay.  Hiding the panel cancels it without waiting for its cleanup,  *)
(* so that the session of a panel shown again may run beside it; they      *)
(* share the controller's client, its phase and what it shows of OBS.      *)
(*                                                                         *)
(* The connection of a session stands for the one of its present attempt.  *)
(***************************************************************************)
EXTENDS Naturals

CONSTANT
  MaxSessions  (* Sessions launched (bound).                                *)

ASSUME ObsSessionAssumption == MaxSessions \in Nat

Sessions == 1..MaxSessions

VARIABLES
  visible,     (* The panel is shown.                                       *)
  job,         (* sessionJob, 0 for null.                                   *)
  launched,    (* Sessions launched so far.                                 *)
  cancelled,   (* Sessions whose job is cancelled.                          *)
  at,          (* Where runSession() is.                                    *)
  outcome,     (* What ended the attempt: "auth", "failed" or "cancelled".  *)
  identified,  (* Of the connection: "no", "yes", or "failed" with cause    *)
  closed,      (* Its close cause: "no" while open, "auth" or "other"       *)
  poller,      (* The coroutine of pollStatus().                            *)
  client,      (* The session whose connection commands go to, 0 for null.  *)
  phase,       (* What the screen shows of the connection.                  *)
  data,        (* The session whose answers and events are shown, 0: none.  *)
  crossed      (* Connected sessions that a cancelled one wrote over since. *)

connectionVars == <<identified, closed>>
sharedVars == <<client, phase, data>>
panelVars == <<visible, job, launched>>
vars == <<panelVars, cancelled, at, outcome, connectionVars, poller, sharedVars, crossed>>

Phases == {"Disconnected", "Connecting", "Connected", "AuthFailed", "Retrying"}

Init ==
  /\ visible = FALSE
  /\ job = 0
  /\ launched = 0
  /\ cancelled = {}
  /\ at = [s \in Sessions |-> "none"]
  /\ outcome = [s \in Sessions |-> "none"]
  /\ identified = [s \in Sessions |-> "no"]
  /\ closed = [s \in Sessions |-> "other"]
  /\ poller = [s \in Sessions |-> "ended"]
  /\ client = 0
  /\ phase = "Disconnected"
  /\ data = 0
  /\ crossed = {}

-----------------------------------------------------------------------------
(* setPanelVisible                                                         *)

(* sessionJob?.isActive.  Mutant: it is not asked.                         *)
NeverActive(s) == FALSE

IsActive(s) == s # 0 /\ s \notin cancelled /\ at[s] # "ended"

Show ==
  /\ visible' = TRUE
  /\ IF IsActive(job)
     THEN UNCHANGED <<job, launched, at>>
     ELSE /\ launched < MaxSessions
          /\ launched' = launched + 1
          /\ job' = launched + 1
          /\ at' = [at EXCEPT ![launched + 1] = "launched"]
  /\ UNCHANGED <<cancelled, outcome, connectionVars, poller, sharedVars, crossed>>

Hide ==
  /\ visible
  /\ visible' = FALSE
  /\ job' = 0
  /\ cancelled' = cancelled \cup ({job} \ {0})
  /\ UNCHANGED <<launched, at, outcome, connectionVars, poller, sharedVars, crossed>>

-----------------------------------------------------------------------------
(* The connection: ObsClient and the server                                *)

Goes(s, to) == at' = [at EXCEPT ![s] = to]

SessionUnchanged == <<panelVars, cancelled, at, outcome, poller, sharedVars, crossed>>

Identifies(s) ==
  /\ closed[s] = "no"
  /\ identified[s] = "no"
  /\ identified' = [identified EXCEPT ![s] = "yes"]
  /\ UNCHANGED <<SessionUnchanged, closed>>

(* finish(): an identified connection stays identified; only the first     *)
(* cause counts.                                                           *)
Finish(s, cause) ==
  /\ identified' = [identified EXCEPT ![s] = IF @ = "yes" THEN @ ELSE "failed"]
  /\ closed' = [closed EXCEPT ![s] = IF @ = "no" THEN cause ELSE @]

(* OBS or the network closes it, or the settings of OBS were changed.      *)
ObsCloses(s, cause) ==
  /\ closed[s] = "no"
  /\ Finish(s, cause)
  /\ UNCHANGED SessionUnchanged

-----------------------------------------------------------------------------
(* runSession                                                              *)

(* The panel can be hidden at every suspension.                            *)
IsCancelledAt(s, place) == at[s] = place /\ s \in cancelled

RunsAt(s, place) == at[s] = place /\ s \notin cancelled

(* A job cancelled before it is dispatched ends without its finally.       *)
NeverRuns(s) ==
  /\ IsCancelledAt(s, "launched")
  /\ Goes(s, "ended")
  /\ UNCHANGED <<panelVars, cancelled, outcome, connectionVars, poller, sharedVars, crossed>>

(* What a cancelled session still writes, another one may have written.    *)
WritesOver(s) ==
  {t \in Sessions \ {s} : s \in cancelled /\ at[t] \in {"announce", "inside"}}

Crosses(s) == crossed' = crossed \cup WritesOver(s)

BeginSession(s) ==
  /\ RunsAt(s, "launched")
  /\ Goes(s, "read")
  /\ UNCHANGED <<panelVars, cancelled, outcome, connectionVars, poller, sharedVars, crossed>>

ReadSettings(s) ==
  /\ RunsAt(s, "read")
  /\ Goes(s, "open")
  /\ UNCHANGED <<panelVars, cancelled, outcome, connectionVars, poller, sharedVars, crossed>>

(* OBS is disabled in the settings, or it has no host.                     *)
Disabled(s) ==
  /\ at[s] = "open"
  /\ phase' = "Disconnected"
  /\ Crosses(s)
  /\ Goes(s, "clear")
  /\ UNCHANGED <<panelVars, cancelled, outcome, connectionVars, poller, client, data>>

BeginConnect(s) ==
  /\ at[s] = "open"
  /\ phase' = "Connecting"
  /\ identified' = [identified EXCEPT ![s] = "no"]
  /\ closed' = [closed EXCEPT ![s] = "no"]
  /\ outcome' = [outcome EXCEPT ![s] = "none"]
  /\ Crosses(s)
  /\ Goes(s, "connecting")
  /\ UNCHANGED <<panelVars, cancelled, poller, client, data>>

ConnectReturns(s) ==
  /\ RunsAt(s, "connecting")
  /\ identified[s] = "yes"
  /\ Goes(s, "connected")
  /\ UNCHANGED <<panelVars, cancelled, outcome, connectionVars, poller, sharedVars, crossed>>

(* connect() throws: the handshake failed, took too long or was cancelled. *)
(* A timeout counts as a cancellation.                                     *)
ConnectThrows(s) ==
  /\ at[s] = "connecting"
  /\ \/ /\ s \notin cancelled
        /\ identified[s] = "failed"
        /\ outcome' = [outcome EXCEPT ![s] = IF closed[s] = "auth" THEN "auth" ELSE "failed"]
     \/ /\ s \in cancelled \/ identified[s] = "no"
        /\ outcome' = [outcome EXCEPT ![s] = "cancelled"]
  /\ Finish(s, "other")
  /\ Goes(s, "caught")
  /\ UNCHANGED <<panelVars, cancelled, poller, sharedVars, crossed>>

Connected(s) ==
  /\ at[s] = "connected"
  /\ client' = s
  /\ crossed' = (crossed \ {s}) \cup WritesOver(s)
  /\ Goes(s, "announce")
  /\ UNCHANGED <<panelVars, cancelled, outcome, connectionVars, poller, phase, data>>

ShowConnected(s) ==
  /\ at[s] = "announce"
  /\ phase' = "Connected"
  /\ poller' = [poller EXCEPT ![s] = "first"]
  /\ Crosses(s)
  /\ Goes(s, "inside")
  /\ UNCHANGED <<panelVars, cancelled, outcome, connectionVars, client, data>>

(* closed.await() returns or throws, and the coroutines are cancelled.     *)
Wakes(s) ==
  /\ at[s] = "inside"
  /\ closed[s] # "no" \/ s \in cancelled
  /\ Goes(s, "leaving")
  /\ UNCHANGED <<panelVars, cancelled, outcome, connectionVars, poller, sharedVars, crossed>>

(* The coroutineScope waits for its coroutines.  Mutant: they are launched *)
(* in the scope of the controller.                                         *)
NotAwaited(s) == TRUE

ChildrenEnded(s) == poller[s] = "ended"

LeaveScope(s) ==
  /\ at[s] = "leaving"
  /\ ChildrenEnded(s)
  /\ \/ s \in cancelled /\ outcome' = [outcome EXCEPT ![s] = "cancelled"]
     \/ s \notin cancelled /\ outcome[s] # "none" /\ UNCHANGED outcome
     \/ /\ s \notin cancelled
        /\ outcome[s] = "none"
        /\ outcome' = [outcome EXCEPT ![s] = IF closed[s] = "auth" THEN "auth" ELSE "failed"]
  /\ Goes(s, "caught")
  /\ UNCHANGED <<panelVars, cancelled, connectionVars, poller, sharedVars, crossed>>

AuthFails(s) ==
  /\ at[s] = "caught"
  /\ IF outcome[s] = "auth"
     THEN phase' = "AuthFailed" /\ Crosses(s)
     ELSE UNCHANGED <<phase, crossed>>
  /\ Goes(s, "close")
  /\ UNCHANGED <<panelVars, cancelled, outcome, connectionVars, poller, client, data>>

(* The inner finally.  Mutant: it does not close the connection.           *)
LeavesOpen(s) == UNCHANGED connectionVars

Closes(s) == Finish(s, "other")

CloseAttempt(s) ==
  /\ at[s] = "close"
  /\ client' = 0
  /\ Closes(s)
  /\ data' = 0
  /\ Crosses(s)
  /\ Goes(s, IF outcome[s] = "failed" THEN "retry" ELSE "clear")
  /\ UNCHANGED <<panelVars, cancelled, outcome, poller, phase>>

Retry(s) ==
  /\ at[s] = "retry"
  /\ phase' = "Retrying"
  /\ Crosses(s)
  /\ Goes(s, "delay")
  /\ UNCHANGED <<panelVars, cancelled, outcome, connectionVars, poller, client, data>>

DelayEnds(s) ==
  /\ RunsAt(s, "delay")
  /\ Goes(s, "read")
  /\ UNCHANGED <<panelVars, cancelled, outcome, connectionVars, poller, sharedVars, crossed>>

CancelledAtRest(s) ==
  /\ IsCancelledAt(s, "read") \/ IsCancelledAt(s, "delay")
  /\ Goes(s, "clear")
  /\ UNCHANGED <<panelVars, cancelled, outcome, connectionVars, poller, sharedVars, crossed>>

(* The outer finally.                                                      *)
Clear(s) ==
  /\ at[s] = "clear"
  /\ client' = 0
  /\ data' = 0
  /\ Crosses(s)
  /\ Goes(s, "last")
  /\ UNCHANGED <<panelVars, cancelled, outcome, connectionVars, poller, phase>>

ShowDisconnected(s) ==
  /\ at[s] = "last"
  /\ phase' = "Disconnected"
  /\ Crosses(s)
  /\ Goes(s, "ended")
  /\ UNCHANGED <<panelVars, cancelled, outcome, connectionVars, poller, client, data>>

SessionStep(s) ==
  \/ NeverRuns(s)
  \/ BeginSession(s)
  \/ ReadSettings(s)
  \/ Disabled(s)
  \/ BeginConnect(s)
  \/ ConnectReturns(s)
  \/ ConnectThrows(s)
  \/ Connected(s)
  \/ ShowConnected(s)
  \/ Wakes(s)
  \/ LeaveScope(s)
  \/ AuthFails(s)
  \/ CloseAttempt(s)
  \/ Retry(s)
  \/ DelayEnds(s)
  \/ CancelledAtRest(s)
  \/ Clear(s)
  \/ ShowDisconnected(s)

-----------------------------------------------------------------------------
(* The coroutines of a connected session                                   *)

PollerGoes(s, to) == poller' = [poller EXCEPT ![s] = to]

PollerUnchanged == <<panelVars, cancelled, connectionVars, crossed, client, phase>>

(* The list of scenes first, then the status again and again.              *)
PollAnswered(s) ==
  /\ poller[s] \in {"first", "polling"}
  /\ at[s] = "inside"
  /\ closed[s] = "no"
  /\ PollerGoes(s, "answered")
  /\ UNCHANGED <<PollerUnchanged, at, outcome, data>>

PollWrites(s) ==
  /\ poller[s] = "answered"
  /\ data' = s
  /\ PollerGoes(s, IF at[s] = "inside" THEN "polling" ELSE "ended")
  /\ UNCHANGED <<PollerUnchanged, at, outcome>>

(* A first request that fails takes the scope with it, perhaps with the    *)
(* cause of the connection; a later failure is only logged.                *)
FirstPollFails(s) ==
  /\ poller[s] = "first"
  /\ RunsAt(s, "inside")
  /\ PollerGoes(s, "ended")
  /\ \E o \in {"failed"} \cup ({closed[s]} \cap {"auth"}) :
       outcome' = [outcome EXCEPT ![s] = o]
  /\ Goes(s, "leaving")
  /\ UNCHANGED <<PollerUnchanged, data>>

(* The timeout of a request is a cancellation: it ends the poller alone.   *)
PollEnds(s) ==
  /\ poller[s] \in {"first", "polling"}
  /\ PollerGoes(s, "ended")
  /\ UNCHANGED <<PollerUnchanged, at, outcome, data>>

EventWrites(s) ==
  /\ at[s] \in {"inside", "leaving"}
  /\ data' = s
  /\ UNCHANGED <<PollerUnchanged, at, outcome, poller>>

PollerStep(s) ==
  \/ PollAnswered(s)
  \/ PollWrites(s)
  \/ FirstPollFails(s)
  \/ PollEnds(s)

Next ==
  \/ Show
  \/ Hide
  \/ \E s \in Sessions :
       \/ SessionStep(s)
       \/ PollerStep(s)
       \/ EventWrites(s)
       \/ Identifies(s)
       \/ \E cause \in {"auth", "other"} : ObsCloses(s, cause)

(* The dispatcher runs what is ready, and a cancelled or closed request    *)
(* ends.  The user and OBS do what they like.                              *)
Fairness ==
  \A s \in Sessions :
    /\ WF_vars(SessionStep(s))
    /\ WF_vars(at[s] # "inside" /\ PollerStep(s))

Spec == Init /\ [][Next]_vars /\ Fairness

-----------------------------------------------------------------------------
(* Commands go to OBS: while the session of the shown panel waits on its   *)
(* connection, that is the client commands use and the phase says so.      *)
(* The exception is a session of the panel shown before, cancelled and not *)
(* waited for, that writes them after it had connected.                    *)
CommandsHaveClient ==
  job # 0 /\ RunsAt(job, "inside") /\ job \notin crossed =>
    client = job /\ phase = "Connected"

(* What is shown of OBS is never older than the connection it came over:   *)
(* no answer or event is shown once a session has closed its connection.   *)
DataIsOfAConnection ==
  data # 0 => at[data] \in {"inside", "leaving", "caught", "close"}

LetGo ==
  /\ client = 0 /\ data = 0 /\ phase = "Disconnected"
  /\ \A s \in Sessions : at[s] \in {"none", "ended"} /\ closed[s] # "no"

(* When the panel is hidden OBS is let go: every connection is closed,     *)
(* every session over, and nothing of OBS is shown.                        *)
HiddenPanelLetsGo == ~visible ~> (visible \/ LetGo)

(* Its safety half: whatever sessions overlapped, and in whatever order    *)
(* they cleaned up after each other, once the last one is over nothing is  *)
(* left of any; and behind a hidden panel all are told to end.             *)
LastLetsGo ==
  (\A s \in Sessions : at[s] \in {"none", "ended"}) => LetGo

HiddenStops ==
  ~visible => \A s \in Sessions : at[s] \in {"none", "ended"} \/ s \in cancelled
=============================================================================
