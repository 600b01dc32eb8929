-------------------------- MODULE ObsSession_proofs --------------------------
(***************************************************************************)
(* Proofs about the remote control of OBS, for any number of sessions: the *)
(* shown panel's session has the client and the phase to itself but for    *)
(* what cancelled sessions still write, and nothing of OBS is shown        *)
(* without a connection it came over.                                      *)
(***************************************************************************)
EXTENDS ObsSession, TLAPS

-----------------------------------------------------------------------------
(* The steps of a session                                                  *)

(* A session that takes a step has begun and has not ended, and what it    *)
(* writes of the client and of the phase is either its own or noted.       *)
StepOf(s, to) ==
  /\ at[s] \notin {"none", "ended"}
  /\ Goes(s, to)
  /\ to = "announce" => client' = s
  /\ to = "inside" => at[s] = "announce" /\ client' = client /\ phase' = "Connected"
  /\ to # "announce" => crossed \subseteq crossed'
  /\ UNCHANGED <<panelVars, cancelled>>
  /\ UNCHANGED <<client, phase, crossed>> \/ (crossed \ {s}) \cup WritesOver(s) \subseteq crossed'

LEMMA SessionSteps ==
  ASSUME NEW s \in Sessions, SessionStep(s)
  PROVE  \E to : StepOf(s, to)
<1> USE DEF StepOf, Goes, IsCancelledAt, RunsAt, sharedVars, Crosses
<1>1. CASE NeverRuns(s)
  <2> StepOf(s, "ended")
    BY <1>1 DEF NeverRuns
  <2> QED
    OBVIOUS
<1>2. CASE ReadSettings(s)
  <2> StepOf(s, "open")
    BY <1>2 DEF ReadSettings
  <2> QED
    OBVIOUS
<1>3. CASE Disabled(s)
  <2> StepOf(s, "clear")
    BY <1>3 DEF Disabled
  <2> QED
    OBVIOUS
<1>4. CASE BeginConnect(s)
  <2> StepOf(s, "connecting")
    BY <1>4 DEF BeginConnect
  <2> QED
    OBVIOUS
<1>5. CASE ConnectReturns(s)
  <2> StepOf(s, "connected")
    BY <1>5 DEF ConnectReturns
  <2> QED
    OBVIOUS
<1>6. CASE ConnectThrows(s)
  <2> StepOf(s, "caught")
    BY <1>6 DEF ConnectThrows
  <2> QED
    OBVIOUS
<1>7. CASE Connected(s)
  <2> StepOf(s, "announce")
    BY <1>7 DEF Connected
  <2> QED
    OBVIOUS
<1>17. CASE ShowConnected(s)
  <2> StepOf(s, "inside")
    BY <1>17 DEF ShowConnected
  <2> QED
    OBVIOUS
<1>18. CASE BeginSession(s)
  <2> StepOf(s, "read")
    BY <1>18 DEF BeginSession
  <2> QED
    OBVIOUS
<1>8. CASE Wakes(s)
  <2> StepOf(s, "leaving")
    BY <1>8 DEF Wakes
  <2> QED
    OBVIOUS
<1>9. CASE LeaveScope(s)
  <2> StepOf(s, "caught")
    BY <1>9 DEF LeaveScope
  <2> QED
    OBVIOUS
<1>10. CASE AuthFails(s)
  <2> StepOf(s, "close")
    BY <1>10 DEF AuthFails
  <2> QED
    OBVIOUS
<1>11. CASE CloseAttempt(s)
  <2> StepOf(s, IF outcome[s] = "failed" THEN "retry" ELSE "clear")
    BY <1>11 DEF CloseAttempt
  <2> QED
    OBVIOUS
<1>12. CASE Retry(s)
  <2> StepOf(s, "delay")
    BY <1>12 DEF Retry
  <2> QED
    OBVIOUS
<1>13. CASE DelayEnds(s)
  <2> StepOf(s, "read")
    BY <1>13 DEF DelayEnds
  <2> QED
    OBVIOUS
<1>14. CASE CancelledAtRest(s)
  <2> StepOf(s, "clear")
    BY <1>14 DEF CancelledAtRest
  <2> QED
    OBVIOUS
<1>15. CASE Clear(s)
  <2> StepOf(s, "last")
    BY <1>15 DEF Clear
  <2> QED
    OBVIOUS
<1>16. CASE ShowDisconnected(s)
  <2> StepOf(s, "ended")
    BY <1>16 DEF ShowDisconnected
  <2> QED
    OBVIOUS
<1> QED
  BY <1>1, <1>2, <1>3, <1>4, <1>5, <1>6, <1>7, <1>8, <1>9, <1>10, <1>11, <1>12, <1>13, <1>14, <1>15, <1>16, <1>17, <1>18 DEF SessionStep

(* Its coroutine and its connection change neither.                        *)
LEMMA PollerSteps ==
  ASSUME NEW s \in Sessions, PollerStep(s)
  PROVE  /\ UNCHANGED <<panelVars, cancelled, crossed, client, phase>>
         /\ at' = at \/ (at[s] = "inside" /\ Goes(s, "leaving"))
BY DEF PollerStep, PollAnswered, PollWrites, FirstPollFails, PollEnds, PollerUnchanged, RunsAt

LEMMA OtherSteps ==
  ASSUME NEW s \in Sessions,
         \/ EventWrites(s)
         \/ Identifies(s)
         \/ \E cause \in {"auth", "other"} : ObsCloses(s, cause)
  PROVE  UNCHANGED <<panelVars, cancelled, crossed, client, phase, at, poller>>
BY DEF EventWrites, PollerUnchanged, Identifies, ObsCloses, SessionUnchanged, panelVars, sharedVars

-----------------------------------------------------------------------------
(* One session runs                                                        *)

(* Only the present session runs without being cancelled, and a session    *)
(* not launched yet is not anything.                                       *)
OnlyJobRuns ==
  /\ at = [s \in Sessions |-> at[s]]
  /\ launched \in 0..MaxSessions
  /\ job \in 0..launched
  /\ \A s \in Sessions : s > launched => at[s] = "none" /\ s \notin cancelled
  /\ \A s \in Sessions : at[s] \in {"none", "ended"} \/ s = job \/ s \in cancelled

LEMMA JobInit == Init => OnlyJobRuns
BY ObsSessionAssumption DEF ObsSessionAssumption, Init, OnlyJobRuns

LEMMA JobStep == OnlyJobRuns /\ [Next]_vars => OnlyJobRuns'
<1> SUFFICES ASSUME OnlyJobRuns, [Next]_vars PROVE OnlyJobRuns'
  OBVIOUS
<1> USE ObsSessionAssumption DEF ObsSessionAssumption, Sessions, OnlyJobRuns, Goes, panelVars
<1>1. CASE Show
  BY <1>1 DEF Show, IsActive
<1>2. CASE Hide
  BY <1>2 DEF Hide
<1>3. CASE \E s \in Sessions : SessionStep(s)
  <2> PICK s \in Sessions : \E to : StepOf(s, to)
    BY <1>3, SessionSteps
  <2> PICK to : StepOf(s, to)
    OBVIOUS
  <2> QED
    BY DEF StepOf
<1>4. CASE \E s \in Sessions : PollerStep(s)
  BY <1>4, PollerSteps
<1>5. CASE \E s \in Sessions :
             \/ EventWrites(s)
             \/ Identifies(s)
             \/ \E cause \in {"auth", "other"} : ObsCloses(s, cause)
  BY <1>5, OtherSteps
<1>6. CASE UNCHANGED vars
  BY <1>6 DEF vars
<1> QED
  BY <1>1, <1>2, <1>3, <1>4, <1>5, <1>6 DEF Next

-----------------------------------------------------------------------------
(* What is shown                                                           *)

Scoped == {"inside", "leaving"}

Bare == {"inside", "leaving", "caught", "close"}

DataInv ==
  /\ poller = [s \in Sessions |-> poller[s]]
  /\ \A s \in Sessions : poller[s] # "ended" => at[s] \in Scoped
  /\ data # 0 => data \in Sessions /\ at[data] \in Bare

LEMMA DataInit == Init => DataInv
BY DEF Init, DataInv

LEMMA DataStep == OnlyJobRuns /\ DataInv /\ [Next]_vars => DataInv'
<1> SUFFICES ASSUME OnlyJobRuns, DataInv, [Next]_vars PROVE DataInv'
  OBVIOUS
<1> USE DEF DataInv, Scoped, Bare, Goes, PollerGoes, panelVars, sharedVars, connectionVars
<1>at. at = [s \in Sessions |-> at[s]]
  BY DEF OnlyJobRuns
<1>1. CASE Show
  <2>1. ASSUME launched < MaxSessions
        PROVE  launched + 1 \in Sessions /\ at[launched + 1] = "none"
    BY <2>1, ObsSessionAssumption DEF ObsSessionAssumption, OnlyJobRuns, Sessions
  <2> QED
    BY <1>at, <1>1, <2>1 DEF Show
<1>2. CASE Hide
  BY <1>2 DEF Hide
<1>3. CASE \E s \in Sessions : SessionStep(s)
  <2> PICK s \in Sessions : SessionStep(s)
    BY <1>3
  <2>1. CASE NeverRuns(s)
    BY <1>at, <2>1 DEF NeverRuns, IsCancelledAt
  <2>2. CASE ReadSettings(s)
    BY <1>at, <2>2 DEF ReadSettings, RunsAt
  <2>3. CASE Disabled(s)
    BY <1>at, <2>3 DEF Disabled
  <2>4. CASE BeginConnect(s)
    BY <1>at, <2>4 DEF BeginConnect
  <2>5. CASE ConnectReturns(s)
    BY <1>at, <2>5 DEF ConnectReturns, RunsAt
  <2>6. CASE ConnectThrows(s)
    BY <1>at, <2>6 DEF ConnectThrows
  <2>7. CASE Connected(s)
    BY <1>at, <2>7 DEF Connected
  <2>17. CASE ShowConnected(s)
    BY <1>at, <2>17 DEF ShowConnected
  <2>18. CASE BeginSession(s)
    BY <1>at, <2>18 DEF BeginSession, RunsAt
  <2>8. CASE Wakes(s)
    BY <1>at, <2>8 DEF Wakes
  <2>9. CASE LeaveScope(s)
    BY <1>at, <2>9 DEF LeaveScope, ChildrenEnded
  <2>10. CASE AuthFails(s)
    BY <1>at, <2>10 DEF AuthFails
  <2>11. CASE CloseAttempt(s)
    BY <1>at, <2>11 DEF CloseAttempt
  <2>12. CASE Retry(s)
    BY <1>at, <2>12 DEF Retry
  <2>13. CASE DelayEnds(s)
    BY <1>at, <2>13 DEF DelayEnds, RunsAt
  <2>14. CASE CancelledAtRest(s)
    BY <1>at, <2>14 DEF CancelledAtRest, IsCancelledAt
  <2>15. CASE Clear(s)
    BY <1>at, <2>15 DEF Clear
  <2>16. CASE ShowDisconnected(s)
    BY <1>at, <2>16 DEF ShowDisconnected
  <2> QED
    BY <2>1, <2>2, <2>3, <2>4, <2>5, <2>6, <2>7, <2>8, <2>9, <2>10, <2>11, <2>12, <2>13, <2>14, <2>15, <2>16, <2>17, <2>18 DEF SessionStep
<1>4. CASE \E s \in Sessions : PollerStep(s)
  <2> PICK s \in Sessions : PollerStep(s)
    BY <1>4
  <2> USE <1>at DEF PollerUnchanged
  <2>1. CASE PollAnswered(s)
    BY <2>1 DEF PollAnswered
  <2>2. CASE PollWrites(s)
    BY <2>2 DEF PollWrites, Sessions
  <2>3. CASE FirstPollFails(s)
    BY <2>3 DEF FirstPollFails, RunsAt
  <2>4. CASE PollEnds(s)
    BY <2>4 DEF PollEnds
  <2> QED
    BY <2>1, <2>2, <2>3, <2>4 DEF PollerStep
<1>5. CASE \E s \in Sessions : EventWrites(s)
  BY <1>at, <1>5 DEF EventWrites, PollerUnchanged
<1>6. CASE \E s \in Sessions :
             Identifies(s) \/ \E cause \in {"auth", "other"} : ObsCloses(s, cause)
  BY <1>6 DEF Identifies, ObsCloses, SessionUnchanged
<1>7. CASE UNCHANGED vars
  BY <1>7 DEF vars
<1> QED
  BY <1>1, <1>2, <1>3, <1>4, <1>5, <1>6, <1>7 DEF Next

(* runSession() waits for its coroutines before its finally empties what   *)
(* they wrote: no answer arrives after that.                               *)
THEOREM DataHasConnection == Spec => []DataIsOfAConnection
<1>1. DataInv => DataIsOfAConnection
  BY DEF DataInv, Bare, DataIsOfAConnection
<1> QED
  BY <1>1, JobInit, JobStep, DataInit, DataStep, PTL DEF Spec

-----------------------------------------------------------------------------
(* The client                                                              *)

(* From client = session on, before the phase is shown.                    *)
ClientInv ==
  job # 0 /\ job \notin crossed =>
    /\ RunsAt(job, "announce") => client = job
    /\ RunsAt(job, "inside") => client = job /\ phase = "Connected"

LEMMA ClientStep ==
  OnlyJobRuns /\ ClientInv /\ [Next]_vars => ClientInv'
<1> SUFFICES ASSUME OnlyJobRuns, ClientInv, [Next]_vars PROVE ClientInv'
  OBVIOUS
<1> USE ObsSessionAssumption
    DEF ObsSessionAssumption, Sessions, OnlyJobRuns, ClientInv, RunsAt, Goes, panelVars
<1>1. CASE Show
  BY <1>1 DEF Show, sharedVars
<1>2. CASE Hide
  BY <1>2 DEF Hide
<1>3. CASE \E s \in Sessions : SessionStep(s)
  <2> PICK s \in Sessions : \E to : StepOf(s, to)
    BY <1>3, SessionSteps
  <2> PICK to : StepOf(s, to)
    OBVIOUS
  <2>1. CASE s = job
    BY <2>1 DEF StepOf
  <2>2. CASE s # job
    <3>1. s \in cancelled /\ job' = job /\ cancelled' = cancelled
      BY <2>2 DEF StepOf
    <3>2. job \in Sessions => at'[job] = at[job]
      BY <2>2 DEF StepOf
    <3>3. job # 0 => job \in Sessions
      OBVIOUS
    <3>4. CASE UNCHANGED <<client, phase, crossed>>
      BY <3>1, <3>2, <3>3, <3>4
    <3>5. CASE (crossed \ {s}) \cup WritesOver(s) \subseteq crossed'
      <4>1. job # 0 /\ at[job] \in {"announce", "inside"} => job \in crossed'
        BY <2>2, <3>1, <3>3, <3>5 DEF WritesOver
      <4> QED
        BY <3>1, <3>2, <3>3, <4>1
    <3> QED
      BY <3>4, <3>5 DEF StepOf
  <2> QED
    BY <2>1, <2>2
<1>4. CASE \E s \in Sessions : PollerStep(s)
  BY <1>4, PollerSteps
<1>5. CASE \E s \in Sessions :
             \/ EventWrites(s)
             \/ Identifies(s)
             \/ \E cause \in {"auth", "other"} : ObsCloses(s, cause)
  BY <1>5, OtherSteps
<1>6. CASE UNCHANGED vars
  BY <1>6 DEF vars, sharedVars
<1> QED
  BY <1>1, <1>2, <1>3, <1>4, <1>5, <1>6 DEF Next

(* No session that is not cancelled takes the client or the phase from the *)
(* session of the shown panel.                                             *)
THEOREM CommandsReachObs == Spec => []CommandsHaveClient
<1>1. Init => ClientInv
  BY DEF Init, ClientInv
<1>2. ClientInv => CommandsHaveClient
  BY DEF ClientInv, CommandsHaveClient
<1> QED
  BY <1>1, <1>2, JobInit, JobStep, ClientStep, PTL DEF Spec

-----------------------------------------------------------------------------
(* What is left behind                                                     *)

(* Places with a connection that may be open, places behind the first      *)
(* write of the phase and before the last, and the state that belongs to   *)
(* a session in one of them.                                               *)
Open == {"connecting", "connected", "announce", "inside", "leaving", "caught", "close"}

Busy == Open \cup {"read", "open", "retry", "delay", "clear", "last"}

Places == Busy \cup {"none", "launched", "ended"}

LeftInv ==
  /\ \A s \in Sessions : at[s] \in Places
  /\ client # 0 => client \in Sessions /\ at[client] \in Bare \cup {"announce"}
  /\ phase # "Disconnected" => \E s \in Sessions : at[s] \in Busy
  /\ closed = [s \in Sessions |-> closed[s]]
  /\ \A s \in Sessions : closed[s] = "no" => at[s] \in Open

LEMMA LeftInit == Init => LeftInv
BY DEF Init, LeftInv, Places

LEMMA LeftStep == OnlyJobRuns /\ LeftInv /\ [Next]_vars => LeftInv'
<1> SUFFICES ASSUME OnlyJobRuns, LeftInv, [Next]_vars PROVE LeftInv'
  OBVIOUS
<1> USE DEF LeftInv, Open, Busy, Bare, Places, Goes, panelVars, sharedVars, connectionVars
<1>at. at = [s \in Sessions |-> at[s]]
  BY DEF OnlyJobRuns
<1>1. CASE Show
  <2>1. ASSUME launched < MaxSessions
        PROVE  launched + 1 \in Sessions /\ at[launched + 1] = "none"
    BY <2>1, ObsSessionAssumption DEF ObsSessionAssumption, OnlyJobRuns, Sessions
  <2> QED
    BY <1>at, <1>1, <2>1 DEF Show
<1>2. CASE Hide
  BY <1>2 DEF Hide
<1>3. CASE \E s \in Sessions : SessionStep(s)
  <2> PICK s \in Sessions : SessionStep(s)
    BY <1>3
  <2>1. CASE NeverRuns(s)
    BY <1>at, <2>1 DEF NeverRuns, IsCancelledAt
  <2>2. CASE ReadSettings(s)
    BY <1>at, <2>2 DEF ReadSettings, RunsAt
  <2>3. CASE Disabled(s)
    BY <1>at, <2>3 DEF Disabled
  <2>4. CASE BeginConnect(s)
    BY <1>at, <2>4 DEF BeginConnect
  <2>5. CASE ConnectReturns(s)
    BY <1>at, <2>5 DEF ConnectReturns, RunsAt
  <2>6. CASE ConnectThrows(s)
    BY <1>at, <2>6 DEF ConnectThrows, Finish
  <2>7. CASE Connected(s)
    BY <1>at, <2>7 DEF Connected, Sessions
  <2>17. CASE ShowConnected(s)
    BY <1>at, <2>17 DEF ShowConnected
  <2>18. CASE BeginSession(s)
    BY <1>at, <2>18 DEF BeginSession, RunsAt
  <2>8. CASE Wakes(s)
    BY <1>at, <2>8 DEF Wakes
  <2>9. CASE LeaveScope(s)
    BY <1>at, <2>9 DEF LeaveScope
  <2>10. CASE AuthFails(s)
    BY <1>at, <2>10 DEF AuthFails
  <2>11. CASE CloseAttempt(s)
    BY <1>at, <2>11 DEF CloseAttempt, Closes, Finish
  <2>12. CASE Retry(s)
    BY <1>at, <2>12 DEF Retry
  <2>13. CASE DelayEnds(s)
    BY <1>at, <2>13 DEF DelayEnds, RunsAt
  <2>14. CASE CancelledAtRest(s)
    BY <1>at, <2>14 DEF CancelledAtRest, IsCancelledAt
  <2>15. CASE Clear(s)
    BY <1>at, <2>15 DEF Clear
  <2>16. CASE ShowDisconnected(s)
    BY <1>at, <2>16 DEF ShowDisconnected
  <2> QED
    BY <2>1, <2>2, <2>3, <2>4, <2>5, <2>6, <2>7, <2>8, <2>9, <2>10, <2>11, <2>12, <2>13, <2>14, <2>15, <2>16, <2>17, <2>18 DEF SessionStep
<1>4. CASE \E s \in Sessions : PollerStep(s)
  <2> PICK s \in Sessions : PollerStep(s)
    BY <1>4
  <2>1. UNCHANGED <<closed, client, phase>>
    BY DEF PollerStep, PollAnswered, PollWrites, FirstPollFails, PollEnds, PollerUnchanged
  <2>2. at' = at \/ (at[s] = "inside" /\ Goes(s, "leaving"))
    BY PollerSteps
  <2> QED
    BY <1>at, <2>1, <2>2
<1>5. CASE \E s \in Sessions : EventWrites(s) \/ Identifies(s)
  BY <1>5 DEF EventWrites, PollerUnchanged, Identifies, SessionUnchanged
<1>6. CASE \E s \in Sessions, cause \in {"auth", "other"} : ObsCloses(s, cause)
  BY <1>6 DEF ObsCloses, Finish, SessionUnchanged
<1>7. CASE UNCHANGED vars
  BY <1>7 DEF vars
<1> QED
  BY <1>1, <1>2, <1>3, <1>4, <1>5, <1>6, <1>7 DEF Next

(* However many sessions were cancelled and ran beside each other, the     *)
(* last one to end leaves no client, no phase, no data and no connection.  *)
THEOREM LastOneLetsGo == Spec => []LastLetsGo
<1>1. LeftInv /\ DataInv => LastLetsGo
  BY DEF LeftInv, DataInv, LastLetsGo, LetGo, Open, Busy, Bare
<1> QED
  BY <1>1, JobInit, JobStep, DataInit, DataStep, LeftInit, LeftStep, PTL DEF Spec

(* Hiding the panel cancels every session that has not ended.              *)
THEOREM HiddenCancels == Spec => []HiddenStops
<1> DEFINE HiddenInv == ~visible => job = 0
<1>1. Init => HiddenInv
  BY DEF Init
<1>2. OnlyJobRuns /\ HiddenInv /\ [Next]_vars => HiddenInv'
  <2> SUFFICES ASSUME HiddenInv, [Next]_vars PROVE HiddenInv'
    OBVIOUS
  <2>1. CASE Show \/ Hide
    BY <2>1 DEF Show, Hide
  <2>2. CASE \E s \in Sessions : SessionStep(s)
    BY <2>2, SessionSteps DEF StepOf, panelVars
  <2>3. CASE \E s \in Sessions : PollerStep(s)
    BY <2>3, PollerSteps DEF panelVars
  <2>4. CASE \E s \in Sessions :
               \/ EventWrites(s)
               \/ Identifies(s)
               \/ \E cause \in {"auth", "other"} : ObsCloses(s, cause)
    BY <2>4, OtherSteps DEF panelVars
  <2>5. CASE UNCHANGED vars
    BY <2>5 DEF vars, panelVars
  <2> QED
    BY <2>1, <2>2, <2>3, <2>4, <2>5 DEF Next
<1>3. OnlyJobRuns /\ HiddenInv => HiddenStops
  BY DEF OnlyJobRuns, HiddenStops, Sessions
<1> QED
  BY <1>1, <1>2, <1>3, JobInit, JobStep, PTL DEF Spec
=============================================================================
