------------------------ MODULE StreamSession_proofs ------------------------
(***************************************************************************)
(* Proofs about StreamSession: for any number of session coroutines, and   *)
(* with every start made from the button, sessions never overlap, and what *)
(* they share is theirs alone and left clean.                              *)
(***************************************************************************)
EXTENDS StreamSession, FiniteSetTheorems, TLAPS

LEMMA TypeInit == Init => TypeOK
BY SessionAssumption DEF Init, SinkInit, TypeOK, SinkTypeOK, CallbackState

LEMMA TypeStep == TypeOK /\ [Next]_vars => TypeOK'
<1> SUFFICES ASSUME TypeOK, [Next]_vars PROVE TypeOK'
  OBVIOUS
<1> USE DEF TypeOK, SinkTypeOK, CallbackState
<1>1. CASE \E s \in Sessions : Start(s)
  BY <1>1 DEF Start, sinkVars
<1>2. CASE Stop
  BY <1>2 DEF Stop, sinkVars
<1>3. CASE Outside
  <2>1. CASE SocketDies
    BY <1>3, <2>1 DEF Outside, sessionVars, SocketDies, Dies
  <2>2. CASE WriteFails
    BY <1>3, <2>2 DEF Outside, sessionVars, WriteFails, Dies
  <2>3. ASSUME NEW exception \in BOOLEAN, CallbackSets(exception) \/ LateSets(exception)
        PROVE  TypeOK'
    BY <1>3, <2>3 DEF Outside, sessionVars, CallbackSets, LateSets
  <2>4. CASE CallbackTells \/ LateTells
    BY <1>3, <2>4 DEF Outside, sessionVars, CallbackTells, LateTells, FlagOnCompletion
  <2> QED
    BY <1>3, <2>1, <2>2, <2>3, <2>4 DEF Outside, Notifies
<1>4. CASE \E s \in Sessions : LatencyChanged(s)
  BY <1>4 DEF LatencyChanged, Goes, sinkVars
<1>5. CASE \E s \in Sessions : Runs(s)
  <2> PICK s \in Sessions : Runs(s)
    BY <1>5
  <2>1. CASE Begin(s)
    BY <2>1 DEF Begin, Goes, sinkVars
  <2>2. CASE Cancel(s)
    BY <2>2 DEF Cancel, ConnectFails, Goes, sinkVars
  <2>3. CASE \E ok \in BOOLEAN : StartRelay(s, ok)
    BY <2>3 DEF StartRelay, PortKnown, Goes, sinkVars
  <2>4. CASE Open(s)
    BY <2>4 DEF Open, OpenBegin, Goes, sinkVars
  <2>5. CASE Connect(s)
    BY <2>5 DEF Connect, ConnectOk, ConnectFails, Goes
  <2>6. CASE FinishOpen(s)
    BY <2>6 DEF FinishOpen, CheckAlive, EmitOpen, Raised, Goes
  <2>7. CASE GoLive(s)
    BY <2>7 DEF GoLive, StartSending, Goes, sinkVars
  <2>8. CASE Disconnected(s) \/ BackToIdle(s) \/ StopForeground(s)
    <3>1. CASE Disconnected(s)
      BY <3>1 DEF Disconnected, Goes, sinkVars
    <3>2. CASE BackToIdle(s)
      BY <3>2 DEF BackToIdle, Goes, sinkVars
    <3>3. CASE StopForeground(s)
      BY <3>3 DEF StopForeground, Goes, sinkVars
    <3> QED
      BY <2>8, <3>1, <3>2, <3>3
  <2>9. CASE Switch(s) \/ Fail(s) \/ StopEngine(s)
    <3>1. CASE Switch(s)
      BY <3>1 DEF Switch, Closed, Dies, FirstStep, Goes
    <3>2. CASE Fail(s)
      BY <3>2 DEF Fail, Closed, Dies, Goes
    <3>3. CASE StopEngine(s)
      BY <3>3 DEF StopEngine, Closed, Dies, PhaseInCleanup, Goes
    <3> QED
      BY <2>9, <3>1, <3>2, <3>3
  <2>10. CASE Retry(s) \/ StopRelay(s)
    BY <2>10 DEF Retry, StopRelay, RelayStopped, FirstStep, Goes, sinkVars
  <2> QED
    BY <2>1, <2>2, <2>3, <2>4, <2>5, <2>6, <2>7, <2>8, <2>9, <2>10 DEF Runs
<1>6. CASE UNCHANGED vars
  BY <1>6 DEF vars, sinkVars, sessionVars
<1> QED
  BY <1>1, <1>2, <1>3, <1>4, <1>5, <1>6 DEF Next

(* Sessions and the sink keep their types, whatever is tapped.             *)
THEOREM TypeCorrect == Spec => []TypeOK
<1> QED
  BY TypeInit, TypeStep, PTL DEF Spec

-----------------------------------------------------------------------------
(* The inductive invariant                                                 *)

(* The steps between the start of the service and its stop, those in which *)
(* a connection may be up, those that try or hold one, and those in which  *)
(* the relay may run.                                                      *)
Covered    == {"relay", "open", "opening", "starting", "live", "failing",
               "switching", "backoff", "fin", "finRelay", "finForeground"}
Connecting == {"opening", "starting", "live", "failing", "switching", "fin"}
Attempting == {"open", "opening", "starting", "live", "switching"}
Relaying   == Attempting \cup {"failing", "backoff"}

Alone == \A s, t \in Sessions : pc[s] # "none" /\ pc[t] # "none" => s = t

(* In the phase Idle a session can only be one that was just launched.     *)
IdleIsQuiet ==
  phase = "Idle" => \A s \in Sessions :
    pc[s] = "none" \/ (pc[s] = "launched" /\ job = s /\ ~cancelled[s])

ServiceCovers == foreground <=> \E s \in Sessions : pc[s] \in Covered

EngineOwned ==
  /\ streaming \/ socket \in {"connecting", "connected"} =>
       \E s \in Sessions : pc[s] \in Connecting
  /\ opening # "no" => \E s \in Sessions : pc[s] = "opening"

(* A relay runs for a session that uses it and, until its cleanup, knows   *)
(* its port.                                                               *)
RelayOwned ==
  relay # None =>
    /\ bonding[relay]
    /\ pc[relay] \in Relaying \cup {"fin", "finRelay"}
    /\ pc[relay] \in Relaying => hasPort[relay]

(* A port that is known is that of the running relay.                      *)
PortFresh ==
  \A s \in Sessions :
    /\ pc[s] \in {"launched", "relay"} => ~hasPort[s]
    /\ pc[s] = "relay" => bonding[s]
    /\ bonding[s] /\ pc[s] \in Attempting => hasPort[s]
    /\ bonding[s] /\ hasPort[s] /\ pc[s] \in Relaying => relay = s

Inv ==
  /\ TypeOK /\ Alone /\ IdleIsQuiet /\ ServiceCovers
  /\ EngineOwned /\ RelayOwned /\ PortFresh

LEMMA InvInit == Init => Inv
<1> SUFFICES ASSUME Init PROVE Inv
  OBVIOUS
<1>1. TypeOK
  BY TypeInit
<1>2. \A s \in Sessions : pc[s] = "none" /\ bonding[s] = FALSE
  BY DEF Init
<1>3. Alone /\ IdleIsQuiet
  BY <1>2 DEF Alone, IdleIsQuiet
<1>4. ServiceCovers
  <2>1. foreground = FALSE
    BY DEF Init
  <2> QED
    BY <1>2, <2>1 DEF ServiceCovers, Covered
<1>5. EngineOwned
  BY DEF Init, SinkInit, EngineOwned
<1>6. RelayOwned
  BY DEF Init, RelayOwned
<1>7. PortFresh
  BY <1>2 DEF PortFresh
<1> QED
  BY <1>1, <1>3, <1>4, <1>5, <1>6, <1>7 DEF Inv

(* One step per action; what an action moves is one session, and by Alone  *)
(* there is no other.                                                      *)
LEMMA InvStep == ASSUME ~Autostart PROVE Inv /\ [Next]_vars => Inv'
<1> SUFFICES ASSUME Inv, [Next]_vars PROVE Inv'
  OBVIOUS
<1>0. TypeOK /\ TypeOK'
  BY TypeStep DEF Inv
<1> DEFINE Rest == /\ Alone' /\ IdleIsQuiet' /\ ServiceCovers'
                   /\ EngineOwned' /\ RelayOwned' /\ PortFresh'
<1> SUFFICES Rest
  BY <1>0 DEF Inv
<1>1. TypeOK /\ pc = [s \in Sessions |-> pc[s]] /\ None \notin Sessions
  BY <1>0, SessionAssumption DEF TypeOK
<1>2. /\ cancelled \in [Sessions -> BOOLEAN] /\ bonding \in [Sessions -> BOOLEAN]
      /\ hasPort \in [Sessions -> BOOLEAN] /\ relay \in Sessions \cup {None}
  BY <1>0 DEF TypeOK
<1> USE <1>1, <1>2 DEF Inv, Alone, IdleIsQuiet, ServiceCovers, EngineOwned,
    RelayOwned, PortFresh, Covered, Connecting, Attempting, Relaying
<1>3. CASE \E s \in Sessions : Start(s)
  BY <1>3 DEF Start, IsSessionActive, sinkVars
<1>4. CASE Stop
  BY <1>4 DEF Stop, sinkVars
<1>5. CASE Outside
  BY <1>5 DEF Outside, sessionVars, SocketDies, Notifies, WriteFails, CallbackSets,
              LateSets, CallbackTells, LateTells, Dies
<1>6. CASE \E s \in Sessions : LatencyChanged(s)
  BY <1>6 DEF LatencyChanged, Goes, sinkVars
<1>7. CASE \E s \in Sessions : Runs(s)
  <2> PICK s \in Sessions : Runs(s)
    BY <1>7
  <2>1. CASE Begin(s)
    BY <2>1 DEF Begin, Goes, sinkVars
  <2>2. CASE Cancel(s)
    BY <2>2 DEF Cancel, ConnectFails, Goes, sinkVars, Suspended
  <2>3. CASE \E ok \in BOOLEAN : StartRelay(s, ok)
    BY <2>3 DEF StartRelay, PortKnown, Goes, sinkVars
  <2>4. CASE Open(s)
    BY <2>4 DEF Open, OpenBegin, Goes, sinkVars
  <2>5. CASE Connect(s)
    BY <2>5 DEF Connect, ConnectOk, ConnectFails, Goes
  <2>6. CASE FinishOpen(s)
    BY <2>6 DEF FinishOpen, CheckAlive, EmitOpen, Goes
  <2>7. CASE GoLive(s)
    BY <2>7 DEF GoLive, StartSending, Goes, sinkVars
  <2>8. CASE Disconnected(s)
    BY <2>8 DEF Disconnected, Goes, sinkVars
  <2>9. CASE Switch(s) \/ Fail(s)
    BY <2>9 DEF Switch, Fail, Closed, Dies, FirstStep, Goes
  <2>10. CASE Retry(s)
    BY <2>10 DEF Retry, FirstStep, Goes, sinkVars
  <2>11. CASE StopEngine(s)
    BY <2>11 DEF StopEngine, Closed, Dies, PhaseInCleanup, Goes
  <2>12. CASE StopRelay(s)
    BY <2>12 DEF StopRelay, RelayStopped, Goes, sinkVars
  <2>13. CASE StopForeground(s)
    BY <2>13 DEF StopForeground, Goes, sinkVars
  <2>14. CASE BackToIdle(s)
    BY <2>14 DEF BackToIdle, Goes, sinkVars
  <2> QED
    BY <2>1, <2>2, <2>3, <2>4, <2>5, <2>6, <2>7, <2>8, <2>9, <2>10, <2>11,
       <2>12, <2>13, <2>14 DEF Runs
<1>8. CASE UNCHANGED vars
  BY <1>8 DEF vars, sinkVars, sessionVars
<1> QED
  BY <1>3, <1>4, <1>5, <1>6, <1>7, <1>8 DEF Next

-----------------------------------------------------------------------------
(* What follows for every state                                            *)

LEMMA InvCorrect == ASSUME ~Autostart PROVE Spec => []Inv
<1>1. Init => Inv
  BY InvInit
<1>2. Inv /\ [Next]_vars => Inv'
  BY InvStep
<1> QED
  BY <1>1, <1>2, PTL DEF Spec

(* As long as nothing starts a session but the button, there is at most    *)
(* one coroutine in doConnect() or its cleanup, for all the taps.          *)
THEOREM OneAtATimeCorrect == ASSUME ~Autostart PROVE Spec => []OneAtATime
<1>1. Inv => OneAtATime
  <2> SUFFICES ASSUME Alone PROVE OneAtATime
    BY DEF Inv
  <2> DEFINE Running == {s \in Sessions : pc[s] # "none"}
  <2>1. CASE Running = {}
    BY <2>1, FS_EmptySet DEF OneAtATime
  <2>2. CASE Running # {}
    <3>1. PICK s \in Running : TRUE
      BY <2>2
    <3>2. Running = {s}
      BY <3>1 DEF Alone
    <3> HIDE DEF Running
    <3>3. Cardinality(Running) = 1
      BY <3>2, FS_Singleton
    <3> QED
      BY <3>3 DEF OneAtATime, Running
  <2> QED
    BY <2>1, <2>2
<1> QED
  BY <1>1, InvCorrect, PTL

(* The foreground service covers every connection, from the connect of the *)
(* engine to its close in the cleanup.                                     *)
THEOREM ConnectionCoveredCorrect ==
  ASSUME ~Autostart PROVE Spec => []ConnectionCovered
<1>1. Inv => ConnectionCovered
  BY DEF Inv, ServiceCovers, EngineOwned, ConnectionCovered, Connecting, Covered
<1> QED
  BY <1>1, InvCorrect, PTL

(* The phase Idle promises that nothing is left behind, wherever the       *)
(* session was cancelled.                                                  *)
THEOREM IdleIsCleanCorrect == ASSUME ~Autostart PROVE Spec => []IdleIsClean
<1>1. Inv => IdleIsClean
  <2> SUFFICES ASSUME Inv, phase = "Idle" PROVE IdleIsClean
    BY DEF IdleIsClean
  <2>1. \A s \in Sessions : pc[s] \in {"none", "launched"}
    BY DEF Inv, IdleIsQuiet
  <2>2. ~streaming /\ opening = "no" /\ socket \in {"none", "dead"}
    BY <2>1 DEF Inv, TypeOK, SinkTypeOK, EngineOwned, Connecting
  <2>3. relay = None
    BY <2>1 DEF Inv, TypeOK, RelayOwned, Relaying, Attempting
  <2>4. ~foreground
    BY <2>1 DEF Inv, ServiceCovers, Covered
  <2> QED
    BY <2>2, <2>3, <2>4 DEF IdleIsClean
<1> QED
  BY <1>1, InvCorrect, PTL

(* The port kept in localPort over the reconnects is that of the running   *)
(* relay whenever a connection is opened with it.                          *)
THEOREM ConnectsThroughRelayCorrect ==
  ASSUME ~Autostart PROVE Spec => []ConnectsThroughRelay
<1>1. Inv => ConnectsThroughRelay
  BY DEF Inv, PortFresh, ConnectsThroughRelay, Attempting, Relaying
<1> QED
  BY <1>1, InvCorrect, PTL

-----------------------------------------------------------------------------
(* The flag of the sink                                                    *)

(* A socket that is not dead has its callback before it; the verdict of    *)
(* open() is that of a connected socket, or the socket died since; the     *)
(* flag is never up before a connection.                                   *)
FlagInv ==
  /\ socket \in {"connecting", "connected"} => callback = "armed"
  /\ alive => /\ opening = "emit"
              /\ socket = "connected" \/ (socket = "dead" /\ raced)
  /\ isOpen => socket \in {"connected", "dead"}
  /\ FlagHasNotifier

LEMMA FlagStep == TypeOK /\ FlagInv /\ [Next]_vars => FlagInv'
<1> SUFFICES ASSUME TypeOK, FlagInv, [Next]_vars PROVE FlagInv'
  OBVIOUS
<1> USE DEF FlagInv, FlagHasNotifier
<1>1. SinkTypeOK
  BY DEF TypeOK
<1> USE <1>1 DEF SinkTypeOK, CallbackState
<1>2. CASE \E s \in Sessions : Start(s) \/ LatencyChanged(s)
  BY <1>2 DEF Start, LatencyChanged, sinkVars
<1>3. CASE Stop \/ UNCHANGED vars
  BY <1>3 DEF Stop, vars, sinkVars
<1>4. CASE SocketDies \/ WriteFails
  BY <1>4 DEF SocketDies, WriteFails, Dies
<1>5. CASE Notifies
  BY <1>5 DEF Notifies, CallbackSets, LateSets, CallbackTells, LateTells, FlagOnCompletion
<1>6. CASE \E s \in Sessions : Runs(s)
  <2> PICK s \in Sessions : Runs(s)
    BY <1>6
  <2>1. CASE Begin(s) \/ Retry(s) \/ StopRelay(s) \/ StopForeground(s) \/ BackToIdle(s)
    BY <2>1 DEF Begin, Retry, StopRelay, StopForeground, BackToIdle, sinkVars
  <2>2. CASE Cancel(s) \/ Disconnected(s) \/ \E ok \in BOOLEAN : StartRelay(s, ok)
    BY <2>2 DEF Cancel, Disconnected, StartRelay, ConnectFails, sinkVars
  <2>3. CASE Open(s)
    BY <2>3 DEF Open, OpenBegin, sinkVars
  <2>4. CASE Connect(s)
    BY <2>4 DEF Connect, ConnectOk, ConnectFails
  <2>5. CASE FinishOpen(s)
    BY <2>5 DEF FinishOpen, CheckAlive, EmitOpen, Raised
  <2>6. CASE GoLive(s)
    BY <2>6 DEF GoLive, StartSending, sinkVars
  <2>7. CASE Switch(s) \/ Fail(s) \/ StopEngine(s)
    BY <2>7 DEF Switch, Fail, StopEngine, Closed, Dies
  <2> QED
    BY <2>1, <2>2, <2>3, <2>4, <2>5, <2>6, <2>7 DEF Runs
<1> QED
  BY <1>2, <1>3, <1>4, <1>5, <1>6 DEF Next, Outside

LEMMA FlagInvCorrect == Spec => []FlagInv
<1>1. Init => FlagInv
  BY DEF Init, SinkInit, FlagInv, FlagHasNotifier
<1> QED
  BY <1>1, FlagStep, TypeCorrect, PTL DEF Spec

(* The flag is not left up over a dead socket with nobody to lower it,     *)
(* however the sessions overlap, unless the socket died in the window of   *)
(* open() between the check and the emit.                                  *)
THEOREM FlagNotified == Spec => []FlagHasNotifier
<1>1. FlagInv => FlagHasNotifier
  BY DEF FlagInv
<1> QED
  BY <1>1, FlagInvCorrect, PTL

(* A live session's socket was connected when it went live, after its      *)
(* open() had emitted, so a death since then has its callback before it.   *)
LiveInv ==
  /\ LiveIsWatched
  /\ \A s \in Sessions : pc[s] = "live" => socket \in {"connected", "dead"}

LEMMA LiveStep == Inv /\ FlagInv /\ LiveInv /\ [Next]_vars => LiveInv'
<1> SUFFICES ASSUME Inv, FlagInv, LiveInv, [Next]_vars PROVE LiveInv'
  OBVIOUS
<1>1. /\ SinkTypeOK /\ pc = [s \in Sessions |-> pc[s]]
      /\ Alone
      /\ \A s \in Sessions : pc[s] = "live" => opening = "no"
  BY DEF Inv, TypeOK, EngineOwned, Alone
<1>2. socket \in {"connecting", "connected"} => callback = "armed"
  BY DEF FlagInv
<1> USE <1>1, <1>2 DEF LiveInv, LiveIsWatched, SinkTypeOK, Alone
<1>3. CASE \E s \in Sessions : Start(s) \/ LatencyChanged(s)
  BY <1>3 DEF Start, LatencyChanged, Goes, sinkVars
<1>4. CASE Stop \/ UNCHANGED vars
  BY <1>4 DEF Stop, vars, sinkVars, sessionVars
<1>5. CASE Outside
  BY <1>5 DEF Outside, sessionVars, SocketDies, WriteFails, Dies, Notifies,
     CallbackSets, LateSets, CallbackTells, LateTells, FlagOnCompletion
<1>6. CASE \E s \in Sessions : Runs(s)
  <2> PICK s \in Sessions : Runs(s)
    BY <1>6
  <2>1. CASE Begin(s) \/ Retry(s) \/ StopRelay(s) \/ StopForeground(s) \/ BackToIdle(s)
    BY <2>1 DEF Begin, Retry, StopRelay, StopForeground, BackToIdle, FirstStep, Goes, sinkVars
  <2>2. CASE Cancel(s) \/ Disconnected(s) \/ \E ok \in BOOLEAN : StartRelay(s, ok)
    BY <2>2 DEF Cancel, Suspended, Disconnected, StartRelay, ConnectFails, Goes, sinkVars
  <2>3. CASE Open(s)
    BY <2>3 DEF Open, OpenBegin, Goes, sinkVars
  <2>4. CASE Connect(s)
    BY <2>4 DEF Connect, ConnectOk, ConnectFails, Goes
  <2>5. CASE FinishOpen(s)
    BY <2>5 DEF FinishOpen, CheckAlive, EmitOpen, Goes
  <2>6. CASE GoLive(s)
    BY <2>6 DEF GoLive, StartSending, Goes, sinkVars
  <2>7. CASE Switch(s) \/ Fail(s) \/ StopEngine(s)
    BY <2>7 DEF Switch, Fail, StopEngine, Closed, Dies, FirstStep, Goes
  <2> QED
    BY <2>1, <2>2, <2>3, <2>4, <2>5, <2>6, <2>7 DEF Runs
<1> QED
  BY <1>3, <1>4, <1>5, <1>6 DEF Next

(* The wait of a live session for the end of its connection is never in    *)
(* vain, also when the socket died in the window of open(): startStream()  *)
(* refuses that one.                                                       *)
THEOREM LiveWatched == ASSUME ~Autostart PROVE Spec => []LiveIsWatched
<1>1. Init => LiveInv
  BY DEF Init, SinkInit, LiveInv, LiveIsWatched
<1>2. LiveInv => LiveIsWatched
  BY DEF LiveInv
<1>3. Inv /\ FlagInv /\ LiveInv /\ [Next]_vars => LiveInv'
  BY LiveStep
<1>4. Spec => []Inv
  BY InvCorrect
<1> QED
  BY <1>1, <1>2, <1>3, <1>4, FlagInvCorrect, PTL DEF Spec

-----------------------------------------------------------------------------
(* The refinement: sessions implement the lease                            *)

(* A cleanup is that of a stopped session.                                 *)
CleanupIsStopped ==
  \A s \in Sessions :
    pc[s] \in {"fin", "finRelay", "finForeground", "finIdle"} => cancelled[s]

LEMMA CleanupStep ==
  TypeOK /\ CleanupIsStopped /\ [Next]_vars => CleanupIsStopped'
<1> SUFFICES ASSUME TypeOK, CleanupIsStopped, [Next]_vars PROVE CleanupIsStopped'
  OBVIOUS
<1> USE DEF CleanupIsStopped
<1>1. pc = [s \in Sessions |-> pc[s]] /\ cancelled \in [Sessions -> BOOLEAN]
  BY DEF TypeOK
<1>2. CASE \E s \in Sessions : Start(s)
  BY <1>1, <1>2 DEF Start
<1>3. CASE Stop \/ Outside \/ UNCHANGED vars
  BY <1>1, <1>3 DEF Stop, Outside, vars, sessionVars
<1>4. CASE \E s \in Sessions : LatencyChanged(s)
  BY <1>1, <1>4 DEF LatencyChanged, Goes
<1>5. CASE \E s \in Sessions : Runs(s)
  <2> PICK s \in Sessions : Runs(s)
    BY <1>5
  <2>1. CASE Begin(s) \/ Cancel(s) \/ \E ok \in BOOLEAN : StartRelay(s, ok)
    BY <1>1, <2>1 DEF Begin, Cancel, StartRelay, Goes
  <2>2. CASE Open(s) \/ Connect(s) \/ FinishOpen(s) \/ GoLive(s)
    BY <1>1, <2>2 DEF Open, Connect, FinishOpen, GoLive, Goes
  <2>3. CASE Disconnected(s) \/ Switch(s) \/ Fail(s) \/ Retry(s)
    BY <1>1, <2>3 DEF Disconnected, Switch, Fail, Retry, FirstStep, Goes
  <2>4. CASE StopEngine(s) \/ StopRelay(s) \/ StopForeground(s) \/ BackToIdle(s)
    BY <1>1, <2>4 DEF StopEngine, StopRelay, StopForeground, BackToIdle, Goes
  <2> QED
    BY <2>1, <2>2, <2>3, <2>4 DEF Runs
<1> QED
  BY <1>2, <1>3, <1>4, <1>5 DEF Next

(* The only session with a coroutine is the owner.                         *)
LEMMA OwnerIs ==
  ASSUME Alone, NEW s \in Sessions, pc[s] # "none"
  PROVE  Owner = s /\ Owner # None
BY SessionAssumption DEF Alone, Owner

LEMMA NoOwner == (\A s \in Sessions : pc[s] = "none") => Owner = None
BY DEF Owner

LEMMA HeldIs ==
  /\ Held \subseteq {"service", "relay", "connection"}
  /\ "service" \in Held <=> foreground
  /\ "relay" \in Held <=> relay # None
  /\ "connection" \in Held <=> socket \in {"connecting", "connected"}
BY DEF Held

(* What the mapping makes of a step that leaves the coroutines, the        *)
(* cancellations and the service alone, and of one of session s.           *)
LEMMA SameOwner ==
  ASSUME Alone, Alone', NEW s \in Sessions, pc[s] # "none", pc'[s] # "none",
         cancelled' = cancelled
  PROVE  /\ Owner = s /\ Owner' = s /\ Owner # None
         /\ Owner' = Owner
         /\ (Owner # None /\ cancelled[Owner])' = (Owner # None /\ cancelled[Owner])
<1>1. Owner = s /\ Owner # None
  BY OwnerIs
<1>2. Owner' = s
  BY SessionAssumption DEF Alone, Owner
<1> QED
  BY <1>1, <1>2

(* A step of the coroutine of s that is not its last.                      *)
LEMMA RunsStep ==
  ASSUME TypeOK, Inv, Inv', NEW s \in Sessions, Runs(s), pc[s] # "none", pc'[s] # "none"
  PROVE  [Lease!Next]_Lease!vars
<1>1. cancelled' = cancelled
  BY DEF Runs, Begin, Cancel, StartRelay, Open, Connect, FinishOpen, GoLive, Disconnected,
         Switch, Fail, Retry, StopEngine, StopRelay, StopForeground, BackToIdle
<1>2. /\ Owner # None /\ Owner' = Owner
      /\ (Owner # None /\ cancelled[Owner])' = (Owner # None /\ cancelled[Owner])
  BY <1>1, SameOwner DEF Inv
<1>3. pc[s] \in Covered => "service" \in Held
  BY HeldIs DEF Inv, ServiceCovers
<1>4. pc = [t \in Sessions |-> pc[t]] /\ \A t \in Sessions : pc[t] # "none" => t = s
  <2>1. pc = [t \in Sessions |-> pc[t]]
    BY DEF TypeOK
  <2> QED
    BY <2>1 DEF Inv, Alone
<1>5. ASSUME foreground' = foreground, relay' = relay,
             (socket' \in {"connecting", "connected"}) = (socket \in {"connecting", "connected"})
      PROVE  Held' = Held
  BY <1>5 DEF Held
<1>6. ASSUME Held' = Held PROVE UNCHANGED Lease!vars
  BY <1>2, <1>6 DEF Lease!vars
<1>7. ASSUME NEW thing \in Lease!Things, thing # "service",
             \/ Held' = Held \cup {thing} /\ "service" \in Held
             \/ Held' = Held \ {thing}
      PROVE  Lease!Next
  BY <1>2, <1>7 DEF Lease!Next, Lease!Take, Lease!Give
<1>8. CASE Begin(s)
  <2>1. Held' = Held \cup {"service"}
    BY <1>8 DEF Begin, Held, sinkVars
  <2> QED
    BY <1>2, <2>1 DEF Lease!Next, Lease!Take, Lease!Things
<1>9. CASE \E ok \in BOOLEAN : StartRelay(s, ok)
  <2>1. pc[s] = "relay"
    BY <1>9 DEF StartRelay
  <2>2. relay = None /\ "service" \in Held
    BY <1>3, <1>4, <2>1 DEF Inv, TypeOK, RelayOwned, Relaying, Attempting, Covered
  <2>3. relay' \in {s, None} /\ foreground' = foreground /\ socket' = socket
    BY <1>9 DEF StartRelay, sinkVars
  <2>4. Held' = Held \cup {"relay"} \/ Held' = Held
    BY <2>2, <2>3, SessionAssumption DEF Held
  <2> QED
    BY <1>6, <1>7, <2>2, <2>4 DEF Lease!Things
<1>10. CASE Open(s)
  <2>1. pc[s] = "open" /\ foreground' = foreground /\ relay' = relay
    BY <1>10 DEF Open
  <2>2. socket' = "connecting" \/ socket' = socket
    BY <1>10 DEF Open, OpenBegin, sinkVars
  <2>3. "service" \in Held
    BY <1>3, <2>1 DEF Covered
  <2>4. Held' = Held \cup {"connection"} \/ Held' = Held
    BY <2>1, <2>2 DEF Held
  <2> QED
    BY <1>6, <1>7, <2>3, <2>4 DEF Lease!Things
<1>11. CASE Connect(s) \/ FinishOpen(s) \/ GoLive(s) \/ Disconnected(s) \/ Retry(s)
            \/ Cancel(s)
  <2>1. foreground' = foreground /\ relay' = relay
    BY <1>11 DEF Connect, FinishOpen, GoLive, Disconnected, Retry, Cancel
  <2>2. (socket' \in {"connecting", "connected"}) = (socket \in {"connecting", "connected"})
    BY <1>11 DEF Connect, FinishOpen, GoLive, Disconnected, Retry, Cancel, sinkVars, ConnectOk,
                 ConnectFails, CheckAlive, EmitOpen, StartSending
  <2> QED
    BY <1>5, <1>6, <2>1, <2>2
<1>12. CASE Switch(s) \/ Fail(s) \/ StopEngine(s)
  <2>1. foreground' = foreground /\ relay' = relay /\ Closed
    BY <1>12 DEF Switch, Fail, StopEngine
  <2>2. socket' \notin {"connecting", "connected"}
    BY <2>1 DEF Closed, Dies
  <2>3. Held' = Held \ {"connection"}
    BY <2>1, <2>2 DEF Held
  <2> QED
    BY <1>7, <2>3 DEF Lease!Things
<1>13. CASE StopRelay(s)
  <2>1. Held' = Held \ {"relay"}
    BY <1>13 DEF StopRelay, RelayStopped, Held, sinkVars
  <2> QED
    BY <1>7, <2>1 DEF Lease!Things
<1>14. CASE StopForeground(s)
  <2>1. pc[s] = "finForeground"
    BY <1>14 DEF StopForeground
  <2>2. foreground /\ relay = None /\ socket \notin {"connecting", "connected"}
    BY <1>4, <2>1 DEF Inv, TypeOK, ServiceCovers, RelayOwned, EngineOwned, Relaying,
                      Attempting, Connecting, Covered
  <2>3. Held = {"service"}
    BY <2>2 DEF Held
  <2>4. Held' = Held \ {"service"}
    BY <1>14 DEF StopForeground, Held, sinkVars
  <2> QED
    BY <1>2, <2>3, <2>4 DEF Lease!Next, Lease!Give, Lease!Things
<1>15. CASE BackToIdle(s)
  BY <1>4, <1>15 DEF BackToIdle, Goes
<1> QED
  BY <1>8, <1>9, <1>10, <1>11, <1>12, <1>13, <1>14, <1>15 DEF Runs

(* Its last step: the cleanup is over, or it never came to read its        *)
(* settings.                                                               *)
LEMMA LastStep ==
  ASSUME TypeOK, Inv, Inv', CleanupIsStopped,
         NEW s \in Sessions, Runs(s), pc[s] # "none", pc'[s] = "none"
  PROVE  Lease!Next
<1>1. pc = [t \in Sessions |-> pc[t]] /\ \A t \in Sessions : pc[t] # "none" => t = s
  <2>1. pc = [t \in Sessions |-> pc[t]]
    BY DEF TypeOK
  <2> QED
    BY <2>1 DEF Inv, Alone
<1>2. (Cancel(s) /\ pc[s] = "launched") \/ BackToIdle(s)
  BY <1>1 DEF Runs, Begin, Cancel, StartRelay, Open, Connect, FinishOpen, GoLive,
     Disconnected, Switch, Fail, Retry, StopEngine, StopRelay, StopForeground, FirstStep, Goes
<1>3. /\ pc[s] \in {"launched", "finIdle"} /\ cancelled[s]
      /\ pc' = [pc EXCEPT ![s] = "none"]
      /\ foreground' = foreground /\ relay' = relay /\ socket' = socket
  BY <1>2 DEF Cancel, BackToIdle, CleanupIsStopped, Goes, sinkVars
<1>4. ~foreground /\ relay = None /\ socket \notin {"connecting", "connected"}
  BY <1>1, <1>3 DEF Inv, TypeOK, ServiceCovers, RelayOwned, EngineOwned, Relaying,
                    Attempting, Connecting, Covered
<1>5. Held = {} /\ Held' = {}
  BY <1>3, <1>4 DEF Held
<1>6. Owner = s /\ Owner # None
  BY OwnerIs DEF Inv
<1>7. Owner' = None
  <2>1. \A t \in Sessions : pc'[t] = "none"
    BY <1>1, <1>3
  <2> QED
    BY <2>1 DEF Owner
<1> QED
  BY <1>3, <1>5, <1>6, <1>7 DEF Lease!Next, Lease!Release

(* Every step of the sessions is one of the lease, or none.                *)
LEMMA LeaseStep ==
  ASSUME ~Autostart
  PROVE  Inv /\ Inv' /\ CleanupIsStopped /\ [Next]_vars => [Lease!Next]_Lease!vars
<1> SUFFICES ASSUME Inv, Inv', CleanupIsStopped, [Next]_vars
             PROVE  [Lease!Next]_Lease!vars
  OBVIOUS
<1>1. pc = [s \in Sessions |-> pc[s]] /\ cancelled = [s \in Sessions |-> cancelled[s]]
  BY DEF Inv, TypeOK
<1>2. ASSUME pc' = pc, cancelled' = cancelled
      PROVE  /\ Owner' = Owner
             /\ (Owner # None /\ cancelled[Owner])' = (Owner # None /\ cancelled[Owner])
  BY <1>2 DEF Owner
<1>3. CASE \E s \in Sessions : Start(s)
  <2> PICK s \in Sessions : Start(s)
    BY <1>3
  <2>1. \A t \in Sessions : pc[t] = "none"
    BY DEF Start, IsSessionActive, Inv, IdleIsQuiet
  <2>2. Owner = None
    BY <2>1, NoOwner
  <2>3. pc'[s] = "launched" /\ ~cancelled'[s] /\ Held' = Held
    BY <1>1 DEF Start, Held, sinkVars
  <2>4. Owner' = s
    BY <2>3 DEF Inv, Alone, Owner
  <2>5. Lease!Claim(s)
    BY <2>2, <2>3, <2>4 DEF Lease!Claim
  <2> QED
    BY <2>5 DEF Lease!Next
<1>4. CASE Stop
  <2>1. Held' = Held /\ Owner' = Owner
    BY <1>4 DEF Stop, Held, Owner, sinkVars
  <2>2. CASE Owner = job /\ Owner # None
    <3>1. cancelled'[Owner]
      BY <1>1, <1>4, <2>2, SessionAssumption DEF Stop, Inv, TypeOK
    <3> QED
      BY <2>1, <2>2, <3>1 DEF Lease!Next, Lease!StopOwner
  <2>3. CASE Owner # job \/ Owner = None
    <3>1. Owner # None => cancelled'[Owner] = cancelled[Owner]
      BY <1>1, <1>4, <2>3 DEF Stop, Owner
    <3> QED
      BY <2>1, <3>1 DEF Lease!vars
  <2> QED
    BY <2>2, <2>3
<1>5. CASE Outside
  <2>1. pc' = pc /\ cancelled' = cancelled /\ foreground' = foreground /\ relay' = relay
    BY <1>5 DEF Outside, sessionVars
  <2>2. socket' = "dead" \/ socket' = socket
    BY <1>5 DEF Outside, SocketDies, Notifies, WriteFails, CallbackSets, LateSets,
                CallbackTells, LateTells, Dies
  <2>3. Held' = Held \ {"connection"} \/ Held' = Held
    BY <2>1, <2>2 DEF Held
  <2> QED
    BY <1>2, <2>1, <2>3 DEF Lease!vars, Lease!Next, Lease!Give, Lease!Things
<1>6. CASE \E s \in Sessions : LatencyChanged(s)
  <2> PICK s \in Sessions : LatencyChanged(s)
    BY <1>6
  <2>1. pc[s] # "none" /\ pc'[s] # "none" /\ cancelled' = cancelled
    BY <1>1 DEF LatencyChanged, Goes
  <2>2. Held' = Held
    BY DEF LatencyChanged, Held, sinkVars
  <2> QED
    BY <2>1, <2>2, SameOwner DEF Inv, Lease!vars
<1>7. CASE \E s \in Sessions : Runs(s)
  <2> PICK s \in Sessions : Runs(s)
    BY <1>7
  <2>1. pc[s] # "none"
    BY DEF Runs, Begin, Cancel, StartRelay, Open, Connect, FinishOpen, GoLive, Disconnected,
           Switch, Fail, Retry, StopEngine, StopRelay, StopForeground, BackToIdle, Suspended
  <2>2. TypeOK
    BY DEF Inv
  <2> QED
    BY <2>1, <2>2, RunsStep, LastStep
<1>8. CASE UNCHANGED vars
  BY <1>2, <1>8 DEF vars, sinkVars, sessionVars, Held, Lease!vars
<1> QED
  BY <1>3, <1>4, <1>5, <1>6, <1>7, <1>8 DEF Next

(* With every start made from the button the sessions implement the lease: *)
(* any number of them, for any order of taps, failures and cancellations.  *)
THEOREM LeaseImplemented == ASSUME ~Autostart PROVE Spec => ImplementsLease
<1>1. Init => Lease!Init /\ CleanupIsStopped
  <2> SUFFICES ASSUME Init PROVE Lease!Init /\ CleanupIsStopped
    OBVIOUS
  <2>1. \A s \in Sessions : pc[s] = "none"
    BY DEF Init
  <2>2. Owner = None
    BY <2>1, NoOwner
  <2>3. Held = {}
    BY DEF Init, SinkInit, Held
  <2> QED
    BY <2>1, <2>2, <2>3 DEF Lease!Init, CleanupIsStopped
<1>2. Inv => TypeOK
  BY DEF Inv
<1>3. Inv /\ Inv' /\ CleanupIsStopped /\ [Next]_vars => [Lease!Next]_Lease!vars
  BY LeaseStep
<1> QED
  BY <1>1, <1>2, <1>3, CleanupStep, InvCorrect, PTL DEF Spec, ImplementsLease, Lease!Spec
=============================================================================
