--------------------------- MODULE StreamSession ---------------------------
(***************************************************************************)
(* StreamController: a streaming session is a coroutine that starts the    *)
(* bonding relay and the engine, waits until the connection is gone and    *)
(* tries again, and cleans up when it is cancelled.  stop() only cancels:  *)
(* the cleanup goes on after it, and the screen offers to start again when *)
(* the phase is back to Idle.  The engine, the relay and the foreground    *)
(* service are the process's: two sessions would share them.               *)
(*                                                                         *)
(* The engine's end is the sink of SrtSink, whose open() the session runs. *)
(* Twitch direct (RTMP, a library's endpoint), the statistics sampler and  *)
(* the attempt counter of the backoff are left out.                        *)
(***************************************************************************)
EXTENDS SrtSink, FiniteSets

CONSTANTS
  Sessions,    (* Session coroutines that may exist at a time (bound).      *)
  None,        (* No session.                                               *)
  Autostart    (* The activity may start a session whatever the phase.      *)

ASSUME SessionAssumption ==
  /\ None \notin Sessions
  /\ Autostart \in BOOLEAN

VARIABLES
  phase,       (* What the screen shows.                                    *)
  job,         (* sessionJob                                                *)
  pc,          (* Where the coroutine of a session is, "none" when it ended. *)
  cancelled,   (* Its job was cancelled.                                    *)
  bonding,     (* The session's settings: it streams through the relay.     *)
  hasPort,     (* localPort # null, of the sessions.                        *)
  relay,       (* The session whose relay the bonding client runs.          *)
  foreground   (* The foreground service is up.                             *)

sessionVars == <<phase, job, pc, cancelled, bonding, hasPort, relay, foreground>>
vars == <<sinkVars, sessionVars>>

Init ==
  /\ SinkInit
  /\ phase = "Idle"
  /\ job = None
  /\ pc = [s \in Sessions |-> "none"]
  /\ cancelled = [s \in Sessions |-> FALSE]
  /\ bonding = [s \in Sessions |-> FALSE]
  /\ hasPort = [s \in Sessions |-> FALSE]
  /\ relay = None
  /\ foreground = FALSE

-----------------------------------------------------------------------------
(* The main thread: start() and stop()                                     *)

IsSessionActive == job # None /\ pc[job] # "none" /\ ~cancelled[job]

(* The button starts a session when the phase is Idle; an activity         *)
(* launched with the autostart extra does not look at the phase.           *)
Start(s) ==
  /\ phase = "Idle" \/ Autostart
  /\ ~IsSessionActive
  /\ pc[s] = "none"
  /\ job' = s
  /\ pc' = [pc EXCEPT ![s] = "launched"]
  /\ cancelled' = [cancelled EXCEPT ![s] = FALSE]
  /\ hasPort' = [hasPort EXCEPT ![s] = FALSE]
  /\ UNCHANGED <<sinkVars, phase, bonding, relay, foreground>>

(* The button stops when the phase is not Idle, the notification of the    *)
(* foreground service while that is up.                                    *)
Stop ==
  /\ phase # "Idle" \/ foreground
  /\ job # None
  /\ job' = None
  /\ cancelled' = [cancelled EXCEPT ![job] = TRUE]
  /\ UNCHANGED <<sinkVars, phase, pc, bonding, hasPort, relay, foreground>>

-----------------------------------------------------------------------------
(* The coroutine of a session                                              *)

Goes(s, to) == pc' = [pc EXCEPT ![s] = to]

(* Where an attempt begins: the relay is started once for all attempts.    *)
FirstStep(s) == IF bonding[s] /\ ~hasPort[s] THEN "relay" ELSE "open"

(* Up to the first suspension after the settings were read.                *)
Begin(s) ==
  /\ pc[s] = "launched" /\ ~cancelled[s]
  /\ \E b \in BOOLEAN :
       /\ bonding' = [bonding EXCEPT ![s] = b]
       /\ Goes(s, IF b THEN "relay" ELSE "open")
  /\ foreground' = TRUE
  /\ phase' = "Connecting"
  /\ UNCHANGED <<sinkVars, job, cancelled, hasPort, relay>>

(* Mutant: the port is remembered although the relay did not start.        *)
PortAlways(ok) == TRUE

PortKnown(ok) == ok

(* srtlaClient.start(): a relay that runs is stopped first.  It is not     *)
(* interrupted, but a cancelled caller never sees the port.                *)
StartRelay(s, ok) ==
  /\ pc[s] = "relay"
  /\ relay' = IF ok THEN s ELSE None
  /\ IF cancelled[s]
     THEN Goes(s, "fin") /\ UNCHANGED hasPort
     ELSE /\ hasPort' = [hasPort EXCEPT ![s] = PortKnown(ok)]
          /\ Goes(s, IF ok THEN "open" ELSE "failing")
  /\ UNCHANGED <<sinkVars, phase, job, cancelled, bonding, foreground>>

(* engine.startStream(): the framework opens a sink that is not open.      *)
Open(s) ==
  /\ pc[s] = "open"
  /\ IF isOpen
     THEN Goes(s, "starting") /\ UNCHANGED sinkVars
     ELSE Goes(s, "opening") /\ OpenBegin
  /\ UNCHANGED <<phase, job, cancelled, bonding, hasPort, relay, foreground>>

(* Through the relay only the session that started it finds its port.      *)
Connect(s) ==
  /\ pc[s] = "opening"
  /\ \/ (bonding[s] => relay = s) /\ ConnectOk /\ UNCHANGED pc
     \/ ConnectFails /\ Goes(s, "failing")
  /\ UNCHANGED <<phase, job, cancelled, bonding, hasPort, relay, foreground>>

FinishOpen(s) ==
  /\ pc[s] = "opening"
  /\ \/ CheckAlive /\ UNCHANGED pc
     \/ EmitOpen /\ Goes(s, IF alive THEN "starting" ELSE "failing")
  /\ UNCHANGED <<phase, job, cancelled, bonding, hasPort, relay, foreground>>

GoLive(s) ==
  /\ pc[s] = "starting"
  /\ \/ StartSending /\ Goes(s, "live") /\ phase' = "Live"
     \/ /\ socket # "connected"
        /\ Goes(s, "failing")
        /\ UNCHANGED <<sinkVars, phase>>
  /\ UNCHANGED <<job, cancelled, bonding, hasPort, relay, foreground>>

(* awaitDisconnectOrLatencyChange()                                        *)
Disconnected(s) ==
  /\ pc[s] = "live" /\ ~isOpen
  /\ Goes(s, "failing")
  /\ UNCHANGED <<sinkVars, phase, job, cancelled, bonding, hasPort, relay, foreground>>

LatencyChanged(s) ==
  /\ pc[s] = "live"
  /\ Goes(s, "switching")
  /\ UNCHANGED <<sinkVars, phase, job, cancelled, bonding, hasPort, relay, foreground>>

(* engine.stopStream() between two attempts, at once after a change of the *)
(* latency, with a backoff after a failure.                                *)
Switch(s) ==
  /\ pc[s] = "switching" /\ ~cancelled[s]
  /\ Closed /\ UNCHANGED opening
  /\ phase' = "Connecting"
  /\ Goes(s, FirstStep(s))
  /\ UNCHANGED <<job, cancelled, bonding, hasPort, relay, foreground>>

Fail(s) ==
  /\ pc[s] = "failing"
  /\ Closed /\ UNCHANGED opening
  /\ phase' = "Retrying"
  /\ Goes(s, "backoff")
  /\ UNCHANGED <<job, cancelled, bonding, hasPort, relay, foreground>>

Retry(s) ==
  /\ pc[s] = "backoff" /\ ~cancelled[s]
  /\ phase' = "Connecting"
  /\ Goes(s, FirstStep(s))
  /\ UNCHANGED <<sinkVars, job, cancelled, bonding, hasPort, relay, foreground>>

-----------------------------------------------------------------------------
(* Cancellation and cleanup                                                *)

(* Mutant: the wait for the end of the connection does not notice it.      *)
SuspendedButLive ==
  {"launched", "relay", "open", "opening", "failing", "switching", "backoff"}

(* Where a coroutine suspends, and so learns that it was cancelled; in     *)
(* open() only while it connects.                                          *)
Suspended ==
  {"launched", "relay", "open", "opening", "live", "failing", "switching", "backoff"}

(* A session that is still to read its settings ends without the cleanup.  *)
Cancel(s) ==
  /\ cancelled[s] /\ pc[s] \in Suspended
  /\ IF pc[s] = "opening" THEN ConnectFails ELSE UNCHANGED sinkVars
  /\ Goes(s, IF pc[s] = "launched" THEN "none" ELSE "fin")
  /\ UNCHANGED <<phase, job, cancelled, bonding, hasPort, relay, foreground>>

(* Mutant: the phase is back to Idle before the cleanup is over.           *)
IdleAtOnce == "Idle"

PhaseInCleanup == phase

StopEngine(s) ==
  /\ pc[s] = "fin"
  /\ Closed /\ UNCHANGED opening
  /\ phase' = PhaseInCleanup
  /\ Goes(s, IF bonding[s] THEN "finRelay" ELSE "finForeground")
  /\ UNCHANGED <<job, cancelled, bonding, hasPort, relay, foreground>>

(* Mutant: the relay is stopped only if its port is known.                 *)
RelayIfPort(s) == IF hasPort[s] THEN None ELSE relay

RelayStopped(s) == None

StopRelay(s) ==
  /\ pc[s] = "finRelay"
  /\ relay' = RelayStopped(s)
  /\ Goes(s, "finForeground")
  /\ UNCHANGED <<sinkVars, phase, job, cancelled, bonding, hasPort, foreground>>

StopForeground(s) ==
  /\ pc[s] = "finForeground"
  /\ foreground' = FALSE
  /\ Goes(s, "finIdle")
  /\ UNCHANGED <<sinkVars, phase, job, cancelled, bonding, hasPort, relay>>

BackToIdle(s) ==
  /\ pc[s] = "finIdle"
  /\ phase' = "Idle"
  /\ Goes(s, "none")
  /\ UNCHANGED <<sinkVars, job, cancelled, bonding, hasPort, relay, foreground>>

Runs(s) ==
  \/ Begin(s) \/ Cancel(s)
  \/ \E ok \in BOOLEAN : StartRelay(s, ok)
  \/ Open(s) \/ Connect(s) \/ FinishOpen(s) \/ GoLive(s)
  \/ Disconnected(s) \/ Switch(s) \/ Fail(s) \/ Retry(s)
  \/ StopEngine(s) \/ StopRelay(s) \/ StopForeground(s) \/ BackToIdle(s)

Outside ==
  /\ SocketDies \/ Notifies \/ WriteFails
  /\ UNCHANGED sessionVars

Next ==
  \/ Stop \/ Outside
  \/ \E s \in Sessions : Start(s) \/ LatencyChanged(s) \/ Runs(s)

(* A coroutine that can go on does, and a dead socket runs its callback.   *)
(* Nobody has to tap, and the network has to do nothing.                   *)
Fairness ==
  /\ \A s \in Sessions : WF_vars(Runs(s))
  /\ WF_vars(Notifies /\ UNCHANGED sessionVars)

Spec == Init /\ [][Next]_vars
FairSpec == Spec /\ Fairness

-----------------------------------------------------------------------------
(* Properties                                                              *)

TypeOK ==
  /\ SinkTypeOK
  /\ phase \in {"Idle", "Connecting", "Live", "Retrying"}
  /\ {job, relay} \subseteq Sessions \cup {None}
  /\ pc \in [Sessions -> {"none", "launched", "relay", "open", "opening", "starting",
                          "live", "failing", "switching", "backoff",
                          "fin", "finRelay", "finForeground", "finIdle"}]
  /\ {cancelled, bonding, hasPort} \subseteq [Sessions -> BOOLEAN]
  /\ foreground \in BOOLEAN

(* The engine, the relay and the service are one session's: a start after  *)
(* a stop never meets the cleanup of the session before it, although       *)
(* stop() does not wait for it.                                            *)
OneAtATime == Cardinality({s \in Sessions : pc[s] # "none"}) <= 1

(* A connection is up or being opened only while the foreground service    *)
(* holds the process and the camera.                                       *)
ConnectionCovered == socket \in {"connecting", "connected"} => foreground

(* Whoever sees the phase Idle finds nothing left behind: no connection,   *)
(* no open() under way, no relay and no service, wherever the session was  *)
(* cancelled.                                                              *)
IdleIsClean ==
  phase = "Idle" =>
    /\ ~streaming /\ opening = "no"
    /\ socket \in {"none", "dead"}
    /\ relay = None
    /\ ~foreground

(* With bonding every connection is opened through a relay that runs: the  *)
(* port remembered over the reconnects is never that of a stopped relay.   *)
ConnectsThroughRelay ==
  \A s \in Sessions : (bonding[s] /\ pc[s] = "opening") => relay = s

(* A session that is stopped ends, in whatever step the stop found it.     *)
StopEndsSession ==
  \A s \in Sessions : cancelled[s] ~> pc[s] = "none"

(* The flag that the session waits on does not stay up over a dead socket, *)
(* unless the socket died between the check of open() and its emit().      *)
FlagComesDown == (isOpen /\ socket = "dead") ~> (~isOpen \/ raced)

(* A lost connection is noticed: the phase does not stay Live.             *)
LossIsNoticed == (phase = "Live" /\ socket = "dead") ~> phase # "Live"

(* The comment of open(): the flag never stays up over a dead socket.      *)
NeverStuckOpen == (isOpen /\ socket = "dead") ~> ~isOpen

(* Why it comes down: a callback that has not told is left to lower it.    *)
FlagHasNotifier ==
  isOpen /\ socket = "dead" => callback # "told" \/ late # "told" \/ raced

(* A session that is live does not even depend on luck: whenever its       *)
(* socket is dead, the socket's own callback has told, or is still to.     *)
LiveIsWatched ==
  \A s \in Sessions :
    pc[s] = "live" /\ socket = "dead" /\ isOpen => callback # "told"

-----------------------------------------------------------------------------
(* What the sessions lease                                                 *)

(* The session with a coroutine, also while it cleans up.                  *)
Owner ==
  IF \E s \in Sessions : pc[s] # "none"
  THEN CHOOSE s \in Sessions : pc[s] # "none"
  ELSE None

Held ==
  {thing \in {"service", "relay", "connection"} :
     \/ thing = "service" /\ foreground
     \/ thing = "relay" /\ relay # None
     \/ thing = "connection" /\ socket \in {"connecting", "connected"}}

Lease == INSTANCE StreamLease
  WITH owner    <- Owner,
       stopping <- Owner # None /\ cancelled[Owner],
       held     <- Held

(* Sessions behave as the lease says: in any order of starts, stops and    *)
(* failures one session has the service before a relay or a connection and *)
(* gives it back after them, and the next one begins with nothing held.    *)
ImplementsLease == Lease!Spec

=============================================================================
