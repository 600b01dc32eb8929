---------------------------- MODULE LinkIo_proofs ----------------------------
(***************************************************************************)
(* Proofs about the bonding client, for any networks and any number of     *)
(* starts: one relay runs, one listens to Android, a closed one owns       *)
(* nothing, a stopped client shows no links, and a relay's links follow    *)
(* what Android said of the networks.                                      *)
(***************************************************************************)
EXTENDS LinkIo, TLAPS

-----------------------------------------------------------------------------
(* The relays                                                              *)

Halting == {"halt", "unregister", "join"}

Starting == {"register", "spawn", "keep"}

(* The relay the client holds has the epoch, until stop() ends it.         *)
ClientInv ==
  /\ starts \in 0..MaxStarts
  /\ loop \in 0..starts
  /\ epoch \in 0..starts
  /\ client \in ClientPlaces
  /\ goal \in {"none", "start", "stop"}
  /\ client = "idle" => goal = "none"
  /\ goal = "start" /\ client \in Halting => starts < MaxStarts
  /\ goal = "stop" /\ client \in Halting => epoch = 0
  /\ client \in {"halt", "unregister"} => loop # 0
  /\ client \in Starting => loop = 0 /\ starts \in Relays /\ epoch = starts
  /\ loop # 0 => epoch = loop \/ (goal = "stop" /\ client \in Halting)

(* An io thread that runs is that of the relay the client holds or is      *)
(* about to keep, or was left behind by a join, and a relay that was not   *)
(* started has none.  With no relay the epoch is one that no thread has.   *)
ThreadInv ==
  /\ thread = [r \in Relays |-> thread[r]]
  /\ client \in {"register", "spawn"} => thread[starts] = "none"
  /\ client = "idle" /\ loop = 0 => epoch = 0 \/ thread[epoch] = "none"
  /\ \A r \in Relays : r > starts => thread[r] = "none"
  /\ abandoned \subseteq Relays
  /\ \A r \in abandoned : thread[r] # "none"
  /\ \A r \in Relays :
       Alive(r) => r = loop \/ r \in abandoned \/ (client = "keep" /\ r = starts)

RelaysInv == ClientInv /\ ThreadInv

LEMMA RelaysInit == Init => RelaysInv
BY LinkIoAssumption
   DEF LinkIoAssumption, Init, RelaysInv, ClientInv, ThreadInv, ClientPlaces, Halting, Starting,
       Alive

(* What an io thread does to its place; it leaves the client and its flags *)
(* alone.                                                                  *)
LEMMA IoSteps ==
  ASSUME NEW r \in Relays, IoStep(r), thread = [s \in Relays |-> thread[s]]
  PROVE  /\ Alive(r)
         /\ \E to : to # "none" /\ thread' = [thread EXCEPT ![r] = to]
         /\ UNCHANGED <<flagVars, told, clientVars>>
<1> USE DEF Alive, IoGoes, IoUnchanged, IsNext, PublishUnchanged
<1>1. CASE SelectReturns(r) \/ Close(r)
  BY <1>1 DEF SelectReturns, Close
<1>2. ASSUME NEW n \in Networks, AddLink(r, n) \/ RemoveLink(r, n)
      PROVE  /\ Alive(r)
             /\ thread' = [thread EXCEPT ![r] = "publish"]
             /\ UNCHANGED <<flagVars, told, clientVars>>
  BY <1>2 DEF AddLink, RemoveLink
<1>3. ASSUME NEW n \in Networks, AddFails(r, n) \/ ForgetFailed(r, n)
      PROVE  /\ thread[r] = "drain"
             /\ UNCHANGED <<thread, flagVars, told, clientVars>>
  BY <1>3 DEF AddFails, ForgetFailed
<1>4. CASE Tick(r)
  BY <1>4 DEF Tick
<1>5. CASE CheckEpoch(r)
  BY <1>5 DEF CheckEpoch, ToWrite, AfterPublish
<1>6. CASE WriteLinks(r)
  BY <1>6 DEF WriteLinks, AfterPublish
<1> QED
  BY <1>1, <1>2, <1>3, <1>4, <1>5, <1>6 DEF IoStep

LEMMA ClientStays == ClientInv /\ UNCHANGED clientVars => ClientInv'
BY DEF ClientInv, clientVars

LEMMA ThreadStays == ThreadInv /\ UNCHANGED <<thread, clientVars>> => ThreadInv'
BY DEF ThreadInv, Alive, clientVars

LEMMA ClientInvStep == ClientInv /\ [Next]_vars => ClientInv'
<1> SUFFICES ASSUME ClientInv, [Next]_vars PROVE ClientInv'
  OBVIOUS
<1>1. CASE \E n \in Networks : NetworkUp(n) \/ NetworkLost(n)
  BY <1>1, ClientStays DEF NetworkUp, NetworkLost
<1>2. CASE \E r \in Relays : CallbackStep(r)
  BY <1>2, ClientStays DEF CallbackStep, OnAvailable, OnLost
<1>3. CASE \E r \in Relays : IoStep(r)
  <2>1. UNCHANGED clientVars
    BY <1>3 DEF IoStep, SelectReturns, Close, AddLink, AddFails, RemoveLink, ForgetFailed, Tick,
                CheckEpoch, WriteLinks, PublishUnchanged, IoUnchanged
  <2> QED
    BY <2>1, ClientStays
<1>4. CASE UNCHANGED vars
  BY <1>4, ClientStays DEF vars
<1> USE LinkIoAssumption
    DEF LinkIoAssumption, ClientInv, Relays, ClientPlaces, Halting, Starting
<1>5. CASE BeginStart
  BY <1>5 DEF BeginStart, ToHalt
<1>6. CASE BeginStop
  BY <1>6 DEF BeginStop, ToHalt, EpochAfterStop
<1>7. CASE Halt \/ Unregister
  BY <1>7 DEF Halt, Unregister
<1>8. CASE JoinToStart
  BY <1>8 DEF JoinToStart, Returns
<1>9. CASE Register \/ Spawn
  BY <1>9 DEF Register, Spawn
<1>10. CASE Keep
  BY <1>10 DEF Keep, Returns
<1>11. CASE StartFails
  BY <1>11 DEF StartFails, Returns
<1>12. CASE JoinToStop
  BY <1>12 DEF JoinToStop, Returns
<1> QED
  BY <1>1, <1>2, <1>3, <1>4, <1>5, <1>6, <1>7, <1>8, <1>9, <1>10, <1>11, <1>12
     DEF Next, ClientStep

LEMMA ThreadInvStep == ClientInv /\ ThreadInv /\ [Next]_vars => ThreadInv'
<1> SUFFICES ASSUME ClientInv, ThreadInv, [Next]_vars PROVE ThreadInv'
  OBVIOUS
<1>0. /\ MaxStarts \in Nat /\ starts \in 0..MaxStarts /\ loop \in 0..starts
      /\ goal = "start" /\ client = "join" => starts < MaxStarts
      /\ goal = "stop" /\ client = "join" => epoch = 0
      /\ client \in Starting => loop = 0 /\ starts \in Relays /\ epoch = starts
  BY LinkIoAssumption DEF LinkIoAssumption, ClientInv, Halting
<1>1. CASE \E n \in Networks : NetworkUp(n) \/ NetworkLost(n)
  BY <1>1, ThreadStays DEF NetworkUp, NetworkLost, relayVars
<1>2. CASE \E r \in Relays : CallbackStep(r)
  BY <1>2, ThreadStays DEF CallbackStep, OnAvailable, OnLost
<1>4. CASE UNCHANGED vars
  BY <1>4, ThreadStays DEF vars, relayVars
<1> USE DEF ThreadInv, Alive
<1>5. CASE BeginStart \/ BeginStop \/ Halt \/ Unregister
  <2>1. /\ UNCHANGED <<thread, loop, starts, abandoned>>
        /\ client' \in Halting /\ client # "keep"
    BY <1>5 DEF BeginStart, BeginStop, ToHalt, Halt, Unregister, relayVars, Halting
  <2> QED
    BY <2>1 DEF Halting
<1>6. CASE JoinToStart
  <2>1. /\ starts' = starts + 1 /\ epoch' = starts + 1 /\ loop' = 0
        /\ thread' = thread /\ starts < MaxStarts /\ client = "join"
        /\ abandoned' = abandoned \cup {r \in {loop} \ {0} : Alive(r)}
    BY <1>0, <1>6 DEF JoinToStart, Joined, relayVars
  <2>2. thread[starts + 1] = "none"
    BY <1>0, <2>1 DEF Relays
  <2>3. \A r \in Relays : Alive(r) => r \in abandoned'
    BY <2>1 DEF Relays
  <2>4. abandoned' \subseteq Relays /\ \A r \in abandoned' : thread[r] # "none"
    <3>1. \A r \in abandoned' : r \in abandoned \/ (r = loop /\ r # 0 /\ Alive(r))
      BY <2>1
    <3>2. loop # 0 => loop \in Relays
      BY <1>0 DEF Relays
    <3> QED
      BY <3>1, <3>2
  <2>5. \A r \in Relays : r > starts + 1 => thread[r] = "none"
    BY <1>0 DEF Relays
  <2> QED
    BY <2>1, <2>2, <2>3, <2>4, <2>5
<1>7. CASE Register
  BY <1>7 DEF Register
<1>8. CASE Spawn
  <2>1. /\ starts \in Relays /\ loop = 0 /\ client' = "keep"
        /\ UNCHANGED <<loop, starts, epoch, abandoned>>
        /\ thread' = [thread EXCEPT ![starts] = "select"]
        /\ client = "spawn"
    BY <1>0, <1>8 DEF Spawn, Starting
  <2>2. \A r \in Relays : thread'[r] = IF r = starts THEN "select" ELSE thread[r]
    BY <2>1
  <2>3. \A r \in Relays : r > starts => r # starts
    BY <1>0 DEF Relays
  <2>4. \A r \in Relays : Alive(r)' => r = starts \/ r \in abandoned
    BY <2>1, <2>2 DEF Relays
  <2>5. \A r \in abandoned : thread'[r] # "none"
    BY <2>2
  <2> QED
    BY <2>1, <2>2, <2>3, <2>4, <2>5
<1>9. CASE Keep
  <2>1. /\ UNCHANGED <<thread, starts, epoch, abandoned>>
        /\ client = "keep" /\ client' = "idle" /\ loop' = starts
        /\ loop = 0 /\ starts \in Relays
    BY <1>0, <1>9 DEF Keep, Returns, relayVars, Starting
  <2> QED
    BY <2>1 DEF Relays
<1>10. CASE StartFails
  <2>1. /\ UNCHANGED <<thread, loop, starts, epoch, abandoned>>
        /\ client \in {"register", "spawn"} /\ client' = "idle"
        /\ epoch = starts
    BY <1>0, <1>10 DEF StartFails, Returns, Starting
  <2> QED
    BY <2>1
<1>11. CASE JoinToStop
  <2>1. /\ UNCHANGED <<thread, starts, epoch>> /\ epoch = 0 /\ client' = "idle" /\ loop' = 0
        /\ client = "join"
        /\ abandoned' = abandoned \cup {r \in {loop} \ {0} : Alive(r)}
    BY <1>0, <1>11 DEF JoinToStop, Joined, Returns, relayVars
  <2>2. \A r \in Relays : Alive(r) => r \in abandoned'
    BY <2>1 DEF Relays
  <2>3. abandoned' \subseteq Relays /\ \A r \in abandoned' : thread[r] # "none"
    BY <1>0, <2>1 DEF Relays
  <2> QED
    BY <2>1, <2>2, <2>3
<1>12. CASE \E r \in Relays : IoStep(r)
  <2> PICK r \in Relays : IoStep(r)
    BY <1>12
  <2>1. PICK to : to # "none" /\ thread' = [thread EXCEPT ![r] = to]
    BY IoSteps
  <2>2. Alive(r) /\ UNCHANGED <<client, loop, starts, epoch, abandoned>>
    BY IoSteps DEF clientVars
  <2>3. /\ \A s \in Relays : thread'[s] = IF s = r THEN to ELSE thread[s]
        /\ thread' = [s \in Relays |-> thread'[s]]
    BY <2>1
  <2>4. ~(r > starts) /\ thread[r] # "none"
    BY <2>2
  <2>5. \A s \in Relays : Alive(s)' => Alive(s)
    BY <2>2, <2>3
  <2>6. \A s \in abandoned : thread'[s] # "none"
    BY <2>1
  <2>7. client = "idle" /\ loop = 0 => epoch = 0 \/ thread'[epoch] = "none"
    BY <2>1, <2>4
  <2>8. client \in {"register", "spawn"} => thread'[starts] = "none"
    BY <2>1, <2>4
  <2> QED
    BY <2>2, <2>3, <2>4, <2>5, <2>6, <2>7, <2>8
<1> QED
  BY <1>1, <1>2, <1>4, <1>5, <1>6, <1>7, <1>8, <1>9, <1>10, <1>11, <1>12
     DEF Next, ClientStep

LEMMA RelaysStep == RelaysInv /\ [Next]_vars => RelaysInv'
BY ClientInvStep, ThreadInvStep DEF RelaysInv

(* LinkIoLoop.stop() joins the io thread: two relays run only when a join  *)
(* has given one of them up.                                               *)
THEOREM RelaysFollow == Spec => []OneRelayRuns
<1>1. RelaysInv => OneRelayRuns
  BY DEF RelaysInv, ClientInv, ThreadInv, OneRelayRuns, Starting, Relays
<1> QED
  BY <1>1, RelaysInit, RelaysStep, PTL DEF Spec

-----------------------------------------------------------------------------
(* What a relay that is over still has                                     *)

Over == {"none", "publish", "write", "ended"}

(* running and the callbacks go together, but for the time between the two *)
(* steps of stop().                                                        *)
FlagsInv ==
  /\ running = [r \in Relays |-> running[r]]
  /\ listening = [r \in Relays |-> listening[r]]
  /\ OneRelayListens
  /\ \A r \in Relays : running[r] => listening[r]
  /\ \A r \in Relays : listening[r] => running[r] \/ client = "unregister"
  /\ client = "unregister" => \A r \in Relays : ~running[r]

(* A relay closes when it does not run, which is at its end; one that is   *)
(* about to be started has no link and has not closed.                     *)
ClosedInv ==
  /\ closed = [r \in Relays |-> closed[r]]
  /\ links = [r \in Relays |-> links[r]]
  /\ \A r \in Relays : closed[r] => links[r] = {} /\ ~running[r] /\ thread[r] \in Over
  /\ \A r \in Relays : closed[r] => r <= starts
  /\ \A r \in Relays : r > starts => links[r] = {}
  /\ client \in {"register", "spawn"} => ~closed[starts] /\ links[starts] = {}

LEMMA FlagsInit == Init => FlagsInv
BY DEF Init, FlagsInv, OneRelayListens

LEMMA FlagsStep == ClientInv /\ FlagsInv /\ [Next]_vars => FlagsInv'
<1> SUFFICES ASSUME ClientInv, FlagsInv, [Next]_vars PROVE FlagsInv'
  OBVIOUS
<1>0. /\ starts \in Nat /\ loop \in Nat /\ 0 \notin Relays
      /\ client \in {"halt", "unregister"} => loop \in Relays
      /\ client \in Starting => loop = 0 /\ starts \in Relays
  BY LinkIoAssumption DEF LinkIoAssumption, ClientInv, Relays
<1> USE DEF FlagsInv, OneRelayListens, Starting
<1>u. ASSUME UNCHANGED <<flagVars, client, loop, starts>> PROVE FlagsInv'
  BY <1>u DEF flagVars
<1>1. CASE \E n \in Networks : NetworkUp(n) \/ NetworkLost(n)
  BY <1>1, <1>u DEF NetworkUp, NetworkLost, relayVars, clientVars
<1>2. CASE \E r \in Relays : CallbackStep(r)
  BY <1>2, <1>u DEF CallbackStep, OnAvailable, OnLost, clientVars
<1>3. CASE \E r \in Relays : IoStep(r)
  BY <1>3, <1>u DEF IoStep, SelectReturns, Close, AddLink, AddFails, RemoveLink, ForgetFailed,
     Tick, CheckEpoch, WriteLinks, PublishUnchanged, IoUnchanged, clientVars
<1>4. CASE UNCHANGED vars
  BY <1>4, <1>u DEF vars, relayVars, clientVars
<1>5. CASE BeginStart \/ BeginStop
  <2>1. /\ UNCHANGED <<flagVars, loop, starts>> /\ client = "idle"
        /\ client' = IF loop = 0 THEN "join" ELSE "halt"
    BY <1>5 DEF BeginStart, BeginStop, ToHalt, relayVars
  <2>2. loop = 0 => \A r \in Relays : ~listening[r]
    BY <1>0, <2>1
  <2> QED
    BY <2>1, <2>2 DEF flagVars
<1>6. CASE Halt
  <2>1. /\ running' = [running EXCEPT ![loop] = FALSE] /\ UNCHANGED <<listening, loop, starts>>
        /\ client = "halt" /\ client' = "unregister"
    BY <1>6 DEF Halt
  <2>2. \A r \in Relays : running'[r] <=> running[r] /\ r # loop
    BY <1>0, <2>1
  <2>3. \A r \in Relays : ~running'[r]
    BY <2>1, <2>2
  <2> QED
    BY <2>1, <2>3
<1>7. CASE Unregister
  <2>1. /\ listening' = [listening EXCEPT ![loop] = FALSE] /\ UNCHANGED <<running, loop, starts>>
        /\ client = "unregister" /\ client' = "join"
    BY <1>7 DEF Unregister, CallbacksEnd
  <2>2. \A r \in Relays : ~listening'[r]
    BY <1>0, <2>1
  <2> QED
    BY <2>1, <2>2
<1>8. CASE JoinToStart \/ JoinToStop
  <2>1. /\ UNCHANGED flagVars /\ client = "join"
        /\ client' # "unregister"
    BY <1>8 DEF JoinToStart, JoinToStop, Returns, relayVars
  <2>2. \A r \in Relays : ~listening[r]
    BY <2>1
  <2> QED
    BY <2>1, <2>2 DEF flagVars
<1>9. CASE Register
  <2>1. /\ running' = [running EXCEPT ![starts] = TRUE]
        /\ listening' = [listening EXCEPT ![starts] = TRUE]
        /\ client = "register" /\ client' = "spawn" /\ UNCHANGED <<loop, starts>>
    BY <1>9 DEF Register
  <2>2. \A r \in Relays : ~listening[r]
    BY <2>1
  <2>3. \A r \in Relays : /\ running'[r] <=> running[r] \/ r = starts
                          /\ listening'[r] <=> r = starts
    BY <1>0, <2>1, <2>2
  <2> QED
    BY <2>1, <2>2, <2>3
<1>10. CASE Spawn
  BY <1>10 DEF Spawn, flagVars
<1>11. CASE Keep
  <2>1. UNCHANGED flagVars /\ client = "keep" /\ client' = "idle" /\ loop' = starts
    BY <1>11 DEF Keep, Returns, relayVars
  <2> QED
    BY <1>0, <2>1 DEF flagVars
<1>12. CASE StartFails
  <2>1. /\ running' = [running EXCEPT ![starts] = FALSE]
        /\ listening' = [listening EXCEPT ![starts] = FALSE]
        /\ client \in {"register", "spawn"} /\ client' = "idle" /\ UNCHANGED <<loop, starts>>
    BY <1>12 DEF StartFails, CallbacksEnd, Returns
  <2>2. \A r \in Relays : listening[r] => r = starts
    BY <2>1
  <2>3. \A r \in Relays : ~listening'[r] /\ ~running'[r]
    BY <1>0, <2>1, <2>2
  <2> QED
    BY <2>1, <2>3
<1> QED
  BY <1>1, <1>2, <1>3, <1>4, <1>5, <1>6, <1>7, <1>8, <1>9, <1>10, <1>11, <1>12
     DEF Next, ClientStep

LEMMA ClosedInit == Init => ClosedInv
BY DEF Init, ClosedInv

LEMMA ClosedStep == RelaysInv /\ FlagsInv /\ ClosedInv /\ [Next]_vars => ClosedInv'
<1> SUFFICES ASSUME RelaysInv, FlagsInv, ClosedInv, [Next]_vars PROVE ClosedInv'
  OBVIOUS
<1>0. /\ starts \in Nat /\ loop \in 0..starts
      /\ thread = [r \in Relays |-> thread[r]]
      /\ client \in Starting => starts \in Relays
      /\ client \in {"register", "spawn"} => thread[starts] = "none"
      /\ \A r \in Relays : r > starts => thread[r] = "none"
  BY LinkIoAssumption DEF LinkIoAssumption, RelaysInv, ClientInv, ThreadInv
<1>f. /\ running = [r \in Relays |-> running[r]]
      /\ \A r \in Relays : running[r] => listening[r]
      /\ \A r \in Relays : listening[r] =>
           (r = loop /\ client \in {"idle", "halt", "unregister"})
             \/ (r = starts /\ client \in {"spawn", "keep"})
  BY DEF FlagsInv, OneRelayListens
<1> USE DEF ClosedInv, Over
<1>u. ASSUME UNCHANGED <<running, closed, links, thread, client, starts>> PROVE ClosedInv'
  BY <1>u
<1>1. CASE \E n \in Networks : NetworkUp(n) \/ NetworkLost(n)
  BY <1>1, <1>u DEF NetworkUp, NetworkLost, relayVars, flagVars, clientVars
<1>2. CASE \E r \in Relays : CallbackStep(r)
  BY <1>2, <1>u DEF CallbackStep, OnAvailable, OnLost, flagVars, clientVars
<1>3. CASE UNCHANGED vars
  BY <1>3, <1>u DEF vars, relayVars, flagVars, clientVars
<1>4. CASE BeginStart \/ BeginStop \/ Halt \/ Unregister
  <2>1. /\ UNCHANGED <<closed, links, thread, starts>>
        /\ client' \in Halting
        /\ \A r \in Relays : running'[r] => running[r]
    BY <1>4, <1>f DEF BeginStart, BeginStop, ToHalt, Halt, Unregister, relayVars, flagVars, Halting
  <2> QED
    BY <2>1 DEF Halting
<1>5. CASE JoinToStart
  <2>1. UNCHANGED <<running, closed, links, thread>> /\ starts' = starts + 1
    BY <1>5 DEF JoinToStart, relayVars, flagVars
  <2>2. starts + 1 > starts /\ ~(starts + 1 <= starts)
    BY <1>0
  <2>3. \A r \in Relays : (r <= starts => r <= starts + 1) /\ (r > starts + 1 => r > starts)
    BY <1>0 DEF Relays
  <2>4. client' = "register" => starts + 1 \in Relays
    <3>1. client' = "register" => goal = "start" /\ starts < MaxStarts
      BY <1>5 DEF JoinToStart, RelaysInv, ClientInv, Halting
    <3> QED
      BY <1>0, <3>1, LinkIoAssumption DEF LinkIoAssumption, Relays
  <2>5. client' \in {"register", "idle"}
    BY <1>5 DEF JoinToStart, Returns
  <2> QED
    BY <2>1, <2>2, <2>3, <2>4, <2>5
<1>6. CASE Register
  <2>1. /\ running' = [running EXCEPT ![starts] = TRUE] /\ starts \in Relays
        /\ UNCHANGED <<closed, links, thread, starts>> /\ client = "register" /\ client' = "spawn"
    BY <1>0, <1>6 DEF Register, Starting
  <2>2. \A r \in Relays : r # starts => running'[r] = running[r]
    BY <1>f, <2>1
  <2> QED
    BY <2>1, <2>2
<1>7. CASE Spawn
  <2>1. /\ thread' = [thread EXCEPT ![starts] = "select"] /\ starts \in Relays
        /\ UNCHANGED <<running, closed, links, starts>> /\ client = "spawn" /\ client' = "keep"
    BY <1>0, <1>7 DEF Spawn, Starting, flagVars
  <2>2. \A r \in Relays : r # starts => thread'[r] = thread[r]
    BY <1>0, <2>1
  <2> QED
    BY <2>1, <2>2
<1>8. CASE Keep \/ JoinToStop
  <2>1. UNCHANGED <<running, closed, links, thread, starts>> /\ client' = "idle"
    BY <1>8 DEF Keep, JoinToStop, Returns, relayVars, flagVars
  <2> QED
    BY <2>1
<1>9. CASE StartFails
  <2>1. /\ UNCHANGED <<links, thread, starts>> /\ starts \in Relays
        /\ closed' = [closed EXCEPT ![starts] = TRUE]
        /\ running' = [running EXCEPT ![starts] = FALSE]
        /\ client \in {"register", "spawn"} /\ client' = "idle"
    BY <1>0, <1>9 DEF StartFails, Returns, Starting
  <2>2. \A r \in Relays : /\ closed'[r] <=> closed[r] \/ r = starts
                          /\ running'[r] <=> running[r] /\ r # starts
    BY <1>f, <2>1
  <2>3. thread[starts] = "none" /\ links[starts] = {} /\ starts <= starts
    BY <1>0, <2>1
  <2> QED
    BY <2>1, <2>2, <2>3
<1>10. CASE \E r \in Relays : IoStep(r)
  <2> PICK r \in Relays : IoStep(r)
    BY <1>10
  <2>0. /\ thread[r] \notin {"none", "ended"} /\ UNCHANGED <<running, client, starts>>
        /\ \E to : thread' = [thread EXCEPT ![r] = to]
    BY <1>0, IoSteps DEF Alive, clientVars, flagVars
  <2>1. /\ ~(r > starts) /\ r <= starts
        /\ client \in {"register", "spawn"} => r # starts /\ starts \in Relays
    BY <1>0, <2>0 DEF Relays, Starting
  <2>2. /\ thread' = [s \in Relays |-> thread'[s]]
        /\ \A s \in Relays : s # r => thread'[s] = thread[s]
    BY <1>0, <2>0
  <2>a. ASSUME UNCHANGED <<links, closed>>, closed[r] => thread'[r] \in Over
        PROVE  ClosedInv'
    <3>1. \A s \in Relays : closed[s] => thread'[s] \in Over
      BY <2>2, <2>a
    <3> QED
      BY <2>0, <2>a, <3>1
  <2>3. CASE SelectReturns(r)
    BY <2>3, <2>a DEF SelectReturns
  <2>4. CASE Close(r)
    <3>1. /\ links' = [links EXCEPT ![r] = {}] /\ closed' = [closed EXCEPT ![r] = TRUE]
          /\ thread'[r] = "publish" /\ ~running[r]
      BY <1>0, <2>4 DEF Close, IoGoes
    <3>2. \A s \in Relays : /\ links'[s] = IF s = r THEN {} ELSE links[s]
                            /\ closed'[s] = IF s = r THEN TRUE ELSE closed[s]
      BY <3>1
    <3>3. links' = [s \in Relays |-> links'[s]] /\ closed' = [s \in Relays |-> closed'[s]]
      BY <3>1
    <3>4. \A s \in Relays : closed'[s] => links'[s] = {} /\ ~running'[s] /\ thread'[s] \in Over
      BY <2>0, <2>2, <3>1, <3>2
    <3> QED
      BY <2>0, <2>1, <3>2, <3>3, <3>4
  <2>5. ASSUME NEW n \in Networks,
               AddLink(r, n) \/ AddFails(r, n) \/ RemoveLink(r, n) \/ ForgetFailed(r, n)
        PROVE  ClosedInv'
    <3>1. /\ thread[r] = "drain" /\ UNCHANGED closed
          /\ links' = [s \in Relays |-> links'[s]]
          /\ \A s \in Relays : s # r => links'[s] = links[s]
      BY <2>5 DEF AddLink, AddFails, RemoveLink, ForgetFailed, IsNext
    <3>2. ~closed[r]
      BY <3>1
    <3> QED
      BY <2>0, <2>1, <2>2, <3>1, <3>2
  <2>6. CASE Tick(r)
    BY <2>6, <2>a DEF Tick
  <2>7. CASE CheckEpoch(r) \/ WriteLinks(r)
    <3>1. thread'[r] = AfterPublish(r) \/ (thread'[r] = ToWrite(r) /\ thread[r] \in {"publish", "report"})
      BY <1>0, <2>7 DEF CheckEpoch, WriteLinks, IoGoes
    <3>2. closed[r] => thread'[r] \in Over
      BY <3>1 DEF ToWrite, AfterPublish
    <3> QED
      BY <2>7, <2>a, <3>2 DEF CheckEpoch, WriteLinks, PublishUnchanged
  <2> QED
    BY <2>3, <2>4, <2>5, <2>6, <2>7 DEF IoStep
<1> QED
  BY <1>1, <1>2, <1>3, <1>4, <1>5, <1>6, <1>7, <1>8, <1>9, <1>10 DEF Next, ClientStep

LEMMA FlagsCorrect == Spec => []FlagsInv
<1>1. RelaysInv => ClientInv
  BY DEF RelaysInv
<1> QED
  BY <1>1, RelaysInit, RelaysStep, FlagsInit, FlagsStep, PTL DEF Spec

LEMMA ClosedCorrect == Spec => []ClosedInv
BY RelaysInit, RelaysStep, FlagsCorrect, ClosedInit, ClosedStep, PTL DEF Spec

(* stop() and a start that fails leave no callback registered, and one     *)
(* relay at most is told of networks, also when a join gave another up.    *)
THEOREM ListensAlone == Spec => []OneRelayListens
<1>1. FlagsInv => OneRelayListens
  BY DEF FlagsInv
<1> QED
  BY <1>1, FlagsCorrect, PTL

(* closeQuietly() is final although events may be left in the queue and    *)
(* callbacks may still come: nothing drains them, and no later start opens *)
(* a link of a closed relay.                                               *)
THEOREM ClosedStaysEmpty == Spec => []ClosedOwnsNothing
<1>1. FlagsInv /\ ClosedInv => ClosedOwnsNothing
  <2> SUFFICES ASSUME FlagsInv, ClosedInv, NEW r \in Relays, closed[r]
               PROVE  /\ links[r] = {} /\ ~running[r] /\ thread[r] \in Over
                      /\ listening[r] => r = loop /\ client = "unregister"
    BY DEF ClosedOwnsNothing, Over
  <2>1. links[r] = {} /\ ~running[r] /\ thread[r] \in Over
    BY DEF ClosedInv
  <2>2. listening[r] => r = loop /\ client = "unregister"
    BY <2>1 DEF FlagsInv, OneRelayListens
  <2> QED
    BY <2>1, <2>2
<1> QED
  BY <1>1, FlagsCorrect, ClosedCorrect, PTL

-----------------------------------------------------------------------------
(* The screen                                                              *)

(* Links that are shown are those of a relay that a join gave up, or of    *)
(* the present one, which will publish its end unless stop() has ended its *)
(* epoch and empties the list itself.                                      *)
ShownInv ==
  shown # {} =>
    /\ shownBy \in Relays
    /\ thread[shownBy] # "none"
    /\ \/ shownBy \in abandoned
       \/ shownBy = starts /\ client = "keep" /\ thread[starts] # "ended"
       \/ shownBy = loop /\ (thread[loop] = "ended" => goal = "stop" /\ client \in Halting)

LEMMA ShownStep ==
  RelaysInv /\ ClosedInv /\ ShownInv /\ [Next]_vars => ShownInv'
<1> SUFFICES ASSUME RelaysInv, ClosedInv, ShownInv, [Next]_vars PROVE ShownInv'
  OBVIOUS
<1>0. /\ thread = [r \in Relays |-> thread[r]]
      /\ abandoned \subseteq Relays /\ \A r \in abandoned : thread[r] # "none"
      /\ client = "idle" => goal = "none"
      /\ client \in Starting => loop = 0 /\ starts \in Relays
      /\ loop # 0 => epoch = loop \/ (goal = "stop" /\ client \in Halting)
      /\ \A r \in Relays :
           Alive(r) => r = loop \/ r \in abandoned \/ (client = "keep" /\ r = starts)
      /\ 0 \notin Relays
  BY DEF RelaysInv, ClientInv, ThreadInv, Relays
<1> USE DEF ShownInv, Starting, Halting
<1>u. ASSUME UNCHANGED <<screenVars, thread, clientVars>> PROVE ShownInv'
  BY <1>u DEF screenVars, clientVars
<1>1. CASE \E n \in Networks : NetworkUp(n) \/ NetworkLost(n)
  BY <1>1, <1>u DEF NetworkUp, NetworkLost, relayVars
<1>2. CASE \E r \in Relays : CallbackStep(r)
  BY <1>2, <1>u DEF CallbackStep, OnAvailable, OnLost
<1>3. CASE UNCHANGED vars
  BY <1>3, <1>u DEF vars, relayVars
<1>4. CASE BeginStart \/ BeginStop \/ Halt \/ Unregister \/ Register
  <2>1. /\ UNCHANGED <<screenVars, thread, loop, starts, abandoned>>
        /\ client # "keep" /\ client' \in Halting \cup {"spawn"}
        /\ client = "idle" \/ (goal' = goal /\ (client \in Halting => client' \in Halting))
    BY <1>4 DEF BeginStart, BeginStop, ToHalt, Halt, Unregister, Register, relayVars
  <2> QED
    BY <1>0, <2>1 DEF screenVars
<1>5. CASE JoinToStart
  <2>1. /\ UNCHANGED <<screenVars, thread>> /\ client = "join" /\ goal = "start"
        /\ abandoned' = abandoned \cup {r \in {loop} \ {0} : Alive(r)}
    BY <1>5 DEF JoinToStart, Joined, relayVars
  <2>2. ASSUME shown # {}, shownBy \notin abandoned
        PROVE  shownBy \in abandoned'
    <3>1. shownBy = loop /\ loop \in Relays /\ loop # 0 /\ thread[loop] # "ended"
      BY <1>0, <2>1, <2>2
    <3> QED
      BY <2>1, <2>2, <3>1 DEF Alive
  <2> QED
    BY <2>1, <2>2 DEF screenVars
<1>6. CASE Spawn
  <2>1. /\ UNCHANGED <<screenVars, loop, starts, abandoned>> /\ client = "spawn"
        /\ thread' = [thread EXCEPT ![starts] = "select"]
    BY <1>6 DEF Spawn
  <2>2. shown # {} => shownBy \in abandoned /\ thread'[shownBy] # "none"
    BY <1>0, <2>1
  <2> QED
    BY <2>1, <2>2 DEF screenVars
<1>7. CASE Keep
  <2>1. /\ UNCHANGED <<screenVars, thread, starts, abandoned>> /\ loop' = starts /\ client = "keep"
    BY <1>7 DEF Keep, relayVars
  <2> QED
    BY <1>0, <2>1 DEF screenVars
<1>8. CASE StartFails \/ JoinToStop
  BY <1>8 DEF StartFails, JoinToStop
<1>9. CASE \E r \in Relays : IoStep(r)
  <2> PICK r \in Relays : IoStep(r)
    BY <1>9
  <2>1. /\ Alive(r) /\ UNCHANGED clientVars
        /\ \E to : to # "none" /\ thread' = [thread EXCEPT ![r] = to]
    BY <1>0, IoSteps
  <2>2. /\ \A s \in Relays : s # r => thread'[s] = thread[s]
        /\ thread'[r] # "none"
    BY <1>0, <2>1
  <2>3. CASE WriteLinks(r)
    <3>1. /\ shown' = links[r] /\ (shown' # {} => shownBy' = r)
          /\ thread'[r] = AfterPublish(r)
          /\ closed[r] => links[r] = {}
      BY <1>0, <2>3 DEF WriteLinks, IoGoes, ClosedInv
    <3>2. shown' # {} => thread'[r] # "ended"
      BY <3>1 DEF AfterPublish
    <3> QED
      BY <1>0, <2>1, <2>2, <3>1, <3>2 DEF clientVars
  <2>4. ASSUME UNCHANGED screenVars,
               thread'[r] = "ended" => epoch # r
        PROVE  ShownInv'
    <3> SUFFICES ASSUME shown # {} PROVE ShownInv'
      BY <2>4 DEF screenVars
    <3>1. /\ UNCHANGED <<shown, shownBy, client, goal, loop, starts, abandoned>>
          /\ thread'[shownBy] # "none"
      BY <2>1, <2>2, <2>4 DEF screenVars, clientVars
    <3>2. CASE shownBy \in abandoned
      BY <3>1, <3>2
    <3>3. CASE shownBy = starts /\ client = "keep" /\ thread[starts] # "ended"
      <4>1. epoch = starts
        BY <3>3 DEF RelaysInv, ClientInv
      <4>2. thread'[starts] # "ended"
        BY <2>2, <2>4, <3>3, <4>1
      <4> QED
        BY <3>1, <3>3, <4>2
    <3>4. CASE shownBy = loop /\ (thread[loop] = "ended" => goal = "stop" /\ client \in Halting)
      <4>1. loop # 0
        BY <1>0, <3>4
      <4>2. thread'[loop] = "ended" => goal = "stop" /\ client \in Halting
        BY <1>0, <2>2, <2>4, <3>4, <4>1
      <4> QED
        BY <3>1, <3>4, <4>2
    <3> QED
      BY <3>2, <3>3, <3>4
  <2>5. CASE ~WriteLinks(r)
    <3>1. UNCHANGED screenVars
      BY <2>5 DEF IoStep, SelectReturns, Close, AddLink, AddFails, RemoveLink, ForgetFailed, Tick,
                  CheckEpoch, PublishUnchanged
    <3>2. CASE CheckEpoch(r)
      <4>1. epoch = r => thread'[r] = ToWrite(r)
        BY <1>0, <3>2 DEF CheckEpoch, IoGoes
      <4> QED
        BY <2>4, <3>1, <4>1 DEF ToWrite
    <3>3. CASE ~CheckEpoch(r)
      <4>1. thread'[r] # "ended"
        BY <1>0, <2>1, <2>5, <3>3 DEF IoStep, SelectReturns, Close, AddLink, AddFails, RemoveLink,
           ForgetFailed, Tick, IsNext, IoGoes
      <4> QED
        BY <2>4, <3>1, <4>1
    <3> QED
      BY <3>2, <3>3
  <2> QED
    BY <2>3, <2>5
<1> QED
  BY <1>1, <1>2, <1>3, <1>4, <1>5, <1>6, <1>7, <1>8, <1>9 DEF Next, ClientStep

(* stop() ends the epoch before it empties the list, and a relay that was  *)
(* waited for has published its end: what is left on the screen of a       *)
(* stopped client was set by a relay that a join gave up.                  *)
THEOREM StoppedIsEmpty == Spec => []StoppedShowsNothing
<1>1. Init => ShownInv
  BY DEF Init, ShownInv
<1>2. RelaysInv /\ ShownInv => StoppedShowsNothing
  BY DEF RelaysInv, ClientInv, ThreadInv, ShownInv, StoppedShowsNothing, Relays
<1> QED
  BY <1>1, <1>2, RelaysInit, RelaysStep, ClosedCorrect, ShownStep, PTL DEF Spec

-----------------------------------------------------------------------------
(* Types                                                                   *)

LEMMA TypeInit == Init => TypeOK
<1>1. \A r \in Relays : <<>> \in Seq(Event) /\ {} \in SUBSET Networks
  OBVIOUS
<1>2. Init => pending \in [Relays -> Seq(Event)]
  BY <1>1 DEF Init
<1>3. Init => /\ told \in [Relays -> SUBSET Networks]
              /\ links \in [Relays -> SUBSET Networks]
              /\ failed \in [Relays -> SUBSET Networks]
  BY <1>1 DEF Init
<1>4. Init => /\ thread \in [Relays -> Places]
              /\ running \in [Relays -> BOOLEAN]
              /\ listening \in [Relays -> BOOLEAN]
              /\ closed \in [Relays -> BOOLEAN]
  BY DEF Init, Places
<1>5. Init => /\ up \subseteq Networks /\ shown \subseteq Networks /\ abandoned \subseteq Relays
              /\ client \in ClientPlaces /\ goal \in {"none", "start", "stop"}
  BY DEF Init, ClientPlaces
<1>6. Init => /\ changes \in 0..MaxChanges
              /\ {loop, starts, epoch, shownBy} \subseteq 0..MaxStarts
  BY LinkIoAssumption DEF LinkIoAssumption, Init
<1> QED
  BY <1>2, <1>3, <1>4, <1>5, <1>6 DEF TypeOK

(* What a callback puts into a queue is an event, and what is taken leaves *)
(* events.                                                                 *)
LEMMA QueueTypes ==
  ASSUME NEW queue \in Seq(Event), NEW n \in Networks
  PROVE  /\ Queued(queue, <<"available", n>>) \in Seq(Event)
         /\ Queued(queue, <<"lost", n>>) \in Seq(Event)
         /\ queue # <<>> => Tail(queue) \in Seq(Event)
BY DEF Queued, Event

LEMMA TypedUpdate ==
  ASSUME NEW S, NEW r \in Relays, NEW f \in [Relays -> S], NEW e \in S
  PROVE  [f EXCEPT ![r] = e] \in [Relays -> S]
OBVIOUS

(* Where the client is, is typed by RelaysInv, which bounds the starts.    *)
LEMMA TypeStep == RelaysInv /\ RelaysInv' /\ TypeOK /\ [Next]_vars => TypeOK'
<1> SUFFICES ASSUME RelaysInv, RelaysInv', TypeOK, [Next]_vars PROVE TypeOK'
  OBVIOUS
<1>1. /\ client' \in ClientPlaces /\ starts' \in 0..MaxStarts
      /\ loop' \in 0..MaxStarts /\ epoch' \in 0..MaxStarts
      /\ goal' \in {"none", "start", "stop"}
  BY LinkIoAssumption DEF LinkIoAssumption, RelaysInv, ClientInv
<1>2. CASE \E n \in Networks : NetworkUp(n) \/ NetworkLost(n)
  <2>1. changes' \in 0..MaxChanges
    BY <1>2, LinkIoAssumption DEF LinkIoAssumption, TypeOK, NetworkUp, NetworkLost
  <2> QED
    BY <1>1, <1>2, <2>1 DEF TypeOK, NetworkUp, NetworkLost, relayVars, flagVars, screenVars,
       clientVars
<1>3. CASE \E r \in Relays : CallbackStep(r)
  <2> PICK r \in Relays, n \in Networks : OnAvailable(r, n) \/ OnLost(r, n)
    BY <1>3 DEF CallbackStep
  <2>1. pending[r] \in Seq(Event)
    BY DEF TypeOK
  <2>2. pending' \in [Relays -> Seq(Event)]
    <3>1. PICK event : /\ event \in {<<"available", n>>, <<"lost", n>>}
                       /\ pending' = [pending EXCEPT ![r] = Queued(pending[r], event)]
      BY DEF OnAvailable, OnLost
    <3>2. Queued(pending[r], event) \in Seq(Event)
      BY <2>1, <3>1, QueueTypes
    <3> QED
      BY <3>1, <3>2, TypedUpdate DEF TypeOK
  <2>3. told' \in [Relays -> SUBSET Networks]
    <3>1. PICK says \in SUBSET Networks : told' = [told EXCEPT ![r] = says]
      <4>1. told[r] \cup {n} \in SUBSET Networks /\ told[r] \ {n} \in SUBSET Networks
        BY DEF TypeOK
      <4> QED
        BY <4>1 DEF OnAvailable, OnLost
    <3> QED
      BY <3>1, TypedUpdate DEF TypeOK
  <2> QED
    BY <1>1, <2>2, <2>3 DEF TypeOK, OnAvailable, OnLost, flagVars, screenVars, clientVars
<1>4. CASE BeginStart \/ BeginStop \/ Keep
  BY <1>1, <1>4 DEF TypeOK, BeginStart, BeginStop, Keep, screenVars, relayVars, flagVars
<1>5. CASE JoinToStart \/ JoinToStop
  <2>1. abandoned' \subseteq Relays
    BY RelaysInv' DEF RelaysInv, ThreadInv
  <2>2. /\ UNCHANGED <<up, changes, relayVars>>
        /\ UNCHANGED screenVars \/ (shown' = {} /\ shownBy' = 0)
    BY <1>5 DEF JoinToStart, JoinToStop
  <2>3. 0 \in 0..MaxStarts
    BY LinkIoAssumption DEF LinkIoAssumption
  <2> QED
    BY <1>1, <2>1, <2>2, <2>3 DEF TypeOK, screenVars, relayVars, flagVars
<1>6. CASE Halt \/ Unregister \/ Register \/ Spawn \/ StartFails
  <2>1. /\ running' \in [Relays -> BOOLEAN]
        /\ listening' \in [Relays -> BOOLEAN]
    BY <1>6 DEF TypeOK, Halt, Unregister, Register, Spawn, StartFails, CallbacksEnd, flagVars
  <2>2. /\ closed' \in [Relays -> BOOLEAN]
        /\ thread' \in [Relays -> Places]
    BY <1>6 DEF TypeOK, Places, Halt, Unregister, Register, Spawn, StartFails
  <2>3. /\ UNCHANGED <<up, changes, told, pending, links, failed, abandoned>>
        /\ UNCHANGED screenVars \/ (shown' = {} /\ shownBy' = 0)
    BY <1>6 DEF Halt, Unregister, Register, Spawn, StartFails
  <2>4. 0 \in 0..MaxStarts
    BY LinkIoAssumption DEF LinkIoAssumption
  <2> QED
    BY <1>1, <2>1, <2>2, <2>3, <2>4 DEF TypeOK, screenVars
<1>7. CASE \E r \in Relays : IoStep(r)
  <2> PICK r \in Relays : IoStep(r)
    BY <1>7
  <2> USE <1>1 DEF IoUnchanged, clientVars, flagVars, screenVars, IoGoes
  <2>1. CASE SelectReturns(r) \/ Close(r)
    <3>1. /\ thread' \in [Relays -> Places]
          /\ links' \in [Relays -> SUBSET Networks]
      BY <2>1 DEF SelectReturns, Close, TypeOK, Places
    <3>2. /\ failed' \in [Relays -> SUBSET Networks]
          /\ closed' \in [Relays -> BOOLEAN]
      BY <2>1 DEF SelectReturns, Close, TypeOK
    <3> QED
      BY <2>1, <3>1, <3>2 DEF SelectReturns, Close, TypeOK
  <2>2. ASSUME NEW n \in Networks,
               AddLink(r, n) \/ AddFails(r, n) \/ RemoveLink(r, n) \/ ForgetFailed(r, n)
        PROVE  TypeOK'
    <3>1. pending' \in [Relays -> Seq(Event)]
      <4>1. Drops(r) /\ pending[r] # <<>> /\ pending[r] \in Seq(Event)
        BY <2>2 DEF AddLink, AddFails, RemoveLink, ForgetFailed, IsNext, TypeOK
      <4> QED
        BY <4>1, QueueTypes DEF Drops, TypeOK
    <3>2. thread' \in [Relays -> Places]
      BY <2>2 DEF TypeOK, Places, AddLink, AddFails, RemoveLink, ForgetFailed
    <3>3. links' \in [Relays -> SUBSET Networks] /\ failed' \in [Relays -> SUBSET Networks]
      <4>1. /\ links[r] \cup {n} \in SUBSET Networks /\ links[r] \ {n} \in SUBSET Networks
            /\ failed[r] \cup {n} \in SUBSET Networks /\ failed[r] \ {n} \in SUBSET Networks
        BY DEF TypeOK
      <4>2. /\ links' = links \/ \E e \in SUBSET Networks : links' = [links EXCEPT ![r] = e]
            /\ failed' = failed \/ \E e \in SUBSET Networks : failed' = [failed EXCEPT ![r] = e]
        BY <2>2, <4>1 DEF AddLink, AddFails, RemoveLink, ForgetFailed
      <4>3. links \in [Relays -> SUBSET Networks] /\ failed \in [Relays -> SUBSET Networks]
        BY DEF TypeOK
      <4>4. ASSUME NEW e \in SUBSET Networks
            PROVE  /\ [links EXCEPT ![r] = e] \in [Relays -> SUBSET Networks]
                   /\ [failed EXCEPT ![r] = e] \in [Relays -> SUBSET Networks]
        BY <4>3, TypedUpdate
      <4> QED
        BY <4>2, <4>3, <4>4
    <3> QED
      BY <2>2, <3>1, <3>2, <3>3 DEF TypeOK, AddLink, AddFails, RemoveLink, ForgetFailed
  <2>3. CASE Tick(r)
    <3>1. thread' \in [Relays -> Places]
      BY <2>3 DEF Tick, TypeOK, Places
    <3> QED
      BY <2>3, <3>1 DEF Tick, TypeOK
  <2>4. CASE CheckEpoch(r) \/ WriteLinks(r)
    <3>1. thread' \in [Relays -> Places]
      BY <2>4 DEF CheckEpoch, WriteLinks, ToWrite, AfterPublish, TypeOK, Places
    <3>2. shown' \subseteq Networks /\ shownBy' \in 0..MaxStarts
      BY <2>4, LinkIoAssumption
         DEF LinkIoAssumption, CheckEpoch, WriteLinks, TypeOK, Relays
    <3> QED
      BY <2>4, <3>1, <3>2 DEF CheckEpoch, WriteLinks, PublishUnchanged, TypeOK
  <2> QED
    BY <2>1, <2>2, <2>3, <2>4 DEF IoStep
<1>8. CASE UNCHANGED vars
  BY <1>1, <1>8 DEF TypeOK, vars, screenVars, relayVars, flagVars, clientVars
<1> QED
  BY <1>2, <1>3, <1>4, <1>5, <1>6, <1>7, <1>8 DEF Next, ClientStep

(* Client, relays, queues and lists keep their types; the starts stay      *)
(* within their bound through every overlap.                               *)
THEOREM TypesHold == Spec => []TypeOK
BY RelaysInit, RelaysStep, TypeInit, TypeStep, PTL DEF Spec

-----------------------------------------------------------------------------
(* The networks                                                            *)

IsOf(queue, i, n) == queue[i][2] = n

(* The events of network n lead from what the relay has to what Android    *)
(* said: each event changes what the one before it left, and the last one  *)
(* says what the network is.                                               *)
FirstOf(queue, i, n) == IsOf(queue, i, n) /\ \A k \in 1..(i - 1) : ~IsOf(queue, k, n)

LastOf(queue, i, n) ==
  IsOf(queue, i, n) /\ \A k \in (i + 1)..Len(queue) : ~IsOf(queue, k, n)

Follows(queue, i, j, n) ==
  /\ i < j
  /\ IsOf(queue, i, n)
  /\ IsOf(queue, j, n)
  /\ \A k \in (i + 1)..(j - 1) : ~IsOf(queue, k, n)

NoneOf(queue, n) == \A i \in 1..Len(queue) : ~IsOf(queue, i, n)

Starts(queue, have, n) ==
  \A i \in 1..Len(queue) :
    FirstOf(queue, i, n) => (queue[i][1] = "available" <=> n \notin have)

Alternates(queue, n) ==
  \A i, j \in 1..Len(queue) :
    Follows(queue, i, j, n) => (queue[i][1] = "available" <=> queue[j][1] = "lost")

Leads(queue, says, n) ==
  \A i \in 1..Len(queue) :
    LastOf(queue, i, n) => (queue[i][1] = "available" <=> n \in says)

Chain(queue, have, says, n) ==
  /\ Starts(queue, have, n)
  /\ Alternates(queue, n)
  /\ Leads(queue, says, n)
  /\ NoneOf(queue, n) => (n \in says <=> n \in have)
  /\ NoneOf(queue, n) \/ \E i \in 1..Len(queue) : LastOf(queue, i, n)

Kinds == {"available", "lost"}

LEMMA EventParts ==
  ASSUME NEW queue \in Seq(Event), NEW i \in 1..Len(queue)
  PROVE  queue[i][1] \in Kinds /\ queue[i] = <<queue[i][1], queue[i][2]>>
BY DEF Event, Kinds

LEMMA ChainAppend ==
  ASSUME NEW queue \in Seq(Event), NEW have, NEW says, NEW after, NEW n,
         NEW kind \in Kinds, NEW m \in Networks,
         Chain(queue, have, says, n),
         n = m => (kind = "available" <=> n \notin says) /\ (kind = "available" <=> n \in after),
         n # m => (n \in after <=> n \in says)
  PROVE  Chain(Append(queue, <<kind, m>>), have, after, n)
<1> DEFINE longer == Append(queue, <<kind, m>>)
           len == Len(queue)
<1>1. /\ len \in Nat /\ Len(queue) = len /\ Len(longer) = len + 1
      /\ \A i \in 1..len : longer[i] = queue[i]
      /\ longer[len + 1] = <<kind, m>>
  BY DEF Event, Kinds
<1>2. \A i \in 1..len : queue[i][1] \in Kinds
  BY EventParts
<1>3. /\ \A i \in 1..len : IsOf(longer, i, n) <=> IsOf(queue, i, n)
      /\ \A i \in 1..len : longer[i][1] = queue[i][1]
      /\ IsOf(longer, len + 1, n) <=> n = m
      /\ longer[len + 1][1] = kind
  BY <1>1 DEF IsOf
<1> HIDE DEF longer, len
<1> USE DEF Chain
<1>4. ASSUME NEW i \in 1..len, LastOf(longer, i, n)
      PROVE  n # m /\ LastOf(queue, i, n)
  BY <1>1, <1>3, <1>4 DEF LastOf
<1>5. ASSUME NEW i \in 1..len, Follows(longer, i, len + 1, n)
      PROVE  n = m /\ LastOf(queue, i, n)
  BY <1>1, <1>3, <1>5 DEF LastOf, Follows
<1>6. NoneOf(queue, n) \/ ~FirstOf(longer, len + 1, n)
  BY <1>1, <1>3 DEF NoneOf, FirstOf, LastOf
<1>7. Starts(longer, have, n)
  <2> SUFFICES ASSUME NEW i \in 1..(len + 1), FirstOf(longer, i, n)
               PROVE  longer[i][1] = "available" <=> n \notin have
    BY <1>1 DEF Starts
  <2>1. CASE i = len + 1
    BY <1>1, <1>3, <1>6, <2>1 DEF FirstOf
  <2>2. CASE i # len + 1
    <3>1. i \in 1..len /\ FirstOf(queue, i, n)
      BY <1>1, <1>3, <2>2 DEF FirstOf
    <3> QED
      BY <1>1, <1>3, <3>1 DEF Starts
  <2> QED
    BY <2>1, <2>2
<1>8. Alternates(longer, n)
  <2> SUFFICES ASSUME NEW i \in 1..(len + 1), NEW j \in 1..(len + 1), Follows(longer, i, j, n)
               PROVE  longer[i][1] = "available" <=> longer[j][1] = "lost"
    BY <1>1 DEF Alternates
  <2>1. i \in 1..len
    BY <1>1 DEF Follows
  <2>2. CASE j = len + 1
    BY <1>1, <1>2, <1>3, <1>5, <2>1, <2>2 DEF Leads, Kinds
  <2>3. CASE j # len + 1
    <3>1. j \in 1..len /\ Follows(queue, i, j, n)
      BY <1>1, <1>3, <2>1, <2>3 DEF Follows
    <3> QED
      BY <1>1, <1>3, <2>1, <3>1 DEF Alternates
  <2> QED
    BY <2>2, <2>3
<1>9. Leads(longer, after, n)
  <2> SUFFICES ASSUME NEW i \in 1..(len + 1), LastOf(longer, i, n)
               PROVE  longer[i][1] = "available" <=> n \in after
    BY <1>1 DEF Leads
  <2>1. CASE i = len + 1
    BY <1>1, <1>3, <2>1 DEF LastOf
  <2>2. CASE i # len + 1
    BY <1>1, <1>3, <1>4, <2>2 DEF Leads
  <2> QED
    BY <2>1, <2>2
<1>10. NoneOf(longer, n) => n # m /\ NoneOf(queue, n)
  BY <1>1, <1>3 DEF NoneOf
<1>11. NoneOf(longer, n) \/ \E i \in 1..(len + 1) : LastOf(longer, i, n)
  <2>1. n = m => LastOf(longer, len + 1, n)
    BY <1>1, <1>3 DEF LastOf
  <2>2. ASSUME n # m, NEW i \in 1..len, LastOf(queue, i, n)
        PROVE  LastOf(longer, i, n)
    BY <1>1, <1>3, <2>2 DEF LastOf
  <2>3. n # m /\ NoneOf(queue, n) => NoneOf(longer, n)
    BY <1>1, <1>3 DEF NoneOf
  <2> QED
    BY <1>1, <2>1, <2>2, <2>3
<1> QED
  BY <1>1, <1>7, <1>8, <1>9, <1>10, <1>11 DEF longer

LEMMA ChainTail ==
  ASSUME NEW queue \in Seq(Event), queue # <<>>,
         NEW have, NEW after, NEW says, NEW n,
         Chain(queue, have, says, n),
         Head(queue)[2] = n => (n \in after <=> Head(queue)[1] = "available"),
         Head(queue)[2] # n => (n \in after <=> n \in have)
  PROVE  Chain(Tail(queue), after, says, n)
<1> DEFINE rest == Tail(queue)
           len == Len(rest)
<1>1. /\ len \in Nat /\ Len(rest) = len /\ Len(queue) = len + 1
      /\ \A i \in 1..len : rest[i] = queue[i + 1]
      /\ Head(queue) = queue[1]
  OBVIOUS
<1>2. \A i \in 1..(len + 1) : queue[i][1] \in Kinds
  BY <1>1, EventParts
<1>3. /\ \A i \in 1..len : IsOf(rest, i, n) <=> IsOf(queue, i + 1, n)
      /\ \A i \in 1..len : rest[i][1] = queue[i + 1][1]
      /\ IsOf(queue, 1, n) => (n \in after <=> queue[1][1] = "available")
      /\ ~IsOf(queue, 1, n) => (n \in after <=> n \in have)
  BY <1>1 DEF IsOf
<1> HIDE DEF rest, len
<1> USE DEF Chain
<1>4. ASSUME NEW i \in 1..len
      PROVE  i + 1 \in 1..Len(queue) /\ (LastOf(rest, i, n) <=> LastOf(queue, i + 1, n))
  <2>1. ASSUME LastOf(rest, i, n), NEW k \in (i + 2)..(len + 1)
        PROVE  ~IsOf(queue, k, n)
    <3>1. k - 1 \in (i + 1)..len /\ k - 1 \in 1..len /\ (k - 1) + 1 = k
      BY <1>1
    <3> QED
      BY <1>1, <1>3, <2>1, <3>1 DEF LastOf
  <2> QED
    BY <1>1, <1>3, <2>1 DEF LastOf
<1>5. Starts(rest, after, n)
  <2> SUFFICES ASSUME NEW i \in 1..len, FirstOf(rest, i, n)
               PROVE  rest[i][1] = "available" <=> n \notin after
    BY <1>1 DEF Starts
  <2>1. ASSUME NEW k \in 2..i PROVE ~IsOf(queue, k, n)
    <3>1. k - 1 \in 1..(i - 1) /\ k - 1 \in 1..len /\ (k - 1) + 1 = k
      BY <1>1
    <3> QED
      BY <1>3, <3>1 DEF FirstOf
  <2>2. CASE IsOf(queue, 1, n)
    <3>1. Follows(queue, 1, i + 1, n)
      BY <1>1, <1>3, <2>1, <2>2 DEF FirstOf, Follows
    <3> QED
      BY <1>1, <1>2, <1>3, <2>2, <3>1 DEF Alternates, Kinds
  <2>3. CASE ~IsOf(queue, 1, n)
    <3>1. FirstOf(queue, i + 1, n)
      BY <1>1, <1>3, <2>1, <2>3 DEF FirstOf
    <3> QED
      BY <1>1, <1>3, <2>3, <3>1 DEF Starts
  <2> QED
    BY <2>2, <2>3
<1>6. Alternates(rest, n)
  <2> SUFFICES ASSUME NEW i \in 1..len, NEW j \in 1..len, Follows(rest, i, j, n)
               PROVE  rest[i][1] = "available" <=> rest[j][1] = "lost"
    BY <1>1 DEF Alternates
  <2>1. ASSUME NEW k \in (i + 2)..j PROVE ~IsOf(queue, k, n)
    <3>1. k - 1 \in (i + 1)..(j - 1) /\ k - 1 \in 1..len /\ (k - 1) + 1 = k
      BY <1>1
    <3> QED
      BY <1>3, <3>1 DEF Follows
  <2>2. Follows(queue, i + 1, j + 1, n)
    BY <1>1, <1>3, <2>1 DEF Follows
  <2> QED
    BY <1>1, <1>3, <2>2 DEF Alternates
<1>7. Leads(rest, says, n)
  BY <1>1, <1>3, <1>4 DEF Leads
<1>8. CASE NoneOf(rest, n)
  <2>1. ASSUME NEW k \in 2..(len + 1) PROVE ~IsOf(queue, k, n)
    <3>1. k - 1 \in 1..len /\ (k - 1) + 1 = k
      BY <1>1
    <3> QED
      BY <1>1, <1>3, <1>8, <3>1 DEF NoneOf
  <2>2. IsOf(queue, 1, n) => LastOf(queue, 1, n)
    BY <1>1, <2>1 DEF LastOf
  <2>3. ~IsOf(queue, 1, n) => NoneOf(queue, n)
    BY <1>1, <2>1 DEF NoneOf
  <2>4. n \in says <=> n \in after
    BY <1>1, <1>3, <2>2, <2>3 DEF Leads
  <2> QED
    BY <1>5, <1>6, <1>7, <1>8, <2>4 DEF rest
<1>9. CASE ~NoneOf(rest, n)
  <2>1. ~NoneOf(queue, n)
    BY <1>1, <1>3, <1>9 DEF NoneOf
  <2>2. PICK i \in 1..(len + 1) : LastOf(queue, i, n)
    BY <1>1, <2>1
  <2>3. PICK k \in 1..len : IsOf(queue, k + 1, n)
    BY <1>1, <1>3, <1>9 DEF NoneOf
  <2>4. i # 1
    BY <1>1, <2>2, <2>3 DEF LastOf
  <2>5. i - 1 \in 1..len /\ (i - 1) + 1 = i
    BY <1>1, <2>4
  <2>6. LastOf(rest, i - 1, n)
    BY <1>4, <2>2, <2>5
  <2> QED
    BY <1>1, <1>5, <1>6, <1>7, <1>9, <2>5, <2>6 DEF rest
<1> QED
  BY <1>8, <1>9

(* Between the last event and what Android said there is no difference.    *)
LEMMA ChainSays ==
  ASSUME NEW queue \in Seq(Event), NEW have, NEW says, NEW n, Chain(queue, have, says, n)
  PROVE  n \in says <=>
           SaysLast(queue, "available", n) \/ (n \in have /\ ~SaysLast(queue, "lost", n))
<1>1. DOMAIN queue = 1..Len(queue) /\ Len(queue) \in Nat
  OBVIOUS
<1>2. CASE NoneOf(queue, n)
  <2>1. ASSUME NEW kind PROVE ~SaysLast(queue, kind, n)
    BY <1>1, <1>2 DEF SaysLast, NoneOf, IsOf
  <2> QED
    BY <1>2, <2>1 DEF Chain
<1>3. CASE ~NoneOf(queue, n)
  <2>1. PICK i \in 1..Len(queue) : LastOf(queue, i, n)
    BY <1>3 DEF Chain
  <2>2. queue[i][1] \in Kinds /\ queue[i] = <<queue[i][1], n>>
    BY <2>1, EventParts DEF LastOf, IsOf
  <2>3. ASSUME NEW kind PROVE SaysLast(queue, kind, n) <=> queue[i][1] = kind
    <3>1. ASSUME queue[i][1] = kind PROVE SaysLast(queue, kind, n)
      BY <1>1, <2>1, <2>2, <3>1 DEF SaysLast, LastOf, IsOf
    <3>2. ASSUME SaysLast(queue, kind, n) PROVE queue[i][1] = kind
      <4>1. PICK j \in 1..Len(queue) :
              queue[j] = <<kind, n>> /\ \A k \in (j + 1)..Len(queue) : queue[k][2] # n
        BY <1>1, <3>2 DEF SaysLast
      <4>2. queue[i][2] = n /\ queue[j][2] = n
        BY <2>2, <4>1
      <4>3. ~(i > j)
        BY <1>1, <4>1, <4>2
      <4>4. ~(j > i)
        BY <1>1, <2>1, <4>2 DEF LastOf, IsOf
      <4>5. i = j
        BY <4>3, <4>4
      <4> QED
        BY <4>1, <4>5
    <3> QED
      BY <3>1, <3>2
  <2>4. queue[i][1] = "available" <=> n \in says
    BY <2>1 DEF Chain, Leads
  <2> QED
    BY <2>2, <2>3, <2>4 DEF Kinds
<1> QED
  BY <1>2, <1>3

LinksInv ==
  /\ pending = [r \in Relays |-> pending[r]]
  /\ links = [r \in Relays |-> links[r]]
  /\ failed = [r \in Relays |-> failed[r]]
  /\ told = [r \in Relays |-> told[r]]
  /\ \A r \in Relays : pending[r] \in Seq(Event)
  /\ \A r \in Relays : links[r] \cap failed[r] = {}
  /\ \A r \in Relays, n \in Networks :
       ~closed[r] => Chain(pending[r], links[r] \cup failed[r], told[r], n)

LEMMA EmptyChain == \A n : Chain(<<>>, {}, {}, n)
BY DEF Chain, Starts, Alternates, Leads, NoneOf, LastOf

LEMMA LinksInit == Init => LinksInv
BY EmptyChain DEF Init, LinksInv

(* What the relay has changes with the event at the head.                  *)
LEMMA ChainDrop ==
  ASSUME LinksInv, NEW r \in Relays, ~closed[r], NEW kind \in Kinds, NEW m \in Networks,
         IsNext(r, kind, m), NEW after,
         m \in after <=> kind = "available",
         \A n \in Networks : n # m => (n \in after <=> n \in links[r] \cup failed[r])
  PROVE  /\ Tail(pending[r]) \in Seq(Event)
         /\ \A n \in Networks : Chain(Tail(pending[r]), after, told[r], n)
<1>1. /\ pending[r] \in Seq(Event) /\ pending[r] # <<>>
      /\ Head(pending[r])[1] = kind /\ Head(pending[r])[2] = m
  BY DEF LinksInv, IsNext
<1>2. ASSUME NEW n \in Networks PROVE Chain(Tail(pending[r]), after, told[r], n)
  BY <1>1, ChainTail DEF LinksInv
<1> QED
  BY <1>1, <1>2

(* A network that is to become available has no link and did not fail.     *)
LEMMA HeadIsNews ==
  ASSUME LinksInv, NEW r \in Relays, ~closed[r], NEW m \in Networks, IsNext(r, "available", m)
  PROVE  m \notin links[r] \cup failed[r]
<1>1. /\ pending[r] \in Seq(Event) /\ pending[r] # <<>>
      /\ Starts(pending[r], links[r] \cup failed[r], m)
  BY DEF LinksInv, IsNext, Chain
<1>2. Len(pending[r]) \in Nat /\ Len(pending[r]) # 0 /\ pending[r][1] = <<"available", m>>
  BY <1>1 DEF IsNext
<1> QED
  BY <1>1, <1>2 DEF Starts, FirstOf, IsOf

LEMMA LinksStep == ClosedInv /\ LinksInv /\ [Next]_vars => LinksInv'
<1> SUFFICES ASSUME ClosedInv, LinksInv, [Next]_vars PROVE LinksInv'
  OBVIOUS
<1>1. ASSUME UNCHANGED <<pending, links, failed, told>>,
             \A r \in Relays : closed[r] => closed'[r]
      PROVE  LinksInv'
  BY <1>1 DEF LinksInv
<1>2. CASE \/ \E n \in Networks : NetworkUp(n) \/ NetworkLost(n)
           \/ BeginStart
           \/ BeginStop
           \/ ClientStep
           \/ UNCHANGED vars
  <2>1. /\ UNCHANGED <<pending, links, failed, told>>
        /\ UNCHANGED closed \/ closed' = [closed EXCEPT ![starts] = TRUE]
    BY <1>2 DEF NetworkUp, NetworkLost, BeginStart, BeginStop, ClientStep, Halt, Unregister,
                JoinToStart, Register, Spawn, Keep, StartFails, JoinToStop, vars, relayVars,
                flagVars
  <2>2. \A r \in Relays : closed[r] => closed'[r]
    BY <2>1 DEF ClosedInv
  <2> QED
    BY <1>1, <2>1, <2>2
<1>3. CASE \E r \in Relays : CallbackStep(r)
  <2> PICK r \in Relays, m \in Networks : OnAvailable(r, m) \/ OnLost(r, m)
    BY <1>3 DEF CallbackStep
  <2> PICK kind \in Kinds :
        /\ pending' = [pending EXCEPT ![r] = Append(@, <<kind, m>>)]
        /\ kind = "available" => m \notin told[r] /\ told' = [told EXCEPT ![r] = @ \cup {m}]
        /\ kind = "lost" => m \in told[r] /\ told' = [told EXCEPT ![r] = @ \ {m}]
        /\ UNCHANGED <<links, failed, closed>>
    BY DEF OnAvailable, OnLost, Queued, Kinds
  <2>1. ASSUME ~closed[r], NEW n \in Networks
        PROVE  Chain(pending'[r], links[r] \cup failed[r], told'[r], n)
    <3>1. /\ pending[r] \in Seq(Event)
          /\ Chain(pending[r], links[r] \cup failed[r], told[r], n)
          /\ pending'[r] = Append(pending[r], <<kind, m>>)
      BY <2>1 DEF LinksInv
    <3>2. /\ n = m => (kind = "available" <=> n \notin told[r])
                     /\ (kind = "available" <=> n \in told'[r])
          /\ n # m => (n \in told'[r] <=> n \in told[r])
      BY DEF LinksInv, Kinds
    <3> QED
      BY <3>1, <3>2, ChainAppend
  <2>2. pending'[r] \in Seq(Event)
    BY DEF LinksInv, Event, Kinds
  <2>3. told' = [s \in Relays |-> told'[s]] /\ \A s \in Relays : s # r => told'[s] = told[s]
    BY DEF LinksInv, Kinds
  <2>4. pending' = [s \in Relays |-> pending'[s]] /\ \A s \in Relays : s # r => pending'[s] = pending[s]
    BY DEF LinksInv
  <2>5. ASSUME NEW s \in Relays, NEW n \in Networks, ~closed'[s]
        PROVE  Chain(pending'[s], links'[s] \cup failed'[s], told'[s], n)
    <3>1. CASE s = r
      BY <2>1, <2>5, <3>1
    <3>2. CASE s # r
      BY <2>3, <2>4, <2>5, <3>2 DEF LinksInv
    <3> QED
      BY <3>1, <3>2
  <2> QED
    BY <2>2, <2>3, <2>4, <2>5 DEF LinksInv
<1>4. ASSUME NEW r \in Relays, ~closed[r], closed' = closed,
             NEW m \in Networks, NEW kind \in Kinds, IsNext(r, kind, m),
             m \in links'[r] \cup failed'[r] <=> kind = "available",
             \A n \in Networks :
               n # m => (n \in links'[r] \cup failed'[r] <=> n \in links[r] \cup failed[r]),
             links'[r] \cap failed'[r] = {},
             Drops(r),
             links' = [links EXCEPT ![r] = links'[r]],
             failed' = [failed EXCEPT ![r] = failed'[r]],
             told' = told
      PROVE  LinksInv'
  <2>1. /\ Tail(pending[r]) \in Seq(Event)
        /\ \A n \in Networks : Chain(Tail(pending[r]), links'[r] \cup failed'[r], told[r], n)
    BY <1>4, ChainDrop
  <2>2. /\ pending' = [s \in Relays |-> pending'[s]]
        /\ \A s \in Relays : pending'[s] = IF s = r THEN Tail(pending[r]) ELSE pending[s]
    BY <1>4 DEF LinksInv, Drops
  <2>3. /\ links' = [s \in Relays |-> links'[s]] /\ failed' = [s \in Relays |-> failed'[s]]
        /\ \A s \in Relays : s # r => links'[s] = links[s] /\ failed'[s] = failed[s]
    BY <1>4 DEF LinksInv
  <2>4. ASSUME NEW s \in Relays, NEW n \in Networks, ~closed'[s]
        PROVE  Chain(pending'[s], links'[s] \cup failed'[s], told'[s], n)
    <3>1. CASE s = r
      BY <1>4, <2>1, <2>2, <3>1
    <3>2. CASE s # r
      <4>1. /\ pending'[s] = pending[s] /\ links'[s] = links[s]
            /\ failed'[s] = failed[s] /\ told'[s] = told[s]
        BY <1>4, <2>2, <2>3, <3>2
      <4> QED
        BY <1>4, <2>4, <4>1 DEF LinksInv
    <3> QED
      BY <3>1, <3>2
  <2>5. ASSUME NEW s \in Relays
        PROVE  pending'[s] \in Seq(Event) /\ links'[s] \cap failed'[s] = {}
    <3>1. CASE s = r
      BY <1>4, <2>1, <2>2, <3>1
    <3>2. CASE s # r
      BY <2>2, <2>3, <3>2 DEF LinksInv
    <3> QED
      BY <3>1, <3>2
  <2>6. told' = [s \in Relays |-> told'[s]]
    BY <1>4 DEF LinksInv
  <2> QED
    BY <2>2, <2>3, <2>4, <2>5, <2>6 DEF LinksInv
<1>5. CASE \E r \in Relays : IoStep(r)
  <2> PICK r \in Relays : IoStep(r)
    BY <1>5
  <2> USE DEF IoUnchanged, Kinds
  <2>0. /\ thread[r] = "drain" => ~closed[r]
        /\ closed = [s \in Relays |-> closed[s]]
    BY DEF ClosedInv, Over
  <2>1. CASE SelectReturns(r)
    BY <1>1, <2>1 DEF SelectReturns
  <2>c. CASE Close(r)
    <3>1. /\ links' = [links EXCEPT ![r] = {}] /\ failed' = [failed EXCEPT ![r] = {}]
          /\ closed' = [closed EXCEPT ![r] = TRUE] /\ UNCHANGED <<pending, told>>
      BY <2>c DEF Close
    <3>2. \A s \in Relays :
            /\ closed'[s] <=> closed[s] \/ s = r
            /\ s # r => links'[s] = links[s] /\ failed'[s] = failed[s]
      BY <2>0, <3>1 DEF LinksInv
    <3>3. \A s \in Relays : links'[s] \cap failed'[s] = {}
      BY <3>1 DEF LinksInv
    <3>4. ASSUME NEW s \in Relays, NEW n \in Networks, ~closed'[s]
          PROVE  Chain(pending'[s], links'[s] \cup failed'[s], told'[s], n)
      BY <3>1, <3>2, <3>4 DEF LinksInv
    <3> QED
      BY <3>1, <3>3, <3>4 DEF LinksInv
  <2>2. ASSUME NEW m \in Networks, AddLink(r, m) PROVE LinksInv'
    <3>1. ~closed[r] /\ IsNext(r, "available", m) /\ m \notin links[r] \cup failed[r]
      BY <2>0, <2>2, HeadIsNews DEF AddLink, IsNext
    <3>2. /\ links'[r] = links[r] \cup {m} /\ failed'[r] = failed[r] /\ Drops(r)
          /\ links' = [links EXCEPT ![r] = links'[r]]
          /\ failed' = [failed EXCEPT ![r] = failed'[r]] /\ UNCHANGED <<told, closed>>
      BY <2>2 DEF AddLink, LinksInv
    <3>3. links'[r] \cap failed'[r] = {}
      BY <3>1, <3>2 DEF LinksInv
    <3> QED
      BY <1>4, <3>1, <3>2, <3>3
  <2>3. ASSUME NEW m \in Networks, AddFails(r, m) PROVE LinksInv'
    <3>1. ~closed[r] /\ IsNext(r, "available", m) /\ m \notin links[r] \cup failed[r]
      BY <2>0, <2>3, HeadIsNews DEF AddFails, IsNext
    <3>2. /\ links'[r] = links[r] /\ failed'[r] = failed[r] \cup {m} /\ Drops(r)
          /\ links' = [links EXCEPT ![r] = links'[r]]
          /\ failed' = [failed EXCEPT ![r] = failed'[r]] /\ UNCHANGED <<told, closed>>
      BY <2>3 DEF AddFails, LinksInv
    <3>3. links'[r] \cap failed'[r] = {}
      BY <3>1, <3>2 DEF LinksInv
    <3> QED
      BY <1>4, <3>1, <3>2, <3>3
  <2>4. ASSUME NEW m \in Networks, RemoveLink(r, m) PROVE LinksInv'
    <3>1. ~closed[r] /\ IsNext(r, "lost", m) /\ m \in links[r] /\ links[r] \cap failed[r] = {}
      BY <2>0, <2>4 DEF RemoveLink, IsNext, LinksInv
    <3>2. /\ links'[r] = links[r] \ {m} /\ failed'[r] = failed[r] /\ Drops(r)
          /\ links' = [links EXCEPT ![r] = links'[r]]
          /\ failed' = [failed EXCEPT ![r] = failed'[r]] /\ UNCHANGED <<told, closed>>
      BY <2>4 DEF RemoveLink, LinksInv
    <3> QED
      BY <1>4, <3>1, <3>2
  <2>5. ASSUME NEW m \in Networks, ForgetFailed(r, m) PROVE LinksInv'
    <3>1. ~closed[r] /\ IsNext(r, "lost", m) /\ m \notin links[r] /\ links[r] \cap failed[r] = {}
      BY <2>0, <2>5 DEF ForgetFailed, IsNext, LinksInv
    <3>2. /\ links'[r] = links[r] /\ failed'[r] = failed[r] \ {m} /\ Drops(r)
          /\ links' = [links EXCEPT ![r] = links'[r]]
          /\ failed' = [failed EXCEPT ![r] = failed'[r]] /\ UNCHANGED <<told, closed>>
      BY <2>5 DEF ForgetFailed, LinksInv
    <3> QED
      BY <1>4, <3>1, <3>2
  <2>6. CASE Tick(r) \/ CheckEpoch(r) \/ WriteLinks(r)
    <3>1. UNCHANGED <<pending, links, failed, told, closed>>
      BY <2>6 DEF Tick, CheckEpoch, WriteLinks, PublishUnchanged
    <3> QED
      BY <1>1, <3>1
  <2> QED
    BY <2>1, <2>c, <2>2, <2>3, <2>4, <2>5, <2>6 DEF IoStep
<1> QED
  BY <1>2, <1>3, <1>5 DEF Next

(* The callbacks of a network alternate and the queue keeps their order,   *)
(* so that draining it ends with the networks that are there.              *)
THEOREM LinksFollow == Spec => []LinksFollowNetworks
<1>1. ASSUME LinksInv PROVE LinksFollowNetworks
  <2> SUFFICES ASSUME NEW r \in Relays, NEW n \in Networks, ~closed[r]
               PROVE  n \in told[r] <=>
                        \/ SaysLast(pending[r], "available", n)
                        \/ n \in links[r] \cup failed[r] /\ ~SaysLast(pending[r], "lost", n)
    BY DEF LinksFollowNetworks
  <2>1. /\ pending[r] \in Seq(Event)
        /\ Chain(pending[r], links[r] \cup failed[r], told[r], n)
    BY <1>1 DEF LinksInv
  <2> QED
    BY <2>1, ChainSays
<1> QED
  BY <1>1, LinksInit, LinksStep, ClosedCorrect, PTL DEF Spec

=============================================================================
