------------------------------- MODULE LinkIo -------------------------------
(***************************************************************************)
(* The bonding client around the scheduler: SrtlaClientImpl starts and     *)
(* stops relays (LinkIoLoop) one at a time under the mutex of its wrapper, *)
(* a relay's io thread turns the networks that Android reports into links, *)
(* and publishes the list of its links for the screen, if its epoch is     *)
(* still the client's.                                                     *)
(*                                                                         *)
(* A network goes and comes back as it likes.  Packets and the scheduler   *)
(* are the business of SrtlaBonding; here a link is the network it goes    *)
(* over.                                                                   *)
(***************************************************************************)
EXTENDS Naturals, Sequences, FiniteSets

CONSTANTS
  Networks,   (* The networks of the phone.                                 *)
  MaxChanges, (* Networks that come up or go, in all (bound).               *)
  MaxStarts   (* Relays started (bound).                                    *)

ASSUME LinkIoAssumption == MaxStarts \in Nat /\ MaxChanges \in Nat

Relays == 1..MaxStarts

VARIABLES
  up,         (* Networks that are up.                                      *)
  changes,    (* How often a network came or went.                          *)
  client,     (* Where the call of start() or stop() is; "idle" if none.    *)
  goal,       (* Which of the two it is, "none" if none.                    *)
  loop,       (* The relay the client holds, 0 for null.                    *)
  starts,     (* The relays created so far.                                 *)
  epoch,      (* The relay whose epoch is startEpoch, 0 for none.           *)
  shown,      (* The client's links: what the screen shows.                 *)
  shownBy,    (* The relay whose links they are, 0 if there are none.       *)
  running,    (* Of every relay: running                                    *)
  listening,  (* The provider's callbacks are registered.                   *)
  told,       (* What the provider's callbacks said is up.                  *)
  pending,    (* pendingEvents                                              *)
  thread,     (* Where the io thread is.                                    *)
  links,      (* Networks with a link.                                      *)
  failed,     (* Networks whose addLink threw.                              *)
  closed,     (* closed                                                     *)
  abandoned   (* Relays that stop() left with their io thread running.      *)

flagVars == <<running, listening>>
relayVars == <<flagVars, told, pending, thread, links, failed, closed>>
clientVars == <<client, goal, loop, starts, epoch, abandoned>>
screenVars == <<shown, shownBy>>
vars == <<up, changes, screenVars, relayVars, clientVars>>

Event == {"available", "lost"} \X Networks

(* "publish" and "write" stand within the drain and at the end, "report"   *)
(* and "rewrite" for the list of every second.                             *)
Places == {"none", "select", "drain", "publish", "write", "report", "rewrite", "ended"}

(* Both calls halt the relay in three steps; start() creates the next one, *)
(* registers its callbacks, starts its thread and keeps it.                *)
ClientPlaces == {"idle", "halt", "unregister", "join", "register", "spawn", "keep"}

TypeOK ==
  /\ up \subseteq Networks
  /\ changes \in 0..MaxChanges
  /\ client \in ClientPlaces
  /\ goal \in {"none", "start", "stop"}
  /\ loop \in 0..MaxStarts
  /\ starts \in 0..MaxStarts
  /\ epoch \in 0..MaxStarts
  /\ shown \subseteq Networks
  /\ shownBy \in 0..MaxStarts
  /\ running \in [Relays -> BOOLEAN]
  /\ listening \in [Relays -> BOOLEAN]
  /\ told \in [Relays -> SUBSET Networks]
  /\ pending \in [Relays -> Seq(Event)]
  /\ thread \in [Relays -> Places]
  /\ links \in [Relays -> SUBSET Networks]
  /\ failed \in [Relays -> SUBSET Networks]
  /\ closed \in [Relays -> BOOLEAN]
  /\ abandoned \subseteq Relays

Init ==
  /\ up = {}
  /\ changes = 0
  /\ client = "idle"
  /\ goal = "none"
  /\ loop = 0
  /\ starts = 0
  /\ epoch = 0
  /\ shown = {}
  /\ shownBy = 0
  /\ running = [r \in Relays |-> FALSE]
  /\ listening = [r \in Relays |-> FALSE]
  /\ told = [r \in Relays |-> {}]
  /\ pending = [r \in Relays |-> <<>>]
  /\ thread = [r \in Relays |-> "none"]
  /\ links = [r \in Relays |-> {}]
  /\ failed = [r \in Relays |-> {}]
  /\ closed = [r \in Relays |-> FALSE]
  /\ abandoned = {}

-----------------------------------------------------------------------------
(* Android's networks and its callbacks                                    *)

NetworkUp(n) ==
  /\ n \notin up
  /\ changes < MaxChanges
  /\ up' = up \cup {n}
  /\ changes' = changes + 1
  /\ UNCHANGED <<screenVars, relayVars, clientVars>>

NetworkLost(n) ==
  /\ n \in up
  /\ changes < MaxChanges
  /\ up' = up \ {n}
  /\ changes' = changes + 1
  /\ UNCHANGED <<screenVars, relayVars, clientVars>>

(* Mutants: the events come to the front of the queue, or only the last    *)
(* one is kept.                                                            *)
QueuedFirst(queue, event) == <<event>> \o queue

QueuedAlone(queue, event) == <<event>>

Queued(queue, event) == Append(queue, event)

(* A registered callback is told of what is up and of what it was told of  *)
(* and is lost, whether the relay still runs or its thread is not there    *)
(* yet; provider.stop() unregisters it.                                    *)
OnAvailable(r, n) ==
  /\ listening[r]
  /\ n \in up \ told[r]
  /\ told' = [told EXCEPT ![r] = @ \cup {n}]
  /\ pending' = [pending EXCEPT ![r] = Queued(@, <<"available", n>>)]
  /\ UNCHANGED <<up, changes, screenVars, flagVars, thread, links, failed, closed, clientVars>>

OnLost(r, n) ==
  /\ listening[r]
  /\ n \in told[r] \ up
  /\ told' = [told EXCEPT ![r] = @ \ {n}]
  /\ pending' = [pending EXCEPT ![r] = Queued(@, <<"lost", n>>)]
  /\ UNCHANGED <<up, changes, screenVars, flagVars, thread, links, failed, closed, clientVars>>

-----------------------------------------------------------------------------
(* The client: start() and stop(), one at a time                           *)

(* A client without a relay has nothing to halt.                           *)
ToHalt == IF loop = 0 THEN "join" ELSE "halt"

BeginStart ==
  /\ client = "idle"
  /\ starts < MaxStarts
  /\ client' = ToHalt
  /\ goal' = "start"
  /\ UNCHANGED <<up, changes, screenVars, relayVars, loop, starts, epoch, abandoned>>

(* The mutant of stop() leaves the epoch to the stopped relay.             *)
EpochKept == epoch

EpochAfterStop == 0

BeginStop ==
  /\ client = "idle"
  /\ client' = ToHalt
  /\ goal' = "stop"
  /\ epoch' = EpochAfterStop
  /\ UNCHANGED <<up, changes, screenVars, relayVars, loop, starts, abandoned>>

(* provider.stop(): the callbacks of a relay are unregistered.  The mutant *)
(* leaves them to Android.                                                 *)
CallbacksStay(r) == UNCHANGED listening

CallbacksEnd(r) == listening' = [listening EXCEPT ![r] = FALSE]

(* LinkIoLoop.stop(): the flag goes down, and only then the callbacks.     *)
Halt ==
  /\ client = "halt"
  /\ running' = [running EXCEPT ![loop] = FALSE]
  /\ client' = "unregister"
  /\ UNCHANGED <<up, changes, screenVars, listening, told, pending, thread, links, failed, closed,
                 goal, loop, starts, epoch, abandoned>>

Unregister ==
  /\ client = "unregister"
  /\ CallbacksEnd(loop)
  /\ client' = "join"
  /\ UNCHANGED <<up, changes, screenVars, running, told, pending, thread, links, failed, closed,
                 goal, loop, starts, epoch, abandoned>>

Returns ==
  /\ client' = "idle"
  /\ goal' = "none"

Alive(r) == thread[r] \notin {"none", "ended"}

(* thread?.join(JOIN_TIMEOUT_MS), for what it is worth.  Mutant: it is not *)
(* called.                                                                 *)
NotJoined == UNCHANGED abandoned

Joined == abandoned' = abandoned \cup {r \in {loop} \ {0} : Alive(r)}

(* The new epoch and its relay, or a constructor that throws (no selector, *)
(* no channel).                                                            *)
JoinToStart ==
  /\ client = "join"
  /\ goal = "start"
  /\ Joined
  /\ starts' = starts + 1
  /\ epoch' = starts + 1
  /\ loop' = 0
  /\ (client' = "register" /\ UNCHANGED goal) \/ Returns
  /\ UNCHANGED <<up, changes, screenVars, relayVars>>

(* LinkIoLoop.start(): the name is resolved and the callbacks registered,  *)
(* the thread is started, and the client keeps the relay.                  *)
Register ==
  /\ client = "register"
  /\ running' = [running EXCEPT ![starts] = TRUE]
  /\ listening' = [listening EXCEPT ![starts] = TRUE]
  /\ client' = "spawn"
  /\ UNCHANGED <<up, changes, screenVars, told, pending, thread, links, failed, closed,
                 goal, loop, starts, epoch, abandoned>>

Spawn ==
  /\ client = "spawn"
  /\ thread' = [thread EXCEPT ![starts] = "select"]
  /\ client' = "keep"
  /\ UNCHANGED <<up, changes, screenVars, flagVars, told, pending, links, failed, closed,
                 goal, loop, starts, epoch, abandoned>>

Keep ==
  /\ client = "keep"
  /\ loop' = starts
  /\ Returns
  /\ UNCHANGED <<up, changes, screenVars, relayVars, starts, epoch, abandoned>>

(* It throws before or after the callbacks were registered; closeQuietly() *)
(* has published that there are no links.                                  *)
StartFails ==
  /\ client \in {"register", "spawn"}
  /\ running' = [running EXCEPT ![starts] = FALSE]
  /\ CallbacksEnd(starts)
  /\ closed' = [closed EXCEPT ![starts] = TRUE]
  /\ shown' = {}
  /\ shownBy' = 0
  /\ Returns
  /\ UNCHANGED <<up, changes, told, pending, thread, links, failed,
                 loop, starts, epoch, abandoned>>

JoinToStop ==
  /\ client = "join"
  /\ goal = "stop"
  /\ Joined
  /\ loop' = 0
  /\ shown' = {}
  /\ shownBy' = 0
  /\ Returns
  /\ UNCHANGED <<up, changes, relayVars, starts, epoch>>

ClientStep ==
  \/ Halt
  \/ Unregister
  \/ JoinToStart
  \/ Register
  \/ Spawn
  \/ Keep
  \/ StartFails
  \/ JoinToStop

-----------------------------------------------------------------------------
(* The io thread of relay r                                                *)

IoUnchanged == <<up, changes, flagVars, told, clientVars>>

IoGoes(r, to) == thread' = [thread EXCEPT ![r] = to]

SelectReturns(r) ==
  /\ thread[r] = "select"
  /\ running[r]
  /\ IoGoes(r, "drain")
  /\ UNCHANGED <<IoUnchanged, screenVars, pending, links, failed, closed>>

(* closeQuietly(): the channels of the links are closed.  What is queued   *)
(* stays, and as long as the callbacks are registered more may come.       *)
Close(r) ==
  /\ thread[r] = "select"
  /\ ~running[r]
  /\ links' = [links EXCEPT ![r] = {}]
  /\ failed' = [failed EXCEPT ![r] = {}]
  /\ closed' = [closed EXCEPT ![r] = TRUE]
  /\ IoGoes(r, "publish")
  /\ UNCHANGED <<IoUnchanged, screenVars, pending>>

Drops(r) == pending' = [pending EXCEPT ![r] = Tail(@)]

IsNext(r, kind, n) ==
  /\ thread[r] = "drain"
  /\ pending[r] # <<>>
  /\ Head(pending[r]) = <<kind, n>>

(* addLink; the event counts as polled when the name has been resolved.    *)
AddLink(r, n) ==
  /\ IsNext(r, "available", n)
  /\ n \notin links[r]
  /\ Drops(r)
  /\ links' = [links EXCEPT ![r] = @ \cup {n}]
  /\ IoGoes(r, "publish")
  /\ UNCHANGED <<IoUnchanged, screenVars, failed, closed>>

AddFails(r, n) ==
  /\ IsNext(r, "available", n)
  /\ n \notin links[r]
  /\ Drops(r)
  /\ failed' = [failed EXCEPT ![r] = @ \cup {n}]
  /\ UNCHANGED <<IoUnchanged, screenVars, thread, links, closed>>

RemoveLink(r, n) ==
  /\ IsNext(r, "lost", n)
  /\ n \in links[r]
  /\ Drops(r)
  /\ links' = [links EXCEPT ![r] = @ \ {n}]
  /\ IoGoes(r, "publish")
  /\ UNCHANGED <<IoUnchanged, screenVars, failed, closed>>

(* A network without a link is lost.                                       *)
ForgetFailed(r, n) ==
  /\ IsNext(r, "lost", n)
  /\ n \notin links[r]
  /\ Drops(r)
  /\ failed' = [failed EXCEPT ![r] = @ \ {n}]
  /\ UNCHANGED <<IoUnchanged, screenVars, thread, links, closed>>

(* No event is left: the packets are read and, once a second, the list is  *)
(* published.                                                              *)
Tick(r) ==
  /\ thread[r] = "drain"
  /\ pending[r] = <<>>
  /\ IoGoes(r, "select") \/ IoGoes(r, "report")
  /\ UNCHANGED <<IoUnchanged, screenVars, pending, links, failed, closed>>

AfterPublish(r) ==
  IF closed[r] THEN "ended" ELSE IF thread[r] \in {"publish", "write"} THEN "drain" ELSE "select"

ToWrite(r) == IF thread[r] = "publish" THEN "write" ELSE "rewrite"

PublishUnchanged == <<IoUnchanged, pending, links, failed, closed>>

(* onLinksSnapshot: the epoch is compared, then the list is set.           *)
CheckEpoch(r) ==
  /\ thread[r] \in {"publish", "report"}
  /\ IoGoes(r, IF epoch = r THEN ToWrite(r) ELSE AfterPublish(r))
  /\ UNCHANGED <<PublishUnchanged, screenVars>>

WriteLinks(r) ==
  /\ thread[r] \in {"write", "rewrite"}
  /\ shown' = links[r]
  /\ shownBy' = IF links[r] = {} THEN 0 ELSE r
  /\ IoGoes(r, AfterPublish(r))
  /\ UNCHANGED PublishUnchanged

IoStep(r) ==
  \/ SelectReturns(r)
  \/ Close(r)
  \/ \E n \in Networks :
       \/ AddLink(r, n)
       \/ AddFails(r, n)
       \/ RemoveLink(r, n)
       \/ ForgetFailed(r, n)
  \/ Tick(r)
  \/ CheckEpoch(r)
  \/ WriteLinks(r)

-----------------------------------------------------------------------------
CallbackStep(r) == \E n \in Networks : OnAvailable(r, n) \/ OnLost(r, n)

Next ==
  \/ \E n \in Networks : NetworkUp(n) \/ NetworkLost(n)
  \/ \E r \in Relays : CallbackStep(r)
  \/ BeginStart
  \/ BeginStop
  \/ ClientStep
  \/ \E r \in Relays : IoStep(r)

(* The io thread is scheduled (a select ends by itself and a name query by *)
(* its timeout), Android calls the callbacks, and a join ends in time.     *)
(* Networks, starts and stops come as they like.                           *)
Fairness ==
  /\ WF_vars(ClientStep)
  /\ \A r \in Relays : WF_vars(IoStep(r)) /\ WF_vars(CallbackStep(r))

Spec == Init /\ [][Next]_vars /\ Fairness

-----------------------------------------------------------------------------
SaysLast(queue, kind, n) ==
  \E i \in DOMAIN queue :
    queue[i] = <<kind, n>> /\ \A j \in (i + 1)..Len(queue) : queue[j][2] # n

(* What the links will be when the queue is drained: exactly the networks  *)
(* Android reported and did not take back, whatever came in which order;   *)
(* the only other ones are those whose addLink threw.                      *)
LinksFollowNetworks ==
  \A r \in Relays, n \in Networks : ~closed[r] =>
    (n \in told[r] <=>
      \/ SaysLast(pending[r], "available", n)
      \/ n \in links[r] \cup failed[r] /\ ~SaysLast(pending[r], "lost", n))

(* Relays follow each other: the io thread of one has ended before the     *)
(* next one starts, unless it took longer than stop() waits.               *)
OneRelayRuns ==
  \A r, s \in Relays : Alive(r) /\ Alive(s) /\ r # s => {r, s} \cap abandoned # {}

(* After stop(), or a start that failed, the screen shows no links.  The   *)
(* one exception is the list of a relay that a join gave up: it compared   *)
(* the epoch before that ended and set the list after, or a failed start   *)
(* left what it had set.                                                   *)
StoppedShowsNothing ==
  client = "idle" /\ loop = 0 => shown = {} \/ (shownBy \in abandoned /\ shownBy # epoch)

(* Android calls back one relay at most: the one the client holds, until   *)
(* stop() has come to its callbacks, or the one it is about to keep.  None *)
(* is left behind by a stop, a start that failed or a join given up.       *)
OneRelayListens ==
  \A r \in Relays : listening[r] =>
    \/ r = loop /\ client \in {"idle", "halt", "unregister"}
    \/ r = starts /\ client \in {"spawn", "keep"}

(* A relay that closed its channels never has one again, although events   *)
(* may be left in its queue and a callback may add another: its thread     *)
(* drains nothing any more, and its callbacks end with the call that       *)
(* halted it.                                                              *)
ClosedOwnsNothing ==
  \A r \in Relays : closed[r] =>
    /\ links[r] = {}
    /\ ~running[r]
    /\ thread[r] \in {"none", "publish", "write", "ended"}
    /\ listening[r] => r = loop /\ client = "unregister"

(* A relay that the client keeps comes to have a link for every network    *)
(* that is up, or an addLink that threw: the networks change only          *)
(* MaxChanges times, so it catches up with them.                           *)
UsesAll == loop # 0 /\ up \subseteq links[loop] \cup failed[loop]

NetworksAreUsed == (client = "idle" /\ loop # 0) ~> (UsesAll \/ client # "idle")

=============================================================================
